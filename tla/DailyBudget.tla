---------------------------- MODULE DailyBudget -----------------------------
(***************************************************************************)
(* Who spends what, and what the budgets see of it: the cost trackers of   *)
(* running tasks and chat turns (pricing.py), the cost columns and the     *)
(* chat_spend rows (db.py), the flushes and budget checks of a run         *)
(* (runner.py), of a chat turn (chat.py) and of the dispatcher's launch    *)
(* gate (worker.py), across midnights, crashes and restarts.               *)
(*                                                                         *)
(* A step is what a coroutine does between two awaits.  A statement takes  *)
(* effect, and a SELECT takes its value, in the step that issues it; what  *)
(* follows the await is a later step.                                      *)
(*                                                                         *)
(* Days are relative: a row is dated "today" or "earlier", and Midnight    *)
(* makes every row an earlier one.  A check, a few SELECTs, is over before *)
(* the midnight after the next.                                            *)
(***************************************************************************)
EXTENDS Pricing, Functions, FiniteSets

CONSTANTS
    Tasks, Sessions,
    Revisions,     \* tasks whose thread is never resumed
    Work,          \* responses a task needs
    Models,        \* names a response may report
    Usages,        \* usage reports a response may carry
    Limit,         \* settings.daily_budget_usd
    TaskBudget,    \* a task's budget_usd (0: no cap)
    Environment,   \* what may happen: "chat", "midnight", "crash", "dberror"
    MaxTurns,      \* chat turns (bound)
    MaxCrashes     \* (bound)

Gate == "gate"
Spenders == Tasks \cup Sessions
Checkers == Spenders \cup {Gate}

ASSUME SpendersAssumption ==
    Tasks \cap Sessions = {} /\ Gate \notin Spenders /\ Revisions \subseteq Tasks
ASSUME FinitenessAssumption == IsFiniteSet(Spenders)
ASSUME AmountsAssumption ==
    /\ Limit \in Nat \ {0} /\ TaskBudget \in Nat /\ Work \in Nat \ {0}
    /\ MaxTurns \in Nat /\ MaxCrashes \in Nat
    /\ \A u \in Usages, m \in Models : Cost(u, m) \in Nat

VARIABLES
    status,      \* tasks.status: "queued", "running" or "ended"
    cost,        \* tasks.cost_usd
    dated,       \* the day of tasks.started_at
    chat,        \* sum of the chat_spend rows dated "today" and "yesterday"
    tracker,     \* the CostTracker of a run or a turn
    live,        \* the keys of DailyBudget._live
    thread,      \* the tasks that have a checkpoint
    work,        \* responses in the task's checkpoint
    pc,          \* where a run, a turn or the gate is suspended
    check,       \* the spent_usd() in progress: its midnight and partial sum
    outcome,     \* how a run is ending
    billed,      \* billed[t]: what the provider charged for t  (history)
    lost,        \* lost[t]: what went with a tracker of t and  (history)
                 \* no write had brought to its row
    today,       \* what the provider charged today             (history)
    turns, crashes

ledger == <<cost, dated, chat, tracker, live, billed, lost, today>>
progress == <<thread, work>>
vars == <<status, cost, dated, chat, tracker, live, thread, work, pc, check,
          outcome, billed, lost, today, turns, crashes>>

-----------------------------------------------------------------------------

Days == {"today", "yesterday"}
NoCost == [spent |-> 0, persisted |-> 0]
NoCheck == [since |-> "today", sum |-> 0]
Zero(S) == [x \in S |-> 0]

TaskControl == {"idle", "starting", "thinking", "billed", "flushing", "flushed",
                "rows", "sums", "ending", "closing", "leaving", "unsaved"}

TypeOK ==
    /\ status \in [Tasks -> {"queued", "running", "ended"}]
    /\ cost \in [Tasks -> Nat]
    /\ dated \in [Tasks -> {"today", "earlier"}]
    /\ chat \in [Days -> Nat]
    /\ tracker \in [Spenders -> [spent: Nat, persisted: Nat]]
    /\ live \subseteq Spenders
    /\ thread \subseteq Tasks
    /\ work \in [Tasks -> 0..Work]
    /\ pc \in [Checkers -> TaskControl]
    /\ check \in [Checkers -> [since: Days, sum: Nat]]
    /\ outcome \in [Tasks -> {"completed", "failed", "parked"}]
    /\ billed \in [Tasks -> Nat]
    /\ lost \in [Tasks -> Nat]
    /\ today \in Nat
    /\ turns \in 0..MaxTurns
    /\ crashes \in 0..MaxCrashes

Init ==
    /\ status = [t \in Tasks |-> "queued"]
    /\ cost = Zero(Tasks)
    /\ dated = [t \in Tasks |-> "earlier"]
    /\ chat = Zero(Days)
    /\ tracker = [p \in Spenders |-> NoCost]
    /\ live = {}
    /\ thread = {}
    /\ work = Zero(Tasks)
    /\ pc = [p \in Checkers |-> "idle"]
    /\ check = [p \in Checkers |-> NoCheck]
    /\ outcome = [t \in Tasks |-> "completed"]
    /\ billed = Zero(Tasks)
    /\ lost = Zero(Tasks)
    /\ today = 0
    /\ turns = 0
    /\ crashes = 0

-----------------------------------------------------------------------------
(* What a budget check sees: DailyBudget.spent_usd.  The two sums and the    *)
(* live spend are three reads at three moments.                              *)

Unpersisted(p) ==
    LET delta == tracker[p].spent - tracker[p].persisted
    IN  IF delta >= 0 THEN delta ELSE 0
LiveSpend == SumFunctionOnSet([p \in Spenders |-> Unpersisted(p)], live)
RowsEver == SumFunctionOnSet(cost, Tasks)
RowsToday == SumFunctionOnSet(cost, {t \in Tasks : dated[t] = "today"})
ChatSince(since) ==
    IF since = "today" THEN chat["today"] ELSE chat["today"] + chat["yesterday"]

Goto(p, c) == pc' = [pc EXCEPT ![p] = c]

BeginCheck(p) ==
    /\ Goto(p, "rows")
    /\ check' = [check EXCEPT ![p] = [since |-> "today", sum |-> RowsToday]]

ReadChat(p) ==
    /\ pc[p] = "rows"
    /\ Goto(p, "sums")
    /\ check' = [check EXCEPT ![p].sum = @ + ChatSince(check[p].since)]
    /\ UNCHANGED <<status, ledger, progress, outcome, turns, crashes>>

WithinLimit(p) == check[p].sum + LiveSpend < Limit
EndCheck(p) == check' = [check EXCEPT ![p] = NoCheck]

-----------------------------------------------------------------------------
(* The dispatcher's launch gate.  Any queued row may be the oldest, and slots *)
(* are never short.  The run it launches dates its row before the next check *)
(* reads the rows.                                                           *)

Launchable(t) == status[t] = "queued" /\ pc[t] = "idle"

GateChecks ==
    /\ pc[Gate] = "idle"
    /\ \E t \in Tasks : Launchable(t)
    /\ BeginCheck(Gate)
    /\ UNCHANGED <<status, ledger, progress, outcome, turns, crashes>>

GateLaunches(t) ==
    /\ pc[Gate] = "sums"
    /\ WithinLimit(Gate)
    /\ Launchable(t)
    /\ pc' = [pc EXCEPT ![Gate] = "idle", ![t] = "starting"]
    /\ EndCheck(Gate)
    /\ status' = [status EXCEPT ![t] = "running"]
    /\ dated' = [dated EXCEPT ![t] = "today"]
    /\ UNCHANGED <<cost, chat, tracker, live, progress, outcome, billed, lost, today,
                   turns, crashes>>

GateRefuses ==
    /\ pc[Gate] = "sums"
    /\ ~WithinLimit(Gate)
    /\ Goto(Gate, "idle")
    /\ EndCheck(Gate)
    /\ UNCHANGED <<status, ledger, progress, outcome, turns, crashes>>

-----------------------------------------------------------------------------
(* A run.  Its clone is there when it resumes, and its first checkpoint is    *)
(* written with the first step: a crash between the two came before it.      *)

Resumes(t) == t \in thread \ Revisions
CarriedUnpersisted(t) == [spent |-> cost[t], persisted |-> 0]
Carried(t) == [spent |-> cost[t], persisted |-> cost[t]]

Track(t) ==
    /\ pc[t] = "starting"
    /\ Goto(t, "thinking")
    /\ tracker' = [tracker EXCEPT ![t] = IF Resumes(t) THEN Carried(t) ELSE NoCost]
    /\ live' = live \cup {t}
    /\ thread' = thread \cup {t}
    /\ work' = [work EXCEPT ![t] = IF Resumes(t) THEN @ ELSE 0]
    /\ UNCHANGED <<status, cost, dated, chat, check, outcome, billed, lost, today,
                   turns, crashes>>

Charge(p, c) == tracker' = [tracker EXCEPT ![p].spent = @ + c]

\* A model response arrives, is billed, and its step is checkpointed.
Respond(t) ==
    /\ pc[t] = "thinking"
    /\ work[t] < Work
    /\ \E u \in Usages, m \in Models :
          /\ Charge(t, Cost(u, m))
          /\ billed' = [billed EXCEPT ![t] = @ + Cost(u, m)]
          /\ today' = today + Cost(u, m)
    /\ work' = [work EXCEPT ![t] = @ + 1]
    /\ Goto(t, "billed")
    /\ UNCHANGED <<status, cost, dated, chat, live, thread, check, outcome, lost,
                   turns, crashes>>

\* _maybe_flush_usage, when the interval has passed.
BeginFlush(t) ==
    /\ pc[t] = "billed"
    /\ Goto(t, "flushing")
    /\ cost' = [cost EXCEPT ![t] = tracker[t].spent]
    /\ UNCHANGED <<status, dated, chat, tracker, live, progress, check, outcome,
                   billed, lost, today, turns, crashes>>

Persisted(p) == tracker' = [tracker EXCEPT ![p].persisted = tracker[p].spent]

EndFlush(t) ==
    /\ pc[t] = "flushing"
    /\ Goto(t, "flushed")
    /\ Persisted(t)
    /\ UNCHANGED <<status, cost, dated, chat, live, progress, check, outcome, billed,
                   lost, today, turns, crashes>>

\* sqlite refuses the write of a flush: it is logged, and the next one waits
\* for the interval.
FlushFails(t) ==
    /\ "dberror" \in Environment
    /\ pc[t] = "billed"
    /\ Goto(t, "flushed")
    /\ UNCHANGED <<status, ledger, progress, check, outcome, turns, crashes>>

\* _enforce_budget, then _enforce_daily_budget.
OverTaskBudgetLax(t) == TaskBudget > 0 /\ tracker[t].spent > TaskBudget
OverTaskBudget(t) == TaskBudget > 0 /\ tracker[t].spent >= TaskBudget

EndRun(t, o) ==
    /\ Goto(t, "ending")
    /\ outcome' = [outcome EXCEPT ![t] = o]

StopAtTaskBudget(t) ==
    /\ pc[t] \in {"billed", "flushed"}
    /\ OverTaskBudget(t)
    /\ EndRun(t, "failed")
    /\ UNCHANGED <<status, ledger, progress, check, turns, crashes>>

CheckDay(t) ==
    /\ pc[t] \in {"billed", "flushed"}
    /\ ~OverTaskBudget(t)
    /\ BeginCheck(t)
    /\ UNCHANGED <<status, ledger, progress, outcome, turns, crashes>>

Continue(t) ==
    /\ pc[t] = "sums"
    /\ WithinLimit(t)
    /\ Goto(t, "thinking")
    /\ EndCheck(t)
    /\ UNCHANGED <<status, ledger, progress, outcome, turns, crashes>>

Park(t) ==
    /\ pc[t] = "sums"
    /\ ~WithinLimit(t)
    /\ EndRun(t, "parked")
    /\ EndCheck(t)
    /\ UNCHANGED <<status, ledger, progress, turns, crashes>>

Finish(t) ==
    /\ pc[t] = "thinking"
    /\ work[t] = Work
    /\ EndRun(t, "completed")
    /\ UNCHANGED <<status, ledger, progress, check, turns, crashes>>

Fail(t) ==
    /\ pc[t] = "thinking"
    /\ EndRun(t, "failed")
    /\ UNCHANGED <<status, ledger, progress, check, turns, crashes>>

\* Every way out persists the usage before it writes the row and untracks.
WriteUsage(t) ==
    /\ pc[t] = "ending"
    /\ Goto(t, "closing")
    /\ cost' = [cost EXCEPT ![t] = tracker[t].spent]
    /\ UNCHANGED <<status, dated, chat, tracker, live, progress, check, outcome,
                   billed, lost, today, turns, crashes>>

RowStatusRaw(o) == o
RowStatusOf(o) == IF o = "parked" THEN "queued" ELSE "ended"
Kept(t) == outcome[t] = "parked" /\ t \notin Revisions

Untrack(p) ==
    /\ live' = live \ {p}
    /\ tracker' = [tracker EXCEPT ![p] = NoCost]

Close(t) ==
    /\ pc[t] = "closing"
    /\ Goto(t, "leaving")
    /\ Persisted(t)
    /\ status' = [status EXCEPT ![t] = RowStatusOf(outcome[t])]
    /\ UNCHANGED <<cost, dated, chat, live, progress, check, outcome, billed, lost,
                   today, turns, crashes>>

\* The last write fails: it is logged, and the row is closed all the same.
UsageWriteFails(t) ==
    /\ "dberror" \in Environment
    /\ pc[t] = "ending"
    /\ Goto(t, "unsaved")
    /\ status' = [status EXCEPT ![t] = RowStatusOf(outcome[t])]
    /\ UNCHANGED <<ledger, progress, check, outcome, turns, crashes>>

\* What a tracker knows and its row does not.
Shortfall(t) ==
    IF tracker[t].spent > cost[t] THEN tracker[t].spent - cost[t] ELSE 0

Leave(t) ==
    /\ pc[t] \in {"leaving", "unsaved"}
    /\ Goto(t, "idle")
    /\ Untrack(t)
    /\ lost' = [lost EXCEPT ![t] = @ + Shortfall(t)]
    /\ thread' = IF Kept(t) THEN thread ELSE thread \ {t}
    /\ work' = [work EXCEPT ![t] = IF Kept(t) THEN @ ELSE 0]
    /\ outcome' = [outcome EXCEPT ![t] = "completed"]
    /\ UNCHANGED <<status, cost, dated, chat, check, billed, today, turns,
                   crashes>>

-----------------------------------------------------------------------------
(* A chat turn.  A second request of its session waits for the lock; that it *)
(* was checked before it waited is left out.                                 *)

Ask(s) ==
    /\ "chat" \in Environment
    /\ turns < MaxTurns
    /\ pc[s] = "idle"
    /\ BeginCheck(s)
    /\ turns' = turns + 1
    /\ UNCHANGED <<status, ledger, progress, outcome, crashes>>

Admit(s) ==
    /\ pc[s] = "sums"
    /\ s \notin live
    /\ WithinLimit(s)
    /\ Goto(s, "thinking")
    /\ EndCheck(s)
    /\ live' = live \cup {s}
    /\ UNCHANGED <<status, cost, dated, chat, tracker, progress, outcome, billed, lost,
                   today, turns, crashes>>

TurnAway(s) ==
    /\ pc[s] = "sums"
    /\ s \notin live
    /\ ~WithinLimit(s)
    /\ Goto(s, "idle")
    /\ EndCheck(s)
    /\ UNCHANGED <<status, ledger, progress, outcome, turns, crashes>>

\* Metered and checked in one go, between two states of the stream.
Reply(s) ==
    /\ pc[s] = "thinking"
    /\ \E u \in Usages, m \in Models :
          /\ Charge(s, Cost(u, m))
          /\ today' = today + Cost(u, m)
    /\ BeginCheck(s)
    /\ UNCHANGED <<status, cost, dated, chat, live, progress, outcome, billed, lost,
                   turns, crashes>>

ContinueTurn(s) ==
    /\ pc[s] = "sums"
    /\ s \in live
    /\ Goto(s, IF WithinLimit(s) THEN "thinking" ELSE "ending")
    /\ EndCheck(s)
    /\ UNCHANGED <<status, ledger, progress, outcome, turns, crashes>>

EndTurn(s) ==
    /\ pc[s] = "thinking"
    /\ Goto(s, "ending")
    /\ UNCHANGED <<status, ledger, progress, check, outcome, turns, crashes>>

RecordSpend(s) ==
    /\ pc[s] = "ending"
    /\ Goto(s, "closing")
    /\ chat' = [chat EXCEPT !["today"] = @ + tracker[s].spent]
    /\ UNCHANGED <<status, cost, dated, tracker, live, progress, check, outcome,
                   billed, lost, today, turns, crashes>>

\* The row of a turn is refused: it is logged, and the reply goes out.
RecordFails(s) ==
    /\ "dberror" \in Environment
    /\ pc[s] = "ending"
    /\ Goto(s, "closing")
    /\ UNCHANGED <<status, ledger, progress, check, outcome, turns, crashes>>

CloseTurn(s) ==
    /\ pc[s] = "closing"
    /\ Goto(s, "idle")
    /\ Untrack(s)
    /\ UNCHANGED <<status, cost, dated, chat, progress, check, outcome, billed, lost,
                   today, turns, crashes>>

-----------------------------------------------------------------------------
(* Midnight UTC and the process.                                             *)

Midnight ==
    /\ "midnight" \in Environment
    /\ \A p \in Checkers : check[p].since = "today"
    /\ dated' = [t \in Tasks |-> "earlier"]
    /\ chat' = [today |-> 0, yesterday |-> chat["today"]]
    /\ check' = [p \in Checkers |->
                    IF pc[p] = "rows" THEN [check[p] EXCEPT !.since = "yesterday"]
                                      ELSE check[p]]
    /\ today' = 0
    /\ UNCHANGED <<status, cost, tracker, live, progress, pc, outcome, billed, lost,
                   turns, crashes>>

\* A statement that was not committed is one the crash came before; the step of
\* the last response may still be missing from the checkpoint.  With a durable
\* checkpointer the boot re-queues what was running.
Uncheckpointed ==
    {t \in Tasks : pc[t] \in {"billed", "flushing", "flushed", "rows", "sums"}}

Crash ==
    /\ "crash" \in Environment
    /\ crashes < MaxCrashes
    /\ crashes' = crashes + 1
    /\ \E redone \in SUBSET Uncheckpointed :
          work' = [t \in Tasks |-> IF t \in redone THEN work[t] - 1 ELSE work[t]]
    /\ lost' = [t \in Tasks |-> lost[t] + Shortfall(t)]
    /\ status' = [t \in Tasks |-> IF status[t] = "running" THEN "queued"
                                                          ELSE status[t]]
    /\ tracker' = [p \in Spenders |-> NoCost]
    /\ live' = {}
    /\ pc' = [p \in Checkers |-> "idle"]
    /\ check' = [p \in Checkers |-> NoCheck]
    /\ outcome' = [t \in Tasks |-> "completed"]
    /\ UNCHANGED <<cost, dated, chat, thread, billed, today, turns>>

-----------------------------------------------------------------------------

RunStep(t) ==
    \/ Track(t) \/ Respond(t) \/ BeginFlush(t) \/ EndFlush(t)
    \/ StopAtTaskBudget(t) \/ CheckDay(t) \/ ReadChat(t) \/ Continue(t) \/ Park(t)
    \/ Finish(t) \/ WriteUsage(t) \/ Close(t) \/ Leave(t)

TurnStep(s) ==
    \/ ReadChat(s) \/ Admit(s) \/ TurnAway(s) \/ ContinueTurn(s) \/ EndTurn(s)
    \/ RecordSpend(s) \/ CloseTurn(s)

GateStep ==
    GateChecks \/ ReadChat(Gate) \/ GateRefuses \/ \E t \in Tasks : GateLaunches(t)

Next ==
    \/ \E t \in Tasks : RunStep(t) \/ Fail(t) \/ FlushFails(t) \/ UsageWriteFails(t)
    \/ \E s \in Sessions : TurnStep(s) \/ Ask(s) \/ Reply(s) \/ RecordFails(s)
    \/ GateStep
    \/ Midnight
    \/ Crash

Spec == Init /\ [][Next]_vars

(* Responses, statements and the dispatcher's poll do not wait forever, a    *)
(* chat turn has a bounded number of steps, and midnight comes.              *)
Fairness ==
    /\ \A t \in Tasks : WF_vars(RunStep(t))
    /\ \A s \in Sessions : WF_vars(TurnStep(s)) /\ SF_vars(EndTurn(s))
    /\ WF_vars(GateStep)
    /\ WF_vars(Midnight)

FairSpec == Spec /\ Fairness

-----------------------------------------------------------------------------
(* Properties *)

(* The row and the tracker of a task together carry what the provider        *)
(* charged for it, in every phase of a run and across parks, flushes, failed *)
(* flushes and resumes: nothing is forgotten and nothing is counted twice,   *)
(* and a run that could make its last write leaves a row that has it all     *)
(* (runner.py _persist_usage, run "carry forward spend").  What a tracker    *)
(* knew alone is gone when a crash or a failed last write ends it.  Not for  *)
(* a revision, whose rerun starts its row over at zero.                      *)
LedgerExact ==
    \A t \in Tasks \ Revisions :
        IF t \in live
        THEN /\ tracker[t].spent = billed[t] - lost[t]
             /\ tracker[t].persisted <= cost[t] /\ cost[t] <= tracker[t].spent
             /\ pc[t] \notin {"flushing", "closing"}
                    => cost[t] = tracker[t].persisted
             /\ pc[t] = "leaving" => cost[t] = tracker[t].spent
        ELSE cost[t] = billed[t] - lost[t]

(* A crash that finds a run waiting for its next response leaves a row that  *)
(* has everything charged before it (runner.py _maybe_flush_usage, "so a     *)
(* hard crash cannot lose the in-flight spend").                             *)
CrashLosesNoSpend ==
    [][\A t \in Tasks \ Revisions : pc[t] = "thinking" /\ pc'[t] = "idle"
                                      => cost'[t] = billed'[t]]_vars

(* Of what its row and trackers ever knew, a task spends no more than its    *)
(* budget and the response that crossed it, however often it is parked and   *)
(* resumed (runner.py _enforce_budget); a crash before the check costs one   *)
(* more response.                                                            *)
Dearest == Greatest({Cost(u, m) : u \in Usages, m \in Models})
TaskBudgetHolds ==
    TaskBudget > 0 => \A t \in Tasks \ Revisions :
        billed[t] - lost[t] < TaskBudget + (crashes + 1) * Dearest

(* A malformed usage report never costs more than its input and output       *)
(* tokens at the dearest rates and multipliers (pricing.py add_usage).       *)
DearestMultiplier ==
    Greatest({Unit} \cup UNION {{CacheMultipliers[k].read, CacheMultipliers[k].write} :
                                   k \in DOMAIN CacheMultipliers})
ResponseIsBounded ==
    [][\A p \in live \cap live' : \E u \in Usages, m \in Models :
           tracker'[p].spent - tracker[p].spent
               <= u.in * FallbackPrice.in * DearestMultiplier
                    + u.out * FallbackPrice.out * Unit]_vars

(* No run goes on to its next model call once the day's charges have reached *)
(* the limit (runner.py _enforce_daily_budget, "no task begins new LLM work  *)
(* past the ceiling").                                                       *)
NoWorkPastCeiling ==
    [][\A t \in Tasks : pc[t] = "sums" /\ pc'[t] = "thinking" => today < Limit]_vars

(* A queued task ends, however often the cap parks it (runner.py, "it will   *)
(* resume automatically after the UTC midnight budget reset").               *)
EveryTaskEnds == \A t \in Tasks : status[t] = "queued" ~> status[t] = "ended"
=============================================================================
