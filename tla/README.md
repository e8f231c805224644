# Verification of sde-deepagent

sde-deepagent is a single-process server that takes software tasks from chat
channels and a web UI, runs a coding agent on a clone of the task's repository
and opens a pull request. This directory holds TLA+ models of its core, the
configurations that check them with TLC on small instances, and theorems
checked by TLAPS for every value of the constants. Source paths below are
relative to `src/sde_deepagent/` in the repository.

- [The system](#the-system)
- [Modules](#modules)
- [How the code maps to actions](#how-the-code-maps-to-actions)
- [Runs](#runs)
- [Fairness](#fairness)
- [Theorems](#theorems)
- [Where the code differs from what it says](#where-the-code-differs-from-what-it-says)
- [Not modelled](#not-modelled)
- [Possible extensions](#possible-extensions)

## The system

One asyncio event loop runs everything, so a step is what a coroutine does
between two awaits; interleaving is at awaits. One aiosqlite connection (one
thread, statements in order of issue, one open transaction) is shared by every
coroutine. State that
survives a crash: the SQLite file, the checkpoint file, the clones under
`workspaces/`, containers and their idle-clock file.

| Component | State it keeps | Operations | Interacts with | What makes it correct |
|---|---|---|---|---|
| Dispatcher (`worker.py`) | `running`: task id to coroutine | pick, budget gate, launch, cancel, stop | rows, runner, daily budget | never more than `max_concurrent_tasks`; one run per task |
| Runner (`runner.py`) | locals of `run()`, mailboxes, flush clocks | resolve, clone, stream, hold, finalize, park, fail, clean up | rows, checkpointer, clones, budget, bus | every run ends its row; a parked run resumes where it stopped |
| Task rows (`db.py`) | `tasks`, `events`, `chat_spend` | insert, update, boot-time reset, sums, retention | everybody | no row left running; statuses change as promised |
| Checkpointer (`checkpointing.py`, langgraph) | one thread of steps per task | append, read, delete | runner | kept while a queued task needs it, gone before a fresh start |
| Clones (`gitops.py`) | a directory per task, its mtime | clone, reuse, prune, push | runner, operator | held work a sweep knows of is never pruned; running work can be |
| Operator API (`server.py`) | none of its own | submit, cancel, steer, approve, reject, chat, event stream | rows, worker, bus | decisions act on the state they were taken for |
| Prices and trackers (`pricing.py`) | `CostTracker` per run or turn, `DailyBudget._live` | meter, track, untrack, sum | runner, chat, dispatcher | nothing forgotten, nothing counted twice, caps hold |
| Chat (`chat.py`) | histories, a lock per session | ask, trim, record spend, reset | budget, rows | turns of a session are serial |
| Event bus and stream (`bus.py`, `server.py`) | subscriber queues | publish, attach, replay, follow | runner, UI | no event skipped or repeated, rollbacks of the connection apart |
| Steering (`runner.py`) | mailbox per task | steer, drain | operator, agent | an accepted message reaches the agent |
| Sandbox (`sandbox.py`) | containers, idle-clock file | ensure, mark used, reap | runner, reaper thread | a container in use is not reaped |
| Review intake (`intake/github_reviews.py`) | floor per pull request | poll, queue revision | GitHub, rows | each comment consumed once, one open revision |
| Telegram, Slack, Linear intakes | offsets, dedup keys | receive, insert once, report | rows, notifiers | one task per message, none forgotten |
| Reference clones (`repo_reader.py`) | a shallow clone per repository, a lock, two stamps | clone, refresh, read, prune | chat tools, retention thread | a call is handed a whole, fresh tree |

The hard behaviours are interleavings at awaits (a row read, an await, then a
write that assumes it), cancellation raised at any await, crashes and restarts
between any two writes, parking and resuming across midnights, sums taken in
several reads, and cleanup by one run of what another depends on. `PROJECT.json`
lists each such hazard at its line, with the properties that cover it.

## Modules

| Module | What it is |
|---|---|
| `TaskLifecycle` | dispatcher, one coroutine per run, rows, checkpoints, clones, operator requests, shutdown, crash, boot |
| `TaskContract` | abstract specification of the rows alone; `TaskLifecycle` refines it |
| `MCTaskLifecycle` | the instances TLC checks |
| `TaskLifecycle_proofs` | types, concurrency cap, single run, no orphaned row, what is pushed of held work |
| `TaskCheckpoint_proofs` | fresh starts, the checkpoints of queued tasks, the clones of held work |
| `Pricing` | pure operators: price table, prefix lookup, fallback, cache tokens, cost of a response |
| `DailyBudget` | trackers, flushes and their failures, ledger rows, budget checks of runs, chat turns and the launch gate, midnight, crash |
| `MCDailyBudget` | the instances TLC checks |
| `DailyBudget_proofs` | types and sums, the ledger is exact, a task keeps to its budget, what a check's three sums cover, a response has a greatest cost |
| `EventFeed` | abstract specification of what a task page is shown; `TaskFeed` refines it |
| `TaskFeed` | `add_event` on the shared connection and the rollbacks that undo it, the bus, the stream's replay and queue, the page, the steering mailbox |
| `MCTaskFeed` | the instance TLC checks |
| `TaskFeed_proofs` | types, order of publication, steering, the refinement of `EventFeed`, nothing slips between replay and queue |
| `Intake` | Telegram, Slack, Linear and other writers over `create_task_if_new` and its rollback on the shared connection |
| `Intake_proofs` | types, one row per key, nothing forgotten; the types of the composition |
| `ReviewIntake` | the poll of a pull request's feedback, its floor and the revisions |
| `ReviewIntake_proofs` | types, the floor loses nothing in silence, no comment is worked on twice |
| `ChatSessions` | turns, locks and histories of a chat session |
| `ChatSessions_proofs` | types, one turn at a time, the stored history is the conversation |
| `MCIntake` | the instance TLC checks of the three modules above, one of them per behaviour |
| `SandboxPool` | `ensure_container` of concurrent tasks, the stamps and the reaper's thread |
| `RefClones` | the reference clone of a repository and the retention sweep |
| `MCPools` | the instance TLC checks of the two modules above |
| `Pools_proofs` | containers: types, the policy a task runs under, reasons for removals, what the reaper condemns; clones: types, whole trees handed out, fresh files |

`DailyBudget` extends `Pricing`. `MCIntake` and `MCPools` put modules that share
no state into one run: the first step chooses which of them runs, the others keep
their initial state, and each property is about one of them. The two state machines are kept apart:
`TaskLifecycle` sees spend only as the Boolean `capped` ("today's spend has
reached the cap", set and reset nondeterministically), and `DailyBudget` sees a
task only as queued, running or ended. A cancel or a shutdown ends a run in
`DailyBudget` through the same statements as a failure does.

## How the code maps to actions

### TaskLifecycle

`pc[t]` is the await at which the coroutine of task `t` is suspended; `"idle"`
means no coroutine. `run[t]` holds the locals that matter: `resumed`, `keep`
(`keep_checkpoint`), `end` (how `run()` leaves for `_run`) and what
`_protected_workspaces` has read so far.

- `DispatchPick`, `DispatchLaunch`, `DispatchRefuse`: `_dispatch_loop`. The row
  is read in the first and launched in the second, with the budget check
  between; the second looks neither at the row nor at `running` again.
- `Start`, `EnterTry`, `Resolve`: the write of `running`, the preamble outside
  the try block, the resume decision (a checkpoint and a clone must exist) and
  the deletion of a thread that cannot be resumed, which skips revisions.
- `ReuseClone`, `BeginClone`, `FinishClone`: `prepare_workspace`; a fresh clone
  makes whatever checkpoint there is `"stale"`.
- `BeginStream`, `AgentCheckpoints`, `AgentReturns`, `Push`: the agent.
- `Hold`, `Complete`, `WriteFailed`, `WriteParked`, `WriteInterrupted`: the ends
  of the try block and the except handlers.
- `Cleanup`, `ReadHeld`, `ReadParked`, `Prune`, `Notified`: the finally block
  and `_run`. The protected set is two reads.
- `Cancel(S)` raises `CancelledError` in the coroutines of `S` at the await each
  is suspended in; `AfterCancel` says where that leads from each place.
- `RaiseError` is an exception inside the try block, up to the emit and the memory
  entry that follow the outcome (449, 692, 696; `held` and `done` here). The database
  has four more: `PreambleFails` (before the try block: the row stays as it is,
  nobody cleans up), `OutcomeEventFails` (449, 692: the row that says
  `awaiting_approval` or `completed` is overwritten with `failed`),
  `HandlerFails` (the write inside an except handler: the row stays running until
  the next boot) and `SweepFails` (the reads of the protected set: no pruning).
  A database error at an endpoint answers 500 and leaves the row as it is, like a
  request that never comes to its write.
- `Ask`, `CancelRow`, `CancelRun`, `Ship`, `ShipFails`, `Approve`, `Reject`: an
  endpoint reads the row in one step and writes it in a later one.
- `Stop`, `Exit`, `Crash`, `Boot`, `ReachCap`, `Midnight`: the process and the
  day. `Boot` re-queues running rows with a durable checkpointer and fails them
  otherwise.

`_protected_workspaces` reads at most 500 rows of each status; a deployment that
holds or parks more than that loses protection for the rest, which the model, with
a handful of tasks, does not show.

### Pricing and DailyBudget

Names are sequences of symbols, money is a natural number. `Cost(u, m)` is
`CostTracker.add_usage`: overrides that are malformed or negative are skipped,
the longest prefix wins, an id without one costs the dearest known rates, and
the cache tokens of a report are clamped to its input tokens.

A run goes `starting` (launched) - `Track` - `thinking` - `Respond` - `billed` -
optionally `BeginFlush`, `EndFlush` - `StopAtTaskBudget` or `CheckDay`,
`ReadChat`, then `Continue` or `Park`. `BeginCheck`, `ReadChat` and
`WithinLimit` are the three reads of `spent_usd()`: task rows, chat rows, live
trackers. A flush is two steps because the row is written before the await and
`persisted_usd` is raised after it. Every way out is `WriteUsage`, `Close`,
`Leave`. Each of the three writes may fail, and `_persist_usage` and
`_record_spend` swallow it: after `FlushFails` the run goes on and its next flush
writes the whole sum, after `UsageWriteFails` the row gets its status and `Leave`
untracks the run all the same, after `RecordFails` the turn's spend is in no row. The same check is the launch gate's (`GateChecks`, `GateLaunches`,
`GateRefuses`) and a chat turn's (`Ask`, `Admit`, `TurnAway`, `Reply`,
`ContinueTurn`, `EndTurn`, `RecordSpend`, `CloseTurn`).

Days are relative: a row is dated `today` or `earlier` and `Midnight` makes
every row an earlier one. `billed`, `lost` and `today` are history variables:
what the provider charged, what a tracker alone knew (`Shortfall`) when a crash or
a failed last write ended it, and what was charged since midnight.

Abstractions to know about: a failed write changes nothing; a statement that a crash catches uncommitted is a
crash before the statement, which the model has too; the last step before a
crash may be missing from the checkpoint; a resumed task finds its clone (when
it does not, it starts over at zero, see below); a chat request that waited for
its session's lock is checked when the lock is free, not before. A run that
fails before it has a tracker changes no amount and is left out. Any queued row
may be launched, and there is always a slot: `TaskLifecycle` has the order and
the slots.

### TaskFeed and Intake: the shared connection

aiosqlite has one thread, which runs statements in the order of their issue, and
the event loop resumes the coroutines in the order in which their statements
finished. Both modules use that: a statement takes effect in the step that issues
it, and its coroutine stands in a line (`place`, `line`; `turn`, `waiting`) until
it is first and takes its next step. Between the two anybody else may issue
statements, so an insert of one coroutine lies in the transaction that another
one commits or rolls back. That order is a premise about aiosqlite and asyncio, not
a property of this code: `add_event` publishes after two awaits and
`create_task_if_new` decides after three, with nothing else to order them.

`TaskFeed`: `Insert`, `Commit`, `Publish` are `add_event` and `EventBus.publish`
(`runner.emit`); an event's id is its position in the trace of the task.
`saved` of the `stored` rows are committed, by their own writer or anybody
(`CommitElsewhere`); `Rollback` is that of `create_task_if_new` (db.py:226-228),
which undoes the others, and their ids go into `gone`: SQLite gives them again. The
writers do not notice, and publish.
`Abandon` is a cancelled emit. `OpenPage` is the history a page loads, `Attach`,
`Replay`, `Serve`, `Disconnect` are `_stream` with `attach` before `list_events`,
`Absorb` is the page's filter by newest id. `Steer` and `SteerAnswered` are the
endpoint, which records the message without publishing it; `CheckMessages` drains
the mailbox; `StartRun` and `EndRun` are the two ends of `run()`, which own it.

`Intake`: `HandleUpdate` and `GetUpdates` are Telegram's loop (the offset moves
past an update before it is handled and confirms it with the next request),
`DeliverSlack` and `AckSlack` an event and its acknowledgement. `PollLinear` is one
answer of Linear's query, which has `first: 25` and no second page: of more than
`PollLimit` labelled issues any `PollLimit`, those that have their task included,
since ingesting changes no label. `IngestNext` takes the next of the answer, and an
exception (`Raise`) drops the rest of it. `HookIssue` is the webhook beside it;
`HandleSession` a delegation, whose webhook Linear repeats until it is answered.
`Selected`, `Commit`, `CommitFails`, `Rollback`, `Raise`, `Created` and `TurnedAway`
are `create_task_if_new` after each await; the select's three awaits (execute,
fetch, close) are one, since nothing is decided between them. A failed commit leaves
its transaction open, for anybody's next commit or rollback, or SQLite has rolled it
back. `Write` is any other coroutine that inserts. `excused` names the keys whose
loss the code admits: a Slack message acknowledged before a crash, a handler that
raised, a failed commit, and a row that was inserted in the window of somebody
else's rollback.

### ReviewIntake and ChatSessions

`StartPoll` chooses the candidates (completed tasks of the pull request among the
200 newest completed ones, newest first); `Check` reads the floor; `ReadEndpoint` is
one GET, which may be answered with an error; `CheckOpen` looks for an open revision
of the candidate, and only of it, among the 500 newest tasks; `CreateRevision`
inserts and moves the floor; `CheckAborts` is an exception (a transport error, a
malformed answer, the database), which drops the rest of that candidate's check.
`OthersCome` is the rest of the deployment: `hidden` counts the rows of this pull
request that newer tasks have pushed out of each of the two lists. A GET has no second
page: `OnFirstPage` are the oldest `PageSize` comments of an endpoint. Time is in
seconds because the comparison of timestamps is, and strict. `missed` names the
comments a floor may pass with nobody having them: a failed request, one beyond the
first page, a post behind the reads of the poll in flight or in the second of the
floor, and what is older than the end of a later task of the pull request when no
floor is kept. `Restart` forgets the floor.

In `ChatSessions` a history is a list object: `BeginTurn` appends to the one the
session has, the agent works on a copy whose length is `base` (`sent`), `CallTools`
and `RunTools` add a call and the results of it, which may be several since the calls
of one message run in parallel, `Answer` stores a new list, `AbortTurn` removes the
last message of the list the turn holds. `line[k]` is the queue of a
lock object, its head the turn that holds it; `EndTurn` takes the head off. `Reset`
drops the lock and the history; a turn in flight keeps both. `SafeTrim` is
`_safe_trim`. The history limit is assumed to hold one turn (`ChatAssumption`): a
longer one has no human message in its window, and `_safe_trim` then returns the
window as it is.

### SandboxPool and RefClones

`Inspect`, `StartBox`, `Probe`, `RemoveBox`, `CreateBox`, `Recheck` are the docker
commands of `ensure_container`, each a step, since tasks run it in worker threads
without a lock; a cancelled task's thread runs on (`CancelJob`). `StartHangs`,
`ProbeHangs` and `CreateHangs` are commands that exceed their timeout:
`TimeoutExpired` leaves `ensure_container` and fails the task, whatever docker did.
The exit code of `docker rm` is read by nobody, so `RemoveBox` may leave the container.
`Touch` is `mark_used`; `ListBoxes`, `LoadStamps`, `SaveStamps`, `Reap` are the
reaper's pass, the two in the middle under `_STATE_LOCK`. `Disturb`, `LoseState` and
`EditPolicy` are docker, the state file and the operator changing things in between.
A task meets at most `TaskTicks <= IdleTTL` ticks: that no task outlasts
`SANDBOX_IDLE_HOURS` is an assumption, met by the defaults (168 hours against an hour
of agent time) and enforced by nothing; with a smaller value the reaper takes a
container in use.

In `RefClones` a call waits for the lock of its clone, finds it fresh
(`ServeFresh`), refreshes or clones it (`BeginReset`, `Refreshed`, `RefreshFails`,
`Cloned`, `CloneFails`, `GitTimesOut`) and reads after it released the lock.
`git reset --hard` rewrites the tree file by file: between `BeginReset` and its end
the tree is `"half"`, for readers that were handed it before, and stays so when the
command fails or is killed half-way. `run_cmd` raises on a timeout, so the clean-up
of a failed clone is skipped there. `ChooseClone`, `DeletePart`, `DeleteRest` are the
sweep, which takes no lock.

## Runs

Bounds are named in the modules: `N`, `Requests`, `MaxFaults` in
`TaskLifecycle`; `Work`, `MaxTurns`, `MaxCrashes` in `DailyBudget`; `MaxEvents`,
`MaxConnects`, `MaxRuns` and `Bounds`, the combinations of them that are explored, in
`TaskFeed`; `MaxUpdates`, `MaxIntakeFaults`, `PollLimit`,
`MaxComments`, `PageSize`, `MaxHidden`, `MaxSecond`, `MaxIncidents`, `MaxAdded`, `MaxResets` in the
intakes; `MaxPolicy`, `MaxBoxFaults`, `MaxGitFaults` in the pools.

| Run | Shows | Bounds and why they are enough |
|---|---|---|
| `operators` | `FreshStartsClean`, `LaunchFindsIdle`, `QueuedKeepsCheckpoint`, `ShipsOnlyHeldWork`, `HeldWorkSurvives` with cancel, approve, reject, shutdown, crash, the cap and database errors | two tasks on two slots, one clone retained, one request in flight, one fault: each hazard is about two actors and one interruption, and a second clone makes the first one a sweep's choice. 5.1 million states, 90 s |
| `contract` | the rows refine `TaskContract`; running rows have a coroutine; one run at a time; every queued task settles | a task and its revision, a third task, every checkpointer, two faults: parked, then crashed, or crashed twice. 0.3 million states |
| `spend` | `LedgerExact`, `TaskBudgetHolds`, `ResponseIsBounded`, `EveryTaskEnds` | one task of three responses (cost 1 or 2 each) under a daily cap of 3 and a task budget of 4, a chat session, a crash, failing writes: the task crosses the day's cap, its own budget, and finishes, in different behaviours. 1.3 million states, 2 to 3 minutes |
| `feed` | `PublishedInOrder`, `NothingSlips`, `SteeringReachesItsRun`, the refinement of `EventFeed`, `PublishedIsShown` | two emitters and two steering messages in three events, a page that connects twice, two runs, a replay of two rows, rollbacks at any time: a full page, an event between attach and replay, a reconnect, an id given twice all happen. The three bounds are not all exhausted in one behaviour; `Bounds` lists the combinations. 1.2 million states, 2 to 3 minutes |
| `intakes` | `OneTaskPerKey`, `NothingForgotten`, `EverySourceIsServed`; `FeedbackIsKept`, `ConsumedOnce`, `FeedbackIsAnswered`; `HistoryIsTheConversation` | two sources of messages at a time, two handlers of one key, three issues on pages of two, one fault; two comments in three seconds on pages of one, two tasks pushed out of a list, one incident; three turns with up to three tool calls and results and one reset, under a limit that trims. 0.4 million states, 3 to 4 minutes |
| `pools` | `UsesOwnPolicy`, `RemovesWithReason`, `ReapsOnlyIdle`, `IdleIsReaped`; `HandsOutWholeTree`, `ServesFreshFiles`, `EveryReadReturns` | two tasks, two policies, one fault; two reads, two faults: each race is one of two |
| `cancel_not_final`, `completed_requeued`, `running_clone_pruned`, `spend_lost`, `flush_missed`, `revisions_overlap` | statements of the documentation that the code does not meet, see below | the smallest instance in which each happens |

Deadlock is checked except where a run ends with every task ended and nothing
to do (`contract`, `feed`, `intakes`, `pools` and the violation runs), because
what arrives is bounded.

Preconditions that a reader should keep in mind: `contract` has one operator
request at a time and neither cancel, graceful shutdown nor a failing database,
because with them the contract does not hold (`cancel_not_final`,
`completed_requeued`; an approval's push races a rejection, and the last decision
wins; a database error after the outcome overwrites it with `failed`, one inside a
handler leaves the row running until the next boot). `operators` has all of those,
with one request in flight; `ShipsOnlyHeldWork` is proved for any number.
`ShipsOnlyHeldWork` says what survives the race: work that needs approval is pushed
while its row is held or already decided, never while the task is queued or runs.
`HeldWorkSurvives` is about held work that every sweep under way has read: a row
that becomes held between the reads of another run's sweep and its deletion can
lose its clone, and an approval is then refused with "workspace no longer on disk"
(server.py:434).
`LedgerExact` is about tasks that resume; a revision starts its row over at
zero, so its earlier attempts vanish from its own budget and the day's total. What
it subtracts, `lost`, is what no code could write: a tracker's knowledge when the
process died, which the documentation denies (`spend_lost`), or when the last
write failed.
`NothingSlips` excepts a page of `list_events` that came back full, beyond which
what was published before the page attached is not shown, and ids that a rollback
gave back.
`EverySourceIsServed` promises a labelled issue its task as long as all labelled
issues fit in one answer of Linear, `FeedbackIsAnswered` a comment its revision when
it is on the first page of its endpoint and its task among the 200 newest completed.
`HistoryIsTheConversation` holds until a reset meets a turn in flight; after that
two turns may run beside each other and the later answer replaces the other's.
`UsesOwnPolicy` excepts tasks of two policies that run at once: the second one
replaces the container of the first. `HandsOutWholeTree` excepts what a killed git
command, a reset that failed half-way or the sweep left, none of which goes through
the clean-up, and speaks of the moment a call gets the tree: while it reads, the
next call's reset may rewrite it.

## Fairness

Weak fairness of each coroutine's steps: the event loop runs what is ready,
`task_timeout_seconds` ends a stream, and git, docker and HTTP calls have
timeouts. In `TaskFeed` and `Intake` that is the first in line taking its next
step, `Replay` and `Serve` of an attached stream, and the loops of the pollers;
Linear's poll takes up every issue of its answer, and Linear repeats a
session's webhook that was not answered, which with two webhook handlers in
the model takes strong fairness. In the pools: the reaper's loop, time, git
commands that end by their timeout, and `asyncio.Lock` waking its waiters in turn,
which is strong fairness of each. `FeedbackIsAnswered` assumes that revisions do
not stay open for ever, as a premise of its own. Browsers, reviewers and the
agent's calls of `check_messages` are never assumed to happen. Weak fairness of the dispatcher: it polls every second and survives
exceptions. Weak fairness of `Midnight`, `Boot` and `Exit`: days pass and the
host restarts what stopped. In `DailyBudget` a chat turn also needs strong
fairness of `EndTurn`: `recursion_limit` bounds its steps, and the model has no
counter for it. Operators, chat users, crashes, failures and flushes are never
assumed to happen. Crashes are bounded: `EveryTaskSettles` and `EveryTaskEnds`
say nothing of a host that crashes forever.

`EveryTaskEnds` is worth a word. A resumed task is dated anew, and its row has
all it ever spent; once that is more than the daily cap the next check parks it
again. It ends all the same, at one response a day, because its checkpoint is
kept. A revision's is not kept: it starts over each day, and does not end if the cap
is less than it needs.

## Theorems

All are about every value of the constants that meets the assumptions named in
the modules. Most say that a bound or a limit is a natural number, or that two sets
are apart. Four say more: tasks and sessions are finitely many
(`FinitenessAssumption`: the sums of `DailyBudget` are over them), a response costs
a natural number (`AmountsAssumption`), a clone is refreshed more often than it is
pruned (`CloneAssumption`: minutes against days in the code's settings), and a
history has room for one turn, `HistoryLimit >= MaxAdded + 2` (`ChatAssumption`).
The code keeps 60 messages and lets an agent take
40 steps, at most 19 rounds of a call and its result between the user's message
and the reply; a turn whose parallel calls add 59 messages or more is outside of it.

Five theorems assume more, and say so in their statement. The runs that check their
properties meet these assumptions; those of `NothingIsLeftOut` and
`OnlyStaleSumsPass` are met by `flush_missed`.

| Assumption | Theorems | Why it is needed |
|---|---|---|
| `"cancel"`, `"dberror" \notin Environment` | `NoOrphan` | a cancel or a database error outside the try block or inside a handler leaves a running row without a coroutine |
| `"midnight"`, `"crash"`, `"dberror" \notin Environment` (`NothingIsHidden`), `Revisions = {}` | `NothingIsLeftOut`, `OnlyStaleSumsPass` | a crash or a failed write loses what was not flushed, a run that crosses midnight is dated the day it began, a revision's rerun starts its row over at zero |
| `CostsAreBounded`, `PricesWellFormed`, some usage and some model | `BudgetIsKept`, `ResponsesAreBounded` | rates and reports are numbers with a greatest one, as every price table that was loaded has; without it "the dearest response" is nothing |

### Task lifecycle

- `TypeCorrect`: `Spec => []TypeOK`, one step per action.
- `CapHolds`, `NoSecondRun`: from `DispatchInv`. The cap alone is not
  inductive: the dispatcher counts `running` two awaits before it launches. The
  invariant says that while it holds a candidate, the candidate is idle and a
  slot is free, which no other step can undo, since only a launch wakes a task.
- `NoOrphan`: every running row has a coroutine that will write it.
- `FreshThread`, `QueuedCheckpointIsKept`: from `CleanInv` and `QueueInv`, which
  say for every control state what the thread may be. The second is an action
  property: no step, and no cancellation at any await, deletes the checkpoint of
  a queued task.
- `ShipsWhatIsHeld`: for any number of concurrent requests, with cancels, shutdowns,
  crashes and database errors. From `HeldInv`: a task that needs approval and whose
  push is pending at an endpoint was held when the request read its row, and from
  there no run, boot or park takes it back among the queued and running ones; other
  requests may only have decided it. A run itself never pushes such a task.
- `HeldClonesAreSpared`: for any number of slots. Held work that every sweep under
  way knows (`HeldSafely`) stays so with every step: a sweep that begins reads the
  held rows first, one that has read them keeps the row in `seen`, and a clone in
  `seen` is not deleted. What it does not cover is the row that becomes held while
  another run's sweep is past that read.

### Spend

- `LedgerIsExact`: from `LedgerInv`: a task is tracked from `Track` to `Leave`;
  while tracked its tracker is what the provider charged, and its row is either
  what the tracker calls persisted, after failed flushes included, or, between the
  write and the await's return, all of it; untracked, the row has everything but
  what `Shortfall` names: a failed last write and a crash take nothing else; a task that may run again
  without a checkpoint has spent nothing, so starting its tracker at zero
  forgets nothing. The sums of a budget check play no part in it.
- `BudgetIsKept`: on top of `LedgerInv`, `BudgetPart`: from a response to the next
  check a task may be one response over its budget, past the check it is under
  it, and each crash may let it have one response more, because the response
  the crash swallowed is not in the row it resumes from. That the check sees all
  of the spend is `LedgerInv`.
- `SpendTypeCorrect`: that the amounts are natural numbers takes a fact that is no
  type: a run that was billed has done some work (`BilledHasWorked`), so a crash can
  take a step back. That the sums are numbers is
  about a fold over a set, a recursive function over its subsets: it has a solution
  (`SumsExist`), whose values are natural (`SumIsNat`) and unfold (`SumUnfolds`). Each
  is shown by the smallest subset that would be a counterexample, the form an
  induction takes here.
- `NothingIsLeftOut`: `SnapshotCovers`, that today's charges are no more than the task
  rows, the chat rows and the live trackers at one moment, from `DayInv`: the day's
  charges are those of the tasks, of recorded turns and of turns in flight, and a
  task that was charged is dated today. A task's charges are covered by its row and
  what its tracker has unpersisted (`LedgerInv`), a turn's by its tracker or the chat
  rows; `SumsCover` adds that up. The sums may exceed the charges, while a flush or
  a recorded turn is counted on both sides.
- `OnlyStaleSumsPass`: from it, an action property that places the fault of
  `flush_missed`, not in what the three sums are of but in reading them at three
  moments: who goes on to a model call past the limit read rows that have grown since.
- `ResponsesAreBounded`: an action property, from lemmas about `Pricing`: the
  longest prefix is one of the table (`LongestMatches`), the fallback is no less
  than any known rate (`FallbackIsDearest`), the clamps split the input tokens into
  three parts that sum to them (`InputIsSplit`), and a product is monotone
  (`ProductGrows`).

### Events and steering

- `PublishesInOrder`: from `TraceInv`. That published ids increase is not
  inductive: the invariant adds that the writers of one stage stand in the line in
  the order of their ids, that a committed writer's id is below every inserted
  one's, and that everything published is below what is in flight, each of them but
  for ids in `gone`; and that what is not saved is newer than what is. The first in
  line therefore publishes the smallest id there is, or one that was given back.
- `SteeringIsHeard`: from `SteerInv`: the mailbox holds messages of the run in
  flight, in the order of their ids and behind all that was heard.
- `FeedRefines`: `Spec => ImplementsFeed`. `EventFeed` has the committed trace, which
  grows and never shrinks, the uncommitted events at its end, which a rollback
  takes, and what each page saw. Every step adds, keeps or takes back events, or
  shows one page a block of events newer than its newest, or none of these; the
  block is what `Absorb` computes, by a lemma about the rows it appends.
- `NothingIsMissed`: `Spec => []NothingSlips`, from `SlipInv`. While a page is
  attached its queue is the increasing list of what was published since; whatever
  the page is owed and is not newer than its newest event is on the page, and so
  is whatever is in flight there, because a replay shows rows before they are
  published; and once live, what it is owed and does not have waits in the queue
  above `last_id`. A replay keeps it because a page of rows that is not full
  reaches the end of the table, a served event because the head of the queue is
  the oldest that waits. An id in `gone` is excused, because the page may have shown
  its first bearer and `_stream` drops the second.
- `FeedTypeCorrect`: that ids in the log, the queues and the pages are ids of
  stored events needs the invariants above; the bounds are the guards'.

### Intakes

- `OneTask`, `NothingIsForgotten`, `IntakeTypeCorrect`: from
  `IntakeInv`, which says of a handler at each of its awaits whether the row of its
  key exists, is excused, or belongs to a handler that stands before it in the line.
- `FloorLosesNothing`, `NothingTwice`, `ReviewTypeCorrect`: from `ReviewInv`: what a
  poll in flight has got is newer than the floor it started from, every newer
  comment of the endpoints it read is among that or out of its sight, and what a
  revision has lies behind the floor; out of sight are the failed requests, the
  second pages and the posts behind the reads. The lengths of pages and lists are
  parameters, and an aborted check moves nothing.

- `OneTurnAtATime`, `HistoryFollows`, `ChatTypesHold`: from `ChatInv`. A turn in
  flight stands in one line, once, and whoever runs is the head of its line
  (`LinesInOrder`); unless a reset met a turn, only the session's lock has a line
  (`OneLine`), so one turn runs at a time. A turn that has not begun has said nothing,
  and what an agent adds is no user's message (`NothingSaidYet`). While a turn runs,
  its message ends the stored history, what is before it follows the conversation
  before it, and the agent's copy starts with both (`TurnInProgress`): an answer
  appends to the copy what it appends to the conversation, and an abort, which removes
  the last message of the list whatever it is, removes the turn's own. `Follows` says
  that a history is an end of the conversation, from a user's message on, and is cut
  no more than the limit demands; that `_safe_trim` keeps it is `FollowsTrim`, for
  which the window has to contain the turn's own message, hence `ChatAssumption`.
- `IntakesTypeCorrect`: the composition's `TypeOK`: each part takes its own steps or
  stutters (`EachPartHasItsSteps`), so the theorems of the parts hold of the whole.

### Pools

- `PoolsTypeCorrect`: the composition's `TypeOK`, in the same way.
- `PoolTypeCorrect`; `RunsUnderOwnPolicy` from `PolicyInv`: from the inspection that
  found a container of its policy on, a task relies on it (`ReliesOnOwn`), and two
  tasks of different policies each know of the other, whichever began first
  (`Mingled`). The container may be exchanged at each of the docker commands
  between; every exchange is by a task, whose policy is the own one or a known
  other.
- `RemovalsHaveReasons`, from `RemoverInv`: a remover whose view is still current has
  something against the container. What keeps it is a lemma of its own
  (`EveryoneIsTold`): a step leaves the container alone, removes it, or makes every
  view outdated.
- `ReapsIdleOnly`, from `StampsHonest` and `UsersRecent`: no stamp, recorded or in
  the hand of a pass, is older than the last mark, and who uses the container
  marked it at most one tick ago.
- `CloneTypeCorrect`; `WholeTreesAreHandedOut` from `OneHolder` (the lock is held by
  the call that runs git, and by one only) and `KnownBroken`: whenever no call holds
  the lock, a tree that is not whole was left by a killed command, a failed reset or
  the sweep. A reset in flight breaks the tree only behind the lock, where no call
  is handed it.
- `FreshFilesAreServed`, from `StampAccounts`: a fetch stamp is no younger than the
  files, or no younger than the last failed refresh.

### Only model-checked

Every invariant and every action property of the passing runs is stated by a
theorem, and the inductive invariants were model-checked before they were proved.
TLC alone checks:

- the refinement of `TaskContract` (`ImplementsContract`): it holds of one request at
  a time with neither cancel, shutdown nor database error, which a theorem would have
  to assume, so that it would say little of the server;
- the liveness properties (`EveryTaskSettles`, `EveryTaskEnds`, `PublishedIsShown`,
  `EverySourceIsServed`, `FeedbackIsAnswered`, `IdleIsReaped`, `EveryReadReturns`):
  they hold under fairness, which is out of the prover's reach;
- the violations.

## Where the code differs from what it says

Each is a run whose property TLC finds violated; `PROJECT.json` quotes the line.

1. A cancel can be undone. The dispatcher launches a row it read before the
   cancel was written (`CancelledStaysCancelled`).
2. A shutdown can re-queue a completed task, which then runs again
   (`CompletedStaysCompleted`).
3. The clone of a running task can be pruned: pruning goes by creation time and
   protects held and parked tasks, not running ones. A task that streams longer
   than younger ones take to fail and clean up loses its clone in its first run
   (`RunningKeepsClone`).
4. A crash loses spend: usage is flushed at most every `USAGE_FLUSH_SECONDS`, and
   what was billed since is in memory (`CrashLosesNoSpend`).
5. A budget check can miss another run's flush, which falls after its first read
   and before its last, and let a model call start past the cap
   (`NoWorkPastCeiling`).
6. Two revisions of a pull request can be open at once: a completed revision is a
   candidate beside its parent, and each looks for open revisions of its own only
   (`OneRevisionAtATime`).

More that the models have, each a step or an exception named above, and no property
claims otherwise:

- An exception after the outcome was written (the event, 449 and 692, or the memory
  entry) enters the last handler, which overwrites `awaiting_approval` or `completed`
  with `failed`; one inside a handler or before the try block leaves the row as it
  is, running until the next boot (runner.py:487-498, 748-755).
- `_resume` and `prepare_workspace` look at the clone at two moments, and a row that
  becomes held during another run's sweep is not in its protected set: with two
  slots either may lose the clone (runner.py:540, 782).
- The last of two decisions on held work wins; the earlier one may have pushed
  (server.py:463).
- A failed write of usage is swallowed and the run untracked all the same: its spend
  since the last flush leaves the day's total without a crash (runner.py:373, 760,
  chat.py:412).
- `create_task_if_new` rolls back the connection everybody shares (db.py:226-228): an
  event of another coroutine is undone and yet published, SQLite gives its id again,
  and `_stream` (server.py:526) drops the second bearer as already sent, although it
  attaches "BEFORE replay so no event slips through" (server.py:512). A row
  another source inserted at that moment goes too, though its creator is told that
  it exists.
- Linear's poll asks for `first: 25` and the issues it ingested keep their places
  (linear.py:38, 52): with more than 25 labelled ones the rest depend on the webhook.
- The review poll reads one page of each endpoint, oldest first, the 200 newest
  completed tasks and the 500 newest tasks (github_reviews.py:65, 71, 94): a comment
  on a second page is passed by the floor, an old pull request is polled no more, and
  an open revision beyond the limit is overlooked.
- Readers of a reference clone hold no lock while a refresh resets its tree, and a
  reset that failed half-way is served for one TTL (repo_reader.py:86-93, 117-149).
- A docker command that exceeds its timeout fails the task instead of being retried
  or recreated (sandbox.py:94, 121, 141), and the reaper removes what it condemned
  although a task may have come back in between (sandbox.py:220).
- A revision that a crash interrupted starts over on the thread it left, since the
  branch that clears a stale checkpoint is skipped for tasks with a parent
  (runner.py:535-542).
- What a run spends after midnight is counted for the day it began (db.py:323).

## Not modelled

- Agent, prompts, models, tools, memory and web fetch: they assemble text and
  call services; the model has their effect on rows, checkpoints and the push.
- Configuration, authentication, the entry point and the web UI: single
  synchronous steps, or no state the server depends on.
- Git, docker and SQLite themselves: external; the models state what the code
  relies on (`map` marks those definitions external).
- Cents and floating point: `cost_usd` is rounded to six digits in the row and
  not in the tracker; the model's money is exact.
- Reports to users (chat messages, comments, Linear activities): best effort, and
  no state depends on them. Redaction of secrets in them is string replacement.
- Retention of old tasks and events, listings and searches: deletes and reads that
  no other part acts on. Webhook signatures and parsing of messages: pure checks
  before the first await.
- Cancelling a parked task leaves its checkpoint in the file for good: a leak of
  storage with no consequence for a run, so no property speaks of it.

## Possible extensions

Theorems: how far a day's spend can pass the cap (one check per spender,
`flush_missed` apart). Models: the retention loop beside the runner, and
turns of `ChatSessions` composed with the trackers of `DailyBudget` after a reset.
