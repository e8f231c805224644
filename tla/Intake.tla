------------------------------- MODULE Intake -------------------------------
(***************************************************************************)
(* Messages that become tasks: Telegram's poller, Slack's concurrent event  *)
(* handlers, Linear's poller and webhook, and other writers, all on one      *)
(* database connection.  create_task_if_new selects by the message's key,   *)
(* inserts under a unique index and rolls the connection back on a conflict. *)
(*                                                                         *)
(* One thread runs the statements in the order of issue and the loop         *)
(* resumes the coroutines in that order: a statement takes effect when it   *)
(* is issued and its coroutine stands in line until it resumes.             *)
(***************************************************************************)
EXTENDS Naturals, FiniteSets

CONSTANTS SlackMsgs, SlackHandlers,  \* Slack messages, and events handled at once
          Issues, Sessions,          \* Linear issues, and agent sessions on them
          IssueHooks, SessionHooks,  \* webhook requests handled at once for each
          Writers,                   \* other coroutines, one row each
          Poller, LinearPoll,        \* the coroutines of the other intakes
          Deployments,               \* which of the sources run together
          PollLimit,                 \* issues one query of Linear returns
          MaxUpdates,                \* bound: Telegram messages
          MaxIntakeFaults            \* bound: crashes and failed statements

ASSUME IntakeAssumption ==
    MaxUpdates \in Nat /\ MaxIntakeFaults \in Nat /\ PollLimit \in Nat

LinearHooks == IssueHooks \cup SessionHooks
Updates == 1..MaxUpdates
Keys == Updates \cup SlackMsgs \cup Issues \cup Sessions \cup Writers
Handlers == {Poller, LinearPoll} \cup LinearHooks \cup SlackHandlers \cup Writers

VARIABLES
    enabled,   \* the sources this deployment has configured
    pending,   \* rows of each key inserted and not committed
    durable,   \* rows of each key committed
    at,        \* the statement each coroutine waits for
    key,       \* the key it works on; its own identity when idle
    outcome,   \* what its statement gave it
    turn,      \* its place in the line to resume, 0 outside it
    waiting,   \* length of the line
    sent,      \* Telegram messages sent to the bot
    tgAcked,   \* updates Telegram will not deliver again
    tgSeen,    \* the poller's offset - 1
    tgTo,      \* the last update of the batch in hand
    slackAcked,\* messages whose envelope was acknowledged
    labelled,  \* issues that match the poll and the webhook, for good
    batch,     \* issues of the poll's page it has not come to yet
    delegated, \* agent sessions opened on an issue
    answered,  \* agent sessions whose webhook was answered with 200
    returned,  \* ghost: keys whose creator was told its row exists
    turnedAway,\* ghost: keys some delivery of which was called a duplicate
    excused,   \* ghost: keys lost to a crash after the acknowledgement, to a
               \* statement that failed or to another coroutine's rollback
    intakeFaults

table == <<pending, durable>>
coroutines == <<at, key, outcome, turn, waiting>>
telegram == <<sent, tgAcked, tgSeen, tgTo>>
linear == <<labelled, batch, delegated, answered>>
sources == <<telegram, slackAcked, linear>>
verdicts == <<returned, turnedAway, excused>>
intakeVars == <<enabled, table, coroutines, sources, verdicts, intakeFaults>>

IntakeTypeOK ==
    /\ enabled \in Deployments
    /\ pending \in [Keys -> 0..1] /\ durable \in [Keys -> 0..1]
    /\ at \in [Handlers -> {"idle", "ack", "select", "insert", "commit", "rollback"}]
    /\ key \in [Handlers -> Keys \cup Handlers]
    /\ outcome \in [Handlers -> {"ok", "found", "conflict", "error"}]
    /\ turn \in [Handlers -> Nat] /\ waiting \in Nat
    /\ sent \in 0..MaxUpdates /\ tgAcked \in 0..MaxUpdates
    /\ tgSeen \in 0..MaxUpdates /\ tgTo \in 0..MaxUpdates
    /\ slackAcked \subseteq SlackMsgs /\ labelled \subseteq Issues /\ batch \subseteq Issues
    /\ delegated \subseteq Sessions /\ answered \subseteq Sessions
    /\ returned \subseteq Keys /\ turnedAway \subseteq Keys /\ excused \subseteq Keys
    /\ intakeFaults \in 0..MaxIntakeFaults

IntakeInit ==
    /\ enabled \in Deployments
    /\ pending = [k \in Keys |-> 0] /\ durable = [k \in Keys |-> 0]
    /\ at = [h \in Handlers |-> "idle"] /\ key = [h \in Handlers |-> h]
    /\ outcome = [h \in Handlers |-> "ok"]
    /\ turn = [h \in Handlers |-> 0] /\ waiting = 0
    /\ sent = 0 /\ tgAcked = 0 /\ tgSeen = 0 /\ tgTo = 0
    /\ slackAcked = {} /\ labelled = {} /\ batch = {} /\ delegated = {} /\ answered = {}
    /\ returned = {} /\ turnedAway = {} /\ excused = {} /\ intakeFaults = 0

IntakeFault == intakeFaults < MaxIntakeFaults /\ intakeFaults' = intakeFaults + 1

-----------------------------------------------------------------------------
(* Statements on the shared connection *)

MayResume(h) == turn[h] = 1

\* The line after h left it.
WithoutTurn(h) == [g \in Handlers |->
                     IF g = h THEN 0
                     ELSE IF turn[h] > 0 /\ turn[g] > turn[h] THEN turn[g] - 1
                     ELSE turn[g]]

\* h issues a statement, its first or the one after the one it resumed from.
Issue(h, s, k, o) ==
    /\ at' = [at EXCEPT ![h] = s] /\ key' = [key EXCEPT ![h] = k]
    /\ outcome' = [outcome EXCEPT ![h] = o]
    /\ waiting' = IF turn[h] > 0 THEN waiting ELSE waiting + 1
    /\ turn' = [WithoutTurn(h) EXCEPT
                  ![h] = IF turn[h] > 0 THEN waiting ELSE waiting + 1]

Finish(h) ==
    /\ at' = [at EXCEPT ![h] = "idle"] /\ key' = [key EXCEPT ![h] = h]
    /\ outcome' = [outcome EXCEPT ![h] = "ok"]
    /\ waiting' = IF turn[h] > 0 THEN waiting - 1 ELSE waiting
    /\ turn' = WithoutTurn(h)

Exists(k) == pending[k] + durable[k] > 0

\* Mutant: there is no unique index.
ConflictsNever(k) == FALSE

\* idx_tasks_dedup: the insert fails on a row of the key, committed or not.
Conflicts(k) == Exists(k)

\* The query, its row and the closing of its cursor are one statement here.
Select(h, k) ==
    \/ /\ Issue(h, "select", k, IF Exists(k) THEN "found" ELSE "ok")
       /\ UNCHANGED intakeFaults
    \/ Issue(h, "select", k, "error") /\ IntakeFault

Insert(h, k) ==
    IF Conflicts(k)
    THEN Issue(h, "insert", k, "conflict") /\ UNCHANGED <<table, intakeFaults>>
    ELSE \/ /\ Issue(h, "insert", k, "ok")
            /\ pending' = [pending EXCEPT ![k] = @ + 1]
            /\ UNCHANGED <<durable, intakeFaults>>
         \/ Issue(h, "insert", k, "error") /\ IntakeFault /\ UNCHANGED table

-----------------------------------------------------------------------------
(* create_task_if_new, from its first statement to its return *)

\* The webhook of a session is answered when its handler has returned.
AnswerSession(k) == answered' = answered \cup ({k} \cap Sessions)

TurnAway(k) == turnedAway' = turnedAway \cup {k} /\ AnswerSession(k)
               /\ UNCHANGED <<returned, excused>>

Selected(h) ==
    /\ MayResume(h) /\ at[h] = "select" /\ outcome[h] # "error"
    /\ IF outcome[h] = "found"
       THEN Finish(h) /\ TurnAway(key[h]) /\ UNCHANGED <<table, intakeFaults>>
       ELSE Insert(h, key[h]) /\ UNCHANGED <<verdicts, answered>>
    /\ UNCHANGED <<telegram, slackAcked, labelled, batch, delegated>>

Duplicate(h) == outcome[h] = "conflict"

\* The rollback undoes whatever any coroutine has not committed.
Rollback(h) ==
    /\ MayResume(h) /\ at[h] = "insert" /\ Duplicate(h)
    /\ Issue(h, "rollback", key[h], "ok")
    /\ pending' = [k \in Keys |-> 0]
    /\ excused' = excused \cup {k \in Keys : pending[k] > 0}
    /\ UNCHANGED <<durable, returned, turnedAway, sources, intakeFaults>>

Commit(h) ==
    /\ MayResume(h) /\ at[h] = "insert" /\ outcome[h] = "ok"
    /\ Issue(h, "commit", key[h], "ok")
    /\ durable' = [k \in Keys |-> durable[k] + pending[k]]
    /\ pending' = [k \in Keys |-> 0]
    /\ UNCHANGED <<sources, verdicts, intakeFaults>>

\* A commit that fails leaves its transaction open, for the next commit or
\* rollback of any coroutine, or SQLite has rolled it back.
CommitFails(h) ==
    /\ MayResume(h) /\ at[h] = "insert" /\ outcome[h] = "ok" /\ IntakeFault
    /\ Issue(h, "commit", key[h], "error")
    /\ \/ UNCHANGED table /\ excused' = excused \cup {key[h]}
       \/ /\ pending' = [k \in Keys |-> 0] /\ UNCHANGED durable
          /\ excused' = excused \cup {key[h]} \cup {k \in Keys : pending[k] > 0}
    /\ UNCHANGED <<sources, returned, turnedAway>>

\* Mutant: one failed statement ends the polling for good.
AfterErrorStops(h) == at' = [at EXCEPT ![h] = "ack"] /\ UNCHANGED <<key, outcome>>
                      /\ turn' = WithoutTurn(h) /\ waiting' = waiting - 1

\* The caller's loop logs the error and goes on with the next poll or event.
AfterError(h) == Finish(h)

\* Any other error of the statement leaves the handler: what a poller holds
\* of its batch is dropped with it, and fetched again.
Raise(h) ==
    /\ MayResume(h) /\ at[h] \in {"select", "insert", "commit"}
    /\ outcome[h] = "error" /\ ~Duplicate(h) /\ AfterError(h)
    /\ batch' = IF h = LinearPoll THEN {} ELSE batch
    /\ tgTo' = IF h = Poller THEN tgSeen ELSE tgTo
    /\ excused' = excused \cup {key[h]}
    /\ UNCHANGED <<table, sent, tgAcked, tgSeen, slackAcked, labelled, delegated,
                   answered, returned, turnedAway, intakeFaults>>

\* When the reply to the sender fails, the rest of the poller's batch is dropped
\* and fetched again.
Created(h) ==
    /\ MayResume(h) /\ at[h] = "commit" /\ outcome[h] = "ok" /\ Finish(h)
    /\ returned' = returned \cup {key[h]}
    /\ tgTo' = tgTo \/ (h = Poller /\ tgTo' = tgSeen)
    /\ AnswerSession(key[h])
    /\ UNCHANGED <<table, sent, tgAcked, tgSeen, slackAcked, labelled, batch,
                   delegated, turnedAway, excused, intakeFaults>>

TurnedAway(h) ==
    /\ MayResume(h) /\ at[h] = "rollback" /\ Finish(h) /\ TurnAway(key[h])
    /\ UNCHANGED <<table, telegram, slackAcked, labelled, batch, delegated,
                   intakeFaults>>

-----------------------------------------------------------------------------
(* Telegram: one poller, whose offset lives in memory *)

Greater(a, b) == IF a > b THEN a ELSE b
NextUpdate == Greater(tgSeen, tgAcked) + 1

SendUpdate ==
    /\ sent < MaxUpdates /\ sent' = sent + 1
    /\ UNCHANGED <<table, coroutines, tgAcked, tgSeen, tgTo, slackAcked, linear,
                   verdicts, intakeFaults>>

\* Mutant: the poller does not wait for the handler of the last update.
BatchDoneEarly == NextUpdate > tgTo

BatchDone == at[Poller] = "idle" /\ NextUpdate > tgTo

\* getUpdates confirms what precedes its offset and returns the rest.
GetUpdates ==
    /\ BatchDone
    /\ tgAcked' = Greater(tgAcked, tgSeen) /\ tgTo' = sent
    /\ UNCHANGED <<table, coroutines, sent, tgSeen, slackAcked, linear,
                   verdicts, intakeFaults>>

\* The offset passes the update before its handler runs.
HandleUpdate ==
    /\ at[Poller] = "idle" /\ NextUpdate <= tgTo
    /\ tgSeen' = NextUpdate /\ Select(Poller, NextUpdate)
    /\ UNCHANGED <<table, sent, tgAcked, tgTo, slackAcked, linear, verdicts>>

-----------------------------------------------------------------------------
(* Slack: each event in a handler of its own, acknowledged first *)

DeliverSlack(h, m) ==
    /\ at[h] = "idle" /\ m \notin slackAcked
    /\ at' = [at EXCEPT ![h] = "ack"] /\ key' = [key EXCEPT ![h] = m]
    /\ UNCHANGED <<table, outcome, turn, waiting, sources, verdicts, intakeFaults>>

AckSlack(h) ==
    /\ h \in SlackHandlers /\ at[h] = "ack"
    /\ slackAcked' = slackAcked \cup {key[h]} /\ Select(h, key[h])
    /\ UNCHANGED <<table, telegram, linear, verdicts>>

AckFails(h) ==
    /\ h \in SlackHandlers /\ at[h] = "ack" /\ Finish(h)
    /\ UNCHANGED <<table, sources, verdicts, intakeFaults>>

-----------------------------------------------------------------------------
(* Linear: a poll that repeats what still matches, and a webhook beside it   *)

LabelIssue(i) ==
    /\ i \notin labelled /\ labelled' = labelled \cup {i}
    /\ UNCHANGED <<table, coroutines, telegram, slackAcked, batch, delegated,
                   answered, verdicts, intakeFaults>>

\* What one query can return: an issue matches whether it has its task or not,
\* and which of too many are on the page is up to Linear.
Pages == {p \in SUBSET labelled :
            \/ p = labelled /\ Cardinality(p) <= PollLimit
            \/ Cardinality(p) = PollLimit}

PollLinear ==
    /\ at[LinearPoll] = "idle" /\ batch = {} /\ batch' \in Pages
    /\ UNCHANGED <<table, coroutines, telegram, slackAcked, labelled, delegated,
                   answered, verdicts, intakeFaults>>

IngestNext(i) ==
    /\ at[LinearPoll] = "idle" /\ i \in batch /\ batch' = batch \ {i}
    /\ Select(LinearPoll, i)
    /\ UNCHANGED <<table, telegram, slackAcked, labelled, delegated, answered,
                   verdicts>>

HookIssue(h, i) ==
    /\ at[h] = "idle" /\ i \in labelled
    /\ Select(h, i)
    /\ UNCHANGED <<table, sources, verdicts>>

DelegateIssue(s) ==
    /\ s \notin delegated /\ delegated' = delegated \cup {s}
    /\ UNCHANGED <<table, coroutines, telegram, slackAcked, labelled, batch,
                   answered, verdicts, intakeFaults>>

\* Linear repeats a session's event until the webhook is answered; the session is
\* a key of its own, whatever became of its issue.
HandleSession(h, s) ==
    /\ at[h] = "idle" /\ s \in delegated \ answered
    /\ Select(h, s)
    /\ UNCHANGED <<table, sources, verdicts>>

-----------------------------------------------------------------------------
(* Other coroutines that insert or update a row: the API, the runner *)

Write(w) ==
    /\ w \in Writers /\ at[w] = "idle" /\ w \notin returned /\ ~Exists(w)
    /\ Insert(w, w)
    /\ UNCHANGED <<sources, verdicts>>

-----------------------------------------------------------------------------
\* The process dies: what was not committed is gone, the offset starts over.
CrashIntake ==
    /\ IntakeFault
    /\ pending' = [k \in Keys |-> 0] /\ UNCHANGED durable
    /\ at' = [h \in Handlers |-> "idle"] /\ key' = [h \in Handlers |-> h]
    /\ outcome' = [h \in Handlers |-> "ok"]
    /\ turn' = [h \in Handlers |-> 0] /\ waiting' = 0
    /\ tgSeen' = 0 /\ tgTo' = 0 /\ batch' = {}
    /\ excused' = excused \cup {m \in slackAcked : durable[m] = 0}
    /\ turnedAway' = {k \in turnedAway : durable[k] > 0}
    /\ UNCHANGED <<sent, tgAcked, slackAcked, labelled, delegated, answered,
                   returned>>

Resume(h) == \/ Selected(h) \/ Rollback(h) \/ Commit(h) \/ CommitFails(h)
             \/ Raise(h) \/ Created(h) \/ TurnedAway(h)

TelegramStep == SendUpdate \/ GetUpdates \/ HandleUpdate

SlackStep == \E h \in SlackHandlers : \/ AckSlack(h) \/ AckFails(h)
                                     \/ \E m \in SlackMsgs : DeliverSlack(h, m)

LinearStep == PollLinear \/ \E i \in Issues : LabelIssue(i) \/ IngestNext(i)

LinearHookStep == \E h \in IssueHooks, i \in Issues : HookIssue(h, i)

SessionStep == \E s \in Sessions : \/ DelegateIssue(s)
                                  \/ \E h \in SessionHooks : HandleSession(h, s)

IntakeNext ==
    /\ \/ \E h \in Handlers : Resume(h)
       \/ "telegram" \in enabled /\ TelegramStep
       \/ "slack" \in enabled /\ SlackStep
       \/ "linear" \in enabled /\ (LinearStep \/ LinearHookStep)
       \/ "sessions" \in enabled /\ SessionStep
       \/ "writers" \in enabled /\ \E w \in Writers : Write(w)
       \/ CrashIntake
    /\ UNCHANGED enabled

IntakeSpec == IntakeInit /\ [][IntakeNext]_intakeVars

-----------------------------------------------------------------------------
(* Properties *)

(* One task per key, through redelivery after a restart, concurrent handlers  *)
(* of one Slack event and the race of Linear's poll with its webhook: "the    *)
(* race can't slip a duplicate through".                                    *)
OneTaskPerKey == \A k \in Keys : pending[k] + durable[k] <= 1

Safe(k) == durable[k] = 1 \/ k \in excused

(* A source that will not deliver a message again has its task, or a handler  *)
(* is on it; what is told to its creator is durable, and so is the row of a   *)
(* delivery that was turned away.  Excused are Slack messages acknowledged    *)
(* before a crash, handlers a statement of which failed, and rows inserted in *)
(* the window of another coroutine's rollback.                              *)
NothingForgotten ==
    /\ \A k \in Updates : k <= tgAcked => Safe(k)
    /\ \A m \in slackAcked :
          Safe(m) \/ \E h \in SlackHandlers : key[h] = m /\ at[h] # "ack"
    /\ \A k \in answered \cup returned : Safe(k)
    /\ \A k \in turnedAway : Safe(k) \/ pending[k] = 1

(* A labelled issue comes to stay among the tasks whatever was lost on the    *)
(* way, since the poll repeats it, as long as all that match fit in one page: *)
(* the query has no second page, and issues that have their tasks keep their  *)
(* places.  A delegated issue and a Telegram message get their tasks unless   *)
(* excused.                                                                  *)
EverySourceIsServed ==
    /\ \A i \in Issues :
          i \in labelled ~> Cardinality(labelled) > PollLimit \/ []Exists(i)
    /\ \A s \in Sessions : s \in delegated ~> Safe(s)
    /\ \A k \in Updates : k <= sent ~> Safe(k)
=============================================================================
