------------------------------ MODULE TaskFeed ------------------------------
(***************************************************************************)
(* The trace of one task: coroutines that emit events through the shared   *)
(* database connection, the event bus, the pages that replay and follow    *)
(* the trace, and the operator's steering messages with the mailbox of the *)
(* running task.                                                           *)
(*                                                                         *)
(* One thread runs the statements of the connection in the order of their  *)
(* issue and the event loop resumes the coroutines in that order, so a     *)
(* statement takes effect when it is issued and the coroutines stand in    *)
(* line to resume.  Event ids are the positions in the trace of the task.  *)
(* The connection has one transaction for all of them: any commit keeps,   *)
(* and the rollback of create_task_if_new undoes, whatever it holds.       *)
(***************************************************************************)
EXTENDS Naturals, Sequences

CONSTANTS Emitters,     \* coroutines that emit: tool callbacks, endpoints
          Steers,       \* steering messages, one request each
          Pages,        \* open task pages: history, then replay and follow
          ReplayLimit,  \* rows list_events returns at most
          MaxEvents, MaxConnects, MaxRuns,   \* bounds of the environment
          Bounds        \* those a behaviour may have, combined

ASSUME FeedAssumption ==
    /\ ReplayLimit \in Nat \ {0} /\ MaxEvents \in Nat
    /\ MaxConnects \in Nat /\ MaxRuns \in Nat
    /\ Bounds \subseteq [events : 0..MaxEvents, connects : 0..MaxConnects,
                         runs : 0..MaxRuns]
    /\ Emitters \cap Steers = {}

VARIABLES
    stored,     \* rows of the events table, as the connection sees it
    saved,      \* rows of it that are committed
    gone,       \* ids a rollback gave back, to be given again
    bound,      \* how much the environment does in this behaviour
    issued,     \* inserts so far
    stage,      \* where each writer's add_event stands
    own,        \* the id add_event gave each writer
    place,      \* each writer's place in the line to resume, 0 outside it
    line,       \* length of the line
    log,        \* ids in the order of EventBus.publish
    conn,       \* where each page's _stream stands
    after,      \* the page's ?after= parameter
    last,       \* _stream's last_id
    queue,      \* the page's asyncio.Queue
    shown,      \* ids the page showed, in order
    joined,     \* length of `log' when the page attached
    full,       \* a replay or the history came back with ReplayLimit rows
    connects,
    run,        \* 0 when no run of the task is in flight, else its number
    runs,
    box,        \* the mailbox of the run in flight
    accepted,   \* the run each steering message was accepted by, 0 if none
    heard       \* what check_messages returned: message and run, in order

table == <<stored, saved, gone, bound, issued>>
trace == <<table, stage, own, place, line, log>>
streams == <<conn, after, last, queue, shown, joined, full, connects>>
steering == <<run, runs, box, accepted, heard>>
vars == <<trace, streams, steering>>

Writers == Emitters \cup Steers

TypeOK ==
    /\ bound \in Bounds
    /\ issued \in 0..MaxEvents /\ stored \in 0..issued /\ saved \in 0..stored
    /\ gone \subseteq 1..MaxEvents
    /\ stage \in [Writers -> {"idle", "inserted", "committed"}]
    /\ own \in [Writers -> 0..MaxEvents]
    /\ place \in [Writers -> Nat] /\ line \in Nat
    /\ log \in Seq(1..MaxEvents)
    /\ conn \in [Pages -> {"closed", "off", "attached", "live"}]
    /\ after \in [Pages -> 0..MaxEvents]
    /\ last \in [Pages -> 0..MaxEvents]
    /\ queue \in [Pages -> Seq(1..MaxEvents)]
    /\ shown \in [Pages -> Seq(1..MaxEvents)]
    /\ joined \in [Pages -> Nat]
    /\ full \in [Pages -> BOOLEAN]
    /\ connects \in [Pages -> 0..MaxConnects]
    /\ run \in 0..MaxRuns /\ runs \in 0..MaxRuns
    /\ box \in Seq(Steers)
    /\ accepted \in [Steers -> 0..MaxRuns]
    /\ heard \in Seq([msg : Steers, by : 1..MaxRuns])

Init ==
    /\ stored = 0 /\ saved = 0 /\ gone = {} /\ issued = 0
    /\ bound \in Bounds
    /\ line = 0 /\ log = <<>>
    /\ stage = [w \in Writers |-> "idle"]
    /\ own = [w \in Writers |-> 0]
    /\ place = [w \in Writers |-> 0]
    /\ conn = [s \in Pages |-> "closed"]
    /\ after = [s \in Pages |-> 0]
    /\ last = [s \in Pages |-> 0]
    /\ queue = [s \in Pages |-> <<>>]
    /\ shown = [s \in Pages |-> <<>>]
    /\ joined = [s \in Pages |-> 0]
    /\ full = [s \in Pages |-> FALSE]
    /\ connects = [s \in Pages |-> 0]
    /\ run = 0 /\ runs = 0 /\ box = <<>>
    /\ accepted = [m \in Steers |-> 0]
    /\ heard = <<>>

-----------------------------------------------------------------------------
(* add_event on the shared connection *)

\* The writer whose statement was issued first is the next to resume.
Resumes(w) == place[w] = 1

\* The line after w left it.
Without(w) == [v \in Writers |->
                 IF v = w THEN 0
                 ELSE IF place[v] > place[w] THEN place[v] - 1 ELSE place[v]]

Insert(w) ==
    /\ stage[w] = "idle" /\ issued < bound.events
    /\ issued' = issued + 1 /\ stored' = stored + 1
    /\ own' = [own EXCEPT ![w] = stored + 1]
    /\ stage' = [stage EXCEPT ![w] = "inserted"]
    /\ place' = [place EXCEPT ![w] = line + 1]
    /\ line' = line + 1
    /\ UNCHANGED <<saved, gone, bound, log>>

\* Mutant: the id is asked for after the commit, not after the insert.
CommitReadsId(w) ==
    /\ Resumes(w) /\ stage[w] = "inserted"
    /\ stage' = [stage EXCEPT ![w] = "committed"]
    /\ own' = [own EXCEPT ![w] = stored]
    /\ place' = [Without(w) EXCEPT ![w] = line]
    /\ saved' = stored
    /\ UNCHANGED <<stored, gone, bound, issued, line, log, streams, steering>>

\* A commit keeps the rows of every writer, those still in line included.
Commit(w) ==
    /\ Resumes(w) /\ stage[w] = "inserted"
    /\ stage' = [stage EXCEPT ![w] = "committed"]
    /\ place' = [Without(w) EXCEPT ![w] = line]
    /\ saved' = stored
    /\ UNCHANGED <<stored, gone, bound, issued, own, line, log, streams,
                   steering>>

\* Another coroutine of the server commits its own statement.
CommitElsewhere ==
    /\ saved < stored
    /\ saved' = stored
    /\ UNCHANGED <<stored, gone, bound, issued, stage, own, place, line, log,
                   streams, steering>>

\* create_task_if_new met a row of the same origin.  The writers in line are
\* told nothing: they publish ids the table will give again.
Rollback ==
    /\ saved < stored
    /\ stored' = saved
    /\ gone' = gone \cup (saved + 1)..stored
    /\ UNCHANGED <<saved, bound, issued, stage, own, place, line, log, streams,
                   steering>>

LeaveLine(w) ==
    /\ stage' = [stage EXCEPT ![w] = "idle"]
    /\ place' = Without(w)
    /\ line' = line - 1

Emit(w) == w \in Emitters /\ Insert(w) /\ UNCHANGED <<streams, steering>>

\* Mutant: the queue is registered after the replay.
AttachedLate(s) == conn[s] = "live"

Attached(s) == conn[s] \in {"attached", "live"}

Publish(w) ==
    /\ w \in Emitters /\ Resumes(w) /\ stage[w] = "committed"
    /\ LeaveLine(w)
    /\ log' = Append(log, own[w])
    /\ queue' = [s \in Pages |->
                    IF Attached(s) THEN Append(queue[s], own[w]) ELSE queue[s]]
    /\ UNCHANGED <<table, own, conn, after, last, shown, joined,
                   full, connects, steering>>

\* A cancelled run's emit ends at its await; what it issued stays in the table.
Abandon(w) ==
    /\ w \in Emitters /\ stage[w] # "idle"
    /\ LeaveLine(w)
    /\ UNCHANGED <<table, own, log, streams, steering>>

-----------------------------------------------------------------------------
(* The task page and the streams *)

Newest(s) == IF s = <<>> THEN 0 ELSE s[Len(s)]
Lesser(a, b) == IF a < b THEN a ELSE b
Rows(from, to) == [k \in 1..(to - from + 1) |-> from + k - 1]

\* Mutant: every page is taken to be a full one.
LastListedFull(id) == id + ReplayLimit

\* list_events: the rows after an id, oldest first, at most ReplayLimit.
LastListed(id) == IF stored <= id THEN id ELSE Lesser(stored, id + ReplayLimit)

\* Mutant: the page shows whatever the stream sends.
AbsorbAll(seq, id, to) == seq \o Rows(id + 1, to)

\* The page shows what is newer than everything it showed.
Absorb(seq, id, to) ==
    IF to <= Newest(seq) THEN seq
    ELSE seq \o Rows(IF id < Newest(seq) THEN Newest(seq) + 1 ELSE id + 1, to)

OpenPage(s) ==
    /\ conn[s] = "closed"
    /\ conn' = [conn EXCEPT ![s] = "off"]
    /\ shown' = [shown EXCEPT ![s] = Absorb(@, 0, LastListed(0))]
    /\ after' = [after EXCEPT ![s] = LastListed(0)]
    /\ full' = [full EXCEPT ![s] = (LastListed(0) = ReplayLimit)]
    /\ UNCHANGED <<last, queue, joined, connects, trace, steering>>

Attach(s) ==
    /\ conn[s] = "off" /\ connects[s] < bound.connects
    /\ connects' = [connects EXCEPT ![s] = @ + 1]
    /\ conn' = [conn EXCEPT ![s] = "attached"]
    /\ last' = [last EXCEPT ![s] = after[s]]
    /\ queue' = [queue EXCEPT ![s] = <<>>]
    /\ joined' = [joined EXCEPT ![s] = Len(log)]
    /\ UNCHANGED <<after, shown, full, trace, steering>>

Replay(s) ==
    /\ conn[s] = "attached"
    /\ conn' = [conn EXCEPT ![s] = "live"]
    /\ last' = [last EXCEPT ![s] = LastListed(@)]
    /\ shown' = [shown EXCEPT ![s] = Absorb(@, last[s], LastListed(last[s]))]
    /\ full' = [full EXCEPT ![s] = @ \/ LastListed(last[s])
                                          = last[s] + ReplayLimit]
    /\ UNCHANGED <<after, queue, joined, connects, trace, steering>>

\* Mutant: the stream skips the event after the replay.
SendsLater(s, id) == id > last[s] + 1

Sends(s, id) == id > last[s]

Serve(s) ==
    /\ conn[s] = "live" /\ queue[s] # <<>>
    /\ queue' = [queue EXCEPT ![s] = Tail(@)]
    /\ LET id == Head(queue[s])
       IN  IF Sends(s, id)
           THEN /\ last' = [last EXCEPT ![s] = id]
                /\ shown' = [shown EXCEPT ![s] = Absorb(@, id - 1, id)]
           ELSE UNCHANGED <<last, shown>>
    /\ UNCHANGED <<conn, after, joined, full, connects, trace, steering>>

Disconnect(s) ==
    /\ Attached(s)
    /\ conn' = [conn EXCEPT ![s] = "off"]
    /\ queue' = [queue EXCEPT ![s] = <<>>]
    /\ UNCHANGED <<after, last, shown, joined, full, connects, trace, steering>>

-----------------------------------------------------------------------------
(* Steering: the mailbox lives from the start of a run to its finally block *)

StartRun ==
    /\ run = 0 /\ runs < bound.runs
    /\ run' = runs + 1 /\ runs' = runs + 1 /\ box' = <<>>
    /\ UNCHANGED <<accepted, heard, trace, streams>>

\* The endpoint queues the message, then records it without publishing it.
Steer(m) ==
    /\ m \in Steers /\ accepted[m] = 0 /\ run # 0
    /\ box' = Append(box, m)
    /\ accepted' = [accepted EXCEPT ![m] = run]
    /\ Insert(m)
    /\ UNCHANGED <<run, runs, heard, streams>>

SteerAnswered(m) ==
    /\ m \in Steers /\ Resumes(m) /\ stage[m] = "committed"
    /\ LeaveLine(m)
    /\ UNCHANGED <<table, own, log, streams, steering>>

\* Mutant: the mailbox is not emptied.
CheckMessagesKeeps ==
    /\ run # 0 /\ box # <<>>
    /\ heard' = heard \o [k \in 1..Len(box) |-> [msg |-> box[k], by |-> run]]
    /\ UNCHANGED <<run, runs, box, accepted, trace, streams>>

\* check_messages returns the whole mailbox and leaves an empty one.
CheckMessages ==
    /\ run # 0 /\ box # <<>>
    /\ heard' = heard \o [k \in 1..Len(box) |-> [msg |-> box[k], by |-> run]]
    /\ box' = <<>>
    /\ UNCHANGED <<run, runs, accepted, trace, streams>>

EndRun ==
    /\ run # 0
    /\ run' = 0 /\ box' = <<>>
    /\ UNCHANGED <<runs, accepted, heard, trace, streams>>

-----------------------------------------------------------------------------
Next ==
    \/ \E w \in Writers : Emit(w) \/ Commit(w) \/ Publish(w) \/ Abandon(w)
    \/ \E s \in Pages : OpenPage(s) \/ Attach(s) \/ Replay(s) \/ Serve(s)
                                \/ Disconnect(s)
    \/ \E m \in Steers : Steer(m) \/ SteerAnswered(m)
    \/ CommitElsewhere \/ Rollback
    \/ StartRun \/ CheckMessages \/ EndRun

Spec == Init /\ [][Next]_vars

\* The event loop resumes a coroutine whose statement ran, and a stream whose
\* queue is not empty.  No fairness for operators, browsers or the agent.
FairSpec ==
    /\ Spec
    /\ \A w \in Writers : WF_vars(Commit(w) \/ Publish(w) \/ SteerAnswered(w))
    /\ \A s \in Pages : WF_vars(Replay(s)) /\ WF_vars(Serve(s))

-----------------------------------------------------------------------------
(* Properties *)

Elements(seq) == {seq[k] : k \in DOMAIN seq}

(* Concurrent emits publish in the order of their ids, although each awaits *)
(* an insert and a commit on the shared connection before it publishes.     *)
(* _stream's filter on last_id loses events when this fails: it can fail    *)
(* only among ids that a rollback of the connection gave back.              *)
PublishedInOrder ==
    \A i, j \in DOMAIN log :
        i < j => log[i] < log[j] \/ {log[i], log[j]} \subseteq gone

(* "attach BEFORE replay so no event slips through": an event published     *)
(* since the page attached was shown or will be served, and so was every    *)
(* earlier one unless a page of list_events came back full.  An id that was *)
(* given back is excused: the page may have shown its first bearer.         *)
NothingSlips ==
    \A s \in Pages : conn[s] = "live" =>
        \A k \in DOMAIN log :
            (k > joined[s] \/ ~full[s]) /\ log[k] \notin gone =>
                \/ log[k] \in Elements(shown[s])
                \/ log[k] \in Elements(queue[s]) /\ Sends(s, log[k])

(* A task page implements EventFeed: only events that are or were in the    *)
(* trace, no id twice, in order, over rollbacks, disconnects and reconnects *)
(* that replay the same rows.                                               *)
Feed == INSTANCE EventFeed WITH
    Readers <- Pages, kept <- saved, seen <- shown
ImplementsFeed == Feed!Spec

(* An accepted steering message is heard once, in the order of acceptance,  *)
(* by the run that accepted it, and waits in the mailbox while that run is  *)
(* in flight.  It is dropped only with the run.  The ids of the recorded    *)
(* messages give the order, unless a rollback gave them back.               *)
SteeringReachesItsRun ==
    /\ \A k \in DOMAIN heard : accepted[heard[k].msg] = heard[k].by
    /\ \A j, k \in DOMAIN heard :
           j < k => /\ heard[j].msg # heard[k].msg
                    /\ \/ own[heard[j].msg] < own[heard[k].msg]
                       \/ {own[heard[j].msg], own[heard[k].msg]} \subseteq gone
    /\ \A m \in Steers : run # 0 /\ accepted[m] = run =>
           m \in Elements(box) \/ \E k \in DOMAIN heard : heard[k].msg = m

(* What is published while a page stays connected is shown there, the ids   *)
(* that a rollback gave back excepted.                                      *)
PublishedIsShown ==
    \A s \in Pages : \A id \in 1..MaxEvents :
        (Attached(s) /\ id \in Elements(queue[s]))
            ~> (~Attached(s) \/ id \in Elements(shown[s]) \/ id \in gone)

=============================================================================
