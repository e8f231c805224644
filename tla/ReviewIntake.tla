---------------------------- MODULE ReviewIntake ----------------------------
(***************************************************************************)
(* The review loop of one pull request: a poll reads three endpoints one    *)
(* after the other, turns what is newer than a floor into a revision and     *)
(* moves the floor.  Reviewers post, revisions run, operators revise and the  *)
(* other tasks of the deployment go on between any two of its awaits.  Each   *)
(* endpoint is asked for one page, the database for its newest rows.         *)
(***************************************************************************)
EXTENDS Naturals, Sequences, FiniteSets

CONSTANTS MaxComments,      \* bound: comments reviewers post
          PageSize,         \* trusted comments the page of one GET has room for
          MaxSecond,        \* bound: the clock, in the seconds of a timestamp
          MaxIncidents,     \* bound: failed requests, failed inserts, restarts,
                            \* floods of other tasks and an operator's revisions
          MaxHidden         \* bound: rows that newer tasks push out of a list

ASSUME ReviewAssumption ==
    /\ MaxComments \in Nat /\ MaxSecond \in Nat \ {0}
    /\ MaxIncidents \in Nat /\ PageSize \in Nat /\ MaxHidden \in Nat

Endpoints == 1..3   \* reviews, inline comments, conversation: in this order

VARIABLES
    second,     \* the clock; the original task finished in second 1
    posted,     \* trusted comments in the order they were posted
    rows,       \* the pull request's tasks in the order they were created
    hidden,     \* how many of them, the oldest, list_tasks does not return: of
                \* 200 completed tasks, and of 500 tasks
    floor,      \* _seen_since of the pull request, 0 when absent
    poll,       \* the poll in flight
    missed,     \* ghost: comments that a floor passed, each for a stated reason
    again,      \* ghost: comments a restart may have answered once more
    incidents

reviewVars == <<second, posted, rows, hidden, floor, poll, missed, again, incidents>>

Comments == DOMAIN posted
Statuses == {"open", "completed", "failed"}
NoPoll == [phase |-> "idle", left |-> {}, cand |-> 0, floor |-> 0,
           read |-> 0, got |-> {}, behind |-> {}]

ReviewTypeOK ==
    /\ second \in 1..MaxSecond
    /\ posted \in Seq([ts : 1..MaxSecond, on : Endpoints])
    /\ rows \in Seq([parent : Nat, status : Statuses, finished : 0..MaxSecond,
                     covers : SUBSET Comments])
    /\ hidden \in [{"completed", "any"} -> 0..MaxHidden]
    /\ floor \in 0..MaxSecond
    /\ poll \in [phase : {"idle", "reading", "checking", "creating"},
                 left : SUBSET DOMAIN rows, cand : {0} \cup DOMAIN rows,
                 floor : 0..MaxSecond, read : 0..3,
                 got : SUBSET Comments, behind : SUBSET Comments]
    /\ missed \subseteq Comments /\ again \subseteq Comments
    /\ incidents \in 0..MaxIncidents

ReviewInit ==
    /\ second = 1 /\ posted = << >>
    /\ rows = << [parent |-> 0, status |-> "completed", finished |-> 1, covers |-> {}] >>
    /\ hidden = [l \in {"completed", "any"} |-> 0]
    /\ floor = 0 /\ poll = NoPoll
    /\ missed = {} /\ again = {} /\ incidents = 0

Incident == incidents < MaxIncidents /\ incidents' = incidents + 1

\* The floor a check of task t starts from.
FloorOf(t) == IF floor # 0 THEN floor ELSE rows[t].finished

CoveredBy(c) == {r \in DOMAIN rows : c \in rows[r].covers}
Uncovered == {c \in Comments : CoveredBy(c) = {}}
OpenRevisions == {r \in DOMAIN rows : r > 1 /\ rows[r].status = "open"}

-----------------------------------------------------------------------------
(* The pull request and its revisions *)

ReviewTick ==
    /\ second < MaxSecond /\ second' = second + 1
    /\ UNCHANGED <<posted, rows, hidden, floor, poll, missed, again, incidents>>

\* Behind a poll is a comment of an endpoint the poll has read.  In the second
\* of the floor, or of the original's end, it does not count as newer.
PostComment(e) ==
    LET c == Len(posted) + 1
    IN  /\ Len(posted) < MaxComments
        /\ posted' = Append(posted, [ts |-> second, on |-> e])
        /\ poll' = IF poll.phase # "idle" /\ poll.read >= e
                   THEN [poll EXCEPT !.behind = @ \cup {c}] ELSE poll
        /\ missed' = IF second = FloorOf(1) THEN missed \cup {c} ELSE missed
        /\ UNCHANGED <<second, rows, hidden, floor, again, incidents>>

NewRow(p, got) == [parent |-> p, status |-> "open", finished |-> 0, covers |-> got]

\* POST /api/tasks with a parent, from the UI.
Revise(p) ==
    /\ Incident /\ rows[p].status = "completed"
    /\ rows' = Append(rows, NewRow(p, {}))
    /\ UNCHANGED <<second, posted, hidden, floor, poll, missed, again>>

\* A revision ends with the pull request, and is a candidate of later polls,
\* or without.
RevisionEnds(r, s) ==
    /\ r \in OpenRevisions /\ s \in {"completed", "failed"}
    /\ rows' = [rows EXCEPT ![r].status = s, ![r].finished = second]
    /\ UNCHANGED <<second, posted, hidden, floor, poll, missed, again, incidents>>

\* Newer tasks of other pull requests come or complete: a list loses the oldest
\* rows of this one.
OthersCome(l, n) ==
    /\ Incident /\ n > hidden[l] /\ hidden' = [hidden EXCEPT ![l] = n]
    /\ UNCHANGED <<second, posted, rows, floor, poll, missed, again>>

-----------------------------------------------------------------------------
(* The poll *)

\* list_tasks(status="completed", limit=200): newest first.
Candidates == {r \in DOMAIN rows : rows[r].status = "completed" /\ r > hidden["completed"]}

Greatest(S) == CHOOSE x \in S : \A y \in S : y <= x

\* The check of the next candidate, newest first (list_tasks), reads the floor
\* before its first request.
Check(left, f) ==
    IF left = {} THEN NoPoll
    ELSE LET t == Greatest(left)
         IN  [phase |-> "reading", left |-> left \ {t}, cand |-> t,
              floor |-> IF f # 0 THEN f ELSE rows[t].finished,
              read |-> 0, got |-> {}, behind |-> {}]

StartPoll ==
    /\ poll.phase = "idle" /\ poll' = Check(Candidates, floor)
    /\ UNCHANGED <<second, posted, rows, hidden, floor, missed, again, incidents>>

\* Mutant: a comment of the floor's own second counts as new.
NewerOrSame(ts, f) == ts >= f

Newer(ts, f) == ts > f

\* After the last answer the check ends when there is nothing new.
AfterGet(p) ==
    IF p.read < 3 THEN p
    ELSE IF p.got = {} THEN Check(p.left, floor)
    ELSE [p EXCEPT !.phase = "checking"]

\* GitHub lists an endpoint's comments from the oldest on, and the poll asks for
\* no second page.
OnFirstPage(c) == Cardinality({d \in 1..(c - 1) : posted[d].on = posted[c].on}) < PageSize

\* One GET; one that is answered with an error status is skipped, and what it
\* would have shown is behind.
ReadEndpoint ==
    LET e == poll.read + 1
        new == {c \in Comments : /\ posted[c].on = e /\ OnFirstPage(c)
                                 /\ Newer(posted[c].ts, poll.floor)}
    IN  /\ poll.phase = "reading"
        /\ \/ /\ poll' = AfterGet([poll EXCEPT !.read = e, !.got = @ \cup new])
              /\ UNCHANGED incidents
           \/ /\ Incident
              /\ poll' = AfterGet([poll EXCEPT !.read = e, !.behind = @ \cup new])
        /\ UNCHANGED <<second, posted, rows, hidden, floor, missed, again>>

Latest(cs) == Greatest({posted[c].ts : c \in cs})

\* Mutant: a revision that has ended counts as well.
RevisionEverExisted(p) == \E r \in DOMAIN rows : rows[r].parent = p

\* list_tasks(limit=500), of any status.
OpenRevisionExists(p) ==
    \E r \in DOMAIN rows :
        rows[r].parent = p /\ rows[r].status = "open" /\ r > hidden["any"]

\* Mutant: the floor moves although the feedback waits for the open revision.
FloorWhileRevisingMoves == Latest(poll.got)

FloorWhileRevising == floor

\* Feedback on a candidate with an open revision is left for a later poll.
CheckOpen ==
    /\ poll.phase = "checking"
    /\ IF OpenRevisionExists(poll.cand)
       THEN floor' = FloorWhileRevising /\ poll' = Check(poll.left, floor')
       ELSE poll' = [poll EXCEPT !.phase = "creating"] /\ UNCHANGED floor
    /\ UNCHANGED <<second, posted, rows, hidden, missed, again, incidents>>

FloorAfter(got) == Latest(got)

\* The first floor also passes what is older than the candidate's own end.
CreateRevision ==
    /\ poll.phase = "creating"
    /\ rows' = Append(rows, NewRow(poll.cand, poll.got))
    /\ floor' = FloorAfter(poll.got) /\ poll' = Check(poll.left, floor')
    /\ missed' = missed \cup {c \in Uncovered \ poll.got :
                                 /\ posted[c].ts <= Latest(poll.got)
                                 /\ \/ c \in poll.behind \/ ~OnFirstPage(c)
                                    \/ floor = 0 /\ posted[c].ts <= poll.floor}
    /\ UNCHANGED <<second, posted, hidden, again, incidents>>

\* A request, the list or the insert raises: the rest of the check is dropped,
\* and the next candidate's goes on.
CheckAborts ==
    /\ poll.phase # "idle" /\ Incident
    /\ poll' = Check(poll.left, floor)
    /\ UNCHANGED <<second, posted, rows, hidden, floor, missed, again>>

PollStep == StartPoll \/ ReadEndpoint \/ CheckOpen \/ CreateRevision

\* The floor is kept in memory only.
Restart ==
    /\ Incident
    /\ floor' = 0 /\ poll' = NoPoll
    /\ again' = again \cup (Comments \ Uncovered)
    /\ UNCHANGED <<second, posted, rows, hidden, missed>>

ReviewNext ==
    \/ ReviewTick
    \/ \E e \in Endpoints : PostComment(e)
    \/ \E p \in DOMAIN rows : Revise(p)
    \/ \E r \in DOMAIN rows, s \in Statuses : RevisionEnds(r, s)
    \/ \E l \in {"completed", "any"}, n \in 1..MaxHidden : OthersCome(l, n)
    \/ PollStep \/ CheckAborts \/ Restart

ReviewSpec == ReviewInit /\ [][ReviewNext]_reviewVars

-----------------------------------------------------------------------------
(* Properties *)

(* The floor passes a comment only when a revision has it, or for what the code *)
(* cannot see: a request that failed, a place behind the first page of its     *)
(* endpoint, a post behind the reads of the poll that moves the floor or in    *)
(* the floor's own second, the end of a later task of the pull request when no *)
(* floor was kept.  Feedback that merely waits for an open revision is never   *)
(* lost, nor is feedback whose check was aborted.                            *)
FeedbackIsKept ==
    \A c \in Comments : posted[c].ts <= floor => c \notin Uncovered \/ c \in missed

(* No comment is worked on twice, although every completed revision of the    *)
(* pull request is a candidate beside its parent, unless a restart has lost   *)
(* the floor.                                                                *)
ConsumedOnce ==
    \A c \in Comments :
        c \in again \/ \A r, q \in CoveredBy(c) : r = q

(* Feedback on the first page of its endpoint becomes a revision, when         *)
(* revisions do not stay open for ever and the original task stays among the   *)
(* 200 newest completed ones: beyond either limit it may never do so.          *)
FeedbackIsAnswered ==
    []<>(OpenRevisions = {}) /\ [](1 \in Candidates) =>
        \A c \in 1..MaxComments :
            c \in Comments ~> (c \notin Uncovered \/ c \in missed \/ ~OnFirstPage(c))

(* github_reviews.py:112-114, "already revising": while a revision of the     *)
(* pull request is open no other is queued for feedback on it.  Violated: a   *)
(* completed revision is a candidate of its own beside its parent, and each   *)
(* looks for open revisions of itself only.                                  *)
OneRevisionAtATime ==
    [][floor' # floor /\ floor' # 0 => OpenRevisions = {}]_reviewVars
=============================================================================
