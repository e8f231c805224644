------------------------ MODULE ReviewIntake_proofs ------------------------
(***************************************************************************)
(* Theorems about ReviewIntake: for any number of comments, revisions,      *)
(* seconds and incidents the floor passes no comment in silence, and no     *)
(* comment is answered twice while the process lives.                       *)
(***************************************************************************)
EXTENDS ReviewIntake, FiniteSetTheorems, SequenceTheorems, TLAPS

PollType == [phase : {"idle", "reading", "checking", "creating"},
             left : SUBSET DOMAIN rows, cand : {0} \cup DOMAIN rows,
             floor : 0..MaxSecond, read : 0..3,
             got : SUBSET Comments, behind : SUBSET Comments]

\* Nothing is dated after now.
ClockRuns == floor <= second /\ \A c \in Comments : posted[c].ts <= second

\* What poll p knows of the endpoints it has read: every newer comment is among
\* what it got, was out of its sight or has no place on the first page.
PollSees(p) ==
    /\ \A c \in p.got : posted[c].ts > p.floor
    /\ \A c \in Comments : posted[c].on <= p.read /\ posted[c].ts > p.floor
                              => c \in p.got \cup p.behind \/ ~OnFirstPage(c)

\* A poll in flight started from the floor of the pull request, if it had one.
PollInv(p, f) ==
    p.phase # "idle" =>
        /\ f = 0 \/ p.floor = f
        /\ PollSees(p)
        /\ p.phase = "reading" => p.read < 3
        /\ p.phase # "reading" => p.read = 3 /\ p.got # {}

\* What a revision has lies behind the floor.
CoveredIsPassed ==
    \A c \in Comments \ Uncovered : c \in again \/ (floor # 0 /\ posted[c].ts <= floor)

ReviewInv ==
    /\ ReviewTypeOK /\ ClockRuns /\ PollInv(poll, floor)
    /\ CoveredIsPassed /\ FeedbackIsKept /\ ConsumedOnce

-----------------------------------------------------------------------------
(* What the operators return *)

(* Greatest(S) is the maximum of a finite non-empty set of numbers.           *)
LEMMA GreatestIsMax ==
    ASSUME NEW n \in Nat, NEW S \in SUBSET (0..n), S # {}
    PROVE  Greatest(S) \in S /\ \A y \in S : y <= Greatest(S)
  <1> DEFINE Above(x) == {y \in S : y > x}
             Aboves == {Above(x) : x \in S}
             R == StrictSubsetOrdering(S)
  <1>1. IsFiniteSet(S)
    <2>1. IsFiniteSet(0..n)
      BY FS_Interval
    <2> QED BY <2>1, FS_Subset
  <1>2. Aboves \subseteq FiniteSubsetsOf(S)
    BY <1>1, FS_Subset DEF FiniteSubsetsOf
  <1>3. PICK T \in Aboves : \A U \in Aboves : ~(<<U, T>> \in R)
    <2>1. Aboves # {} OBVIOUS
    <2>2. IsWellFoundedOn(R, FiniteSubsetsOf(S))
      BY FS_StrictSubsetOrderingWellFounded
    <2> HIDE DEF Aboves, R
    <2> QED BY <1>2, <2>1, <2>2, WFMin
  <1>4. PICK x \in S : T = Above(x) OBVIOUS
  <1>5. ASSUME NEW y \in S, y > x PROVE FALSE
    <2>1. Above(y) \subseteq Above(x) /\ y \in Above(x) /\ y \notin Above(y)
      <3>1. x \in Nat /\ y \in Nat /\ \A z \in S : z \in Nat
        OBVIOUS
      <3>2. \A z \in S : z > y => z > x
        BY <1>5, <3>1
      <3>3. y > x /\ ~(y > y)
        BY <1>5, <3>1
      <3> QED BY <3>2, <3>3
    <2>2. <<Above(y), Above(x)>> \in R
      BY <2>1, <1>4 DEF StrictSubsetOrdering
    <2> QED BY <2>2, <1>3, <1>4
  <1>6. \A y \in S : y <= x
    BY <1>5
  <1> QED BY <1>6 DEF Greatest

(* A comment has a date and an endpoint, a row what a task has.              *)
LEMMA Typed ==
    ASSUME ReviewTypeOK
    PROVE  /\ Comments = 1..Len(posted) /\ Len(posted) \in Nat
           /\ \A c \in Comments : posted[c].ts \in 1..MaxSecond /\ posted[c].on \in 1..3
           /\ DOMAIN rows = 1..Len(rows) /\ Len(rows) \in Nat
           /\ \A r \in DOMAIN rows : /\ rows[r].finished \in 0..MaxSecond
                                    /\ rows[r].covers \subseteq Comments
  <1> DEFINE CommentType == [ts : 1..MaxSecond, on : Endpoints]
             RowType == [parent : Nat, status : Statuses, finished : 0..MaxSecond,
                         covers : SUBSET Comments]
  <1>1. posted \in Seq(CommentType) /\ rows \in Seq(RowType)
    BY DEF ReviewTypeOK
  <1>2. /\ Comments = 1..Len(posted) /\ Len(posted) \in Nat
        /\ \A c \in 1..Len(posted) : posted[c] \in CommentType
    <2> HIDE DEF CommentType
    <2> QED BY <1>1, LenProperties, ElementOfSeq DEF Comments
  <1>3. /\ DOMAIN rows = 1..Len(rows) /\ Len(rows) \in Nat
        /\ \A r \in 1..Len(rows) : rows[r] \in RowType
    <2> HIDE DEF RowType
    <2> QED BY <1>1, LenProperties, ElementOfSeq
  <1> QED BY <1>2, <1>3 DEF Endpoints

(* The newest of some comments bounds them all and is the date of one.        *)
LEMMA LatestIsMax ==
    ASSUME ReviewTypeOK, NEW cs \in SUBSET Comments, cs # {}
    PROVE  /\ Latest(cs) \in 1..MaxSecond
           /\ \A c \in cs : posted[c].ts <= Latest(cs)
           /\ \E c \in cs : posted[c].ts = Latest(cs)
  <1> DEFINE S == {posted[c].ts : c \in cs}
  <1>1. \A c \in Comments : posted[c].ts \in 1..MaxSecond
    BY Typed
  <1>2. S \subseteq 0..MaxSecond /\ S # {} /\ S \subseteq 1..MaxSecond
    BY <1>1, ReviewAssumption
  <1>3. Greatest(S) \in S /\ \A y \in S : y <= Greatest(S)
    <2> HIDE DEF S
    <2> QED BY <1>2, GreatestIsMax, ReviewAssumption
  <1> QED BY <1>2, <1>3 DEF Latest

(* The next check starts from the floor and has read nothing.                 *)
LEMMA CheckStarts ==
    ASSUME ReviewTypeOK, NEW left \in SUBSET DOMAIN rows, NEW f \in 0..MaxSecond
    PROVE  Check(left, f) \in PollType /\ PollInv(Check(left, f), f)
  <1>1. DOMAIN rows = 1..Len(rows) /\ Len(rows) \in Nat
    BY Typed
  <1>2. \A c \in Comments : posted[c].on \in 1..3
    BY Typed
  <1>3. CASE left = {}
    BY <1>3, ReviewAssumption DEF Check, NoPoll, PollType, PollInv
  <1>4. CASE left # {}
    <2> DEFINE t == Greatest(left)
    <2>1. t \in left
      BY <1>1, <1>4, GreatestIsMax
    <2>2. rows[t].finished \in 0..MaxSecond
      BY <2>1, Typed
    <2> HIDE DEF t
    <2>3. Check(left, f) =
            [phase |-> "reading", left |-> left \ {t}, cand |-> t,
             floor |-> IF f # 0 THEN f ELSE rows[t].finished,
             read |-> 0, got |-> {}, behind |-> {}]
      BY <1>4 DEF Check, t
    <2> QED
      BY <2>1, <2>2, <2>3, <1>2 DEF PollType, PollInv, PollSees
  <1> QED BY <1>3, <1>4

(* After an answer the poll goes on reading, has something to create, or      *)
(* leaves for the next candidate.                                            *)
LEMMA AfterGetInv ==
    ASSUME ReviewTypeOK, NEW p \in PollType, PollSees(p), p.phase = "reading",
           floor = 0 \/ p.floor = floor
    PROVE  AfterGet(p) \in PollType /\ PollInv(AfterGet(p), floor)
  <1>1. CASE p.read < 3
    BY <1>1 DEF AfterGet, PollInv
  <1>2. CASE ~(p.read < 3) /\ p.got = {}
    <2>1. p.left \in SUBSET DOMAIN rows /\ floor \in 0..MaxSecond
      BY DEF PollType, ReviewTypeOK
    <2> QED BY <1>2, <2>1, CheckStarts DEF AfterGet
  <1>3. CASE ~(p.read < 3) /\ p.got # {}
    <2>1. AfterGet(p) = [p EXCEPT !.phase = "checking"] /\ p.read = 3
      BY <1>3 DEF AfterGet, PollType
    <2> QED BY <1>3, <2>1 DEF PollType, PollInv, PollSees
  <1> QED BY <1>1, <1>2, <1>3

-----------------------------------------------------------------------------
(* The invariant *)

LEMMA ReviewInitInv == ReviewInit => ReviewInv
  <1> SUFFICES ASSUME ReviewInit PROVE ReviewInv
    OBVIOUS
  <1> DEFINE RowType == [parent : Nat, status : Statuses, finished : 0..MaxSecond,
                         covers : SUBSET Comments]
  <1>1. Comments = {}
    BY DEF ReviewInit, Comments
  <1>2. rows \in Seq(RowType) /\ DOMAIN rows = {1}
    <2>1. rows = <<[parent |-> 0, status |-> "completed", finished |-> 1, covers |-> {}]>>
      BY DEF ReviewInit
    <2>2. rows[1] \in RowType
      BY <2>1, ReviewAssumption DEF Statuses
    <2> QED BY <2>1, <2>2
  <1>3. ReviewTypeOK
    BY <1>1, <1>2, ReviewAssumption DEF ReviewInit, ReviewTypeOK, NoPoll
  <1> QED
    BY <1>1, <1>3, ReviewAssumption
    DEF ReviewInit, ReviewInv, ClockRuns, PollInv, CoveredIsPassed, FeedbackIsKept,
        ConsumedOnce, NoPoll

(* The parts of the invariant that a step leaves alone when it changes        *)
(* neither comments, rows nor floor.                                         *)
LEMMA SameReview ==
    ASSUME ReviewInv, posted' = posted, rows' = rows, floor' = floor,
           missed' = missed, again' = again
    PROVE  CoveredIsPassed' /\ FeedbackIsKept' /\ ConsumedOnce'
  <1>1. Comments' = Comments /\ Uncovered' = Uncovered
        /\ \A c \in Comments : CoveredBy(c)' = CoveredBy(c)
    BY DEF Comments, Uncovered, CoveredBy
  <1> QED
    BY <1>1 DEF ReviewInv, CoveredIsPassed, FeedbackIsKept, ConsumedOnce

(* Another comment is posted.                                                *)
LEMMA PostCommentInv ==
    ASSUME ReviewInv, NEW e \in Endpoints, PostComment(e)
    PROVE  ReviewInv'
  <1> DEFINE CommentType == [ts : 1..MaxSecond, on : Endpoints]
             RowType(cs) == [parent : Nat, status : Statuses, finished : 0..MaxSecond,
                             covers : SUBSET cs]
  <1>1. /\ Comments = 1..Len(posted) /\ Len(posted) \in Nat
        /\ \A d \in Comments : posted[d].ts \in 1..MaxSecond /\ posted[d].on \in 1..3
        /\ \A r \in DOMAIN rows : rows[r].covers \subseteq Comments
    BY Typed DEF ReviewInv
  <1> PICK c \in Nat : c = Len(posted) + 1
    BY <1>1
  <1>2. /\ posted' = Append(posted, [ts |-> second, on |-> e])
        /\ second \in 1..MaxSecond /\ second \in Nat
        /\ UNCHANGED <<second, rows, hidden, floor, again, incidents>>
    BY ReviewAssumption DEF PostComment, ReviewInv, ReviewTypeOK
  <1>3. /\ posted' \in Seq(CommentType)
        /\ Comments' = Comments \cup {c} /\ c \notin Comments
        /\ posted'[c] = [ts |-> second, on |-> e]
        /\ \A d \in Comments : posted'[d] = posted[d]
    <2>1. posted \in Seq(CommentType) /\ [ts |-> second, on |-> e] \in CommentType
      BY <1>2 DEF ReviewInv, ReviewTypeOK
    <2>2. /\ posted' \in Seq(CommentType) /\ Len(posted') = Len(posted) + 1
          /\ \A d \in 1..Len(posted) : posted'[d] = posted[d]
          /\ posted'[Len(posted) + 1] = [ts |-> second, on |-> e]
      <3> HIDE DEF CommentType
      <3> QED BY <2>1, <1>2, AppendProperties
    <2>3. Comments' = 1..Len(posted')
      <3> HIDE DEF CommentType
      <3> QED BY <2>2, LenProperties DEF Comments
    <2> HIDE DEF CommentType
    <2> QED BY <2>2, <2>3, <1>1
  <1> HIDE DEF CommentType
  <1>13. \A d \in Comments : OnFirstPage(d)' = OnFirstPage(d)
    <2> SUFFICES ASSUME NEW d \in Comments PROVE OnFirstPage(d)' = OnFirstPage(d)
      OBVIOUS
    <2>1. 1..(d - 1) \subseteq Comments /\ d \in Nat
      BY <1>1
    <2>2. {x \in 1..(d - 1) : posted'[x].on = posted'[d].on}
          = {x \in 1..(d - 1) : posted[x].on = posted[d].on}
      BY <2>1, <1>3
    <2> QED BY <2>2 DEF OnFirstPage
  <1> USE DEF CommentType
  <1>4. CoveredBy(c)' = {} /\ (\A d \in Comments : CoveredBy(d)' = CoveredBy(d))
        /\ Uncovered' = Uncovered \cup {c}
    <2>1. \A d : CoveredBy(d)' = CoveredBy(d)
      BY <1>2 DEF CoveredBy
    <2>2. CoveredBy(c) = {}
      BY <1>1, <1>3 DEF CoveredBy
    <2> QED BY <2>1, <2>2, <1>3 DEF Uncovered
  <1>5. rows' \in Seq(RowType(Comments'))
    <2>1. rows \in Seq(RowType(Comments))
      BY DEF ReviewInv, ReviewTypeOK
    <2>2. RowType(Comments) \subseteq RowType(Comments')
      BY <1>3
    <2> HIDE DEF RowType
    <2> QED BY <2>1, <2>2, <1>2, SeqMonotonic
  <1>6. poll' \in PollType' /\ PollInv(poll, floor)'
    <2>1. poll \in PollType /\ PollInv(poll, floor) /\ floor' = floor /\ rows' = rows
      BY <1>2 DEF ReviewInv, ReviewTypeOK, PollType
    <2>2. CASE poll.phase # "idle" /\ poll.read >= e
      <3>1. poll' = [poll EXCEPT !.behind = @ \cup {c}]
        BY <2>2 DEF PostComment
      <3>2. poll' \in PollType'
        BY <2>1, <3>1, <1>3 DEF PollType
      <3>3. /\ poll'.phase = poll.phase /\ poll'.floor = poll.floor
            /\ poll'.read = poll.read /\ poll'.got = poll.got
            /\ poll'.behind = poll.behind \cup {c}
        BY <2>1, <3>1 DEF PollType
      <3> QED
        BY <2>1, <3>2, <3>3, <1>3, <1>13 DEF PollInv, PollSees, PollType
    <2>3. CASE ~(poll.phase # "idle" /\ poll.read >= e)
      <3>1. poll' = poll
        BY <2>3 DEF PostComment
      <3>2. poll' \in PollType'
        BY <2>1, <3>1, <1>3 DEF PollType
      <3>3. poll.phase # "idle" => ~(posted'[c].on <= poll.read)
        BY <2>3, <2>1, <1>3 DEF PollType, Endpoints
      <3> QED
        BY <2>1, <3>1, <3>2, <3>3, <1>3, <1>13 DEF PollInv, PollSees, PollType
    <2> QED BY <2>2, <2>3
  <1>7. missed \subseteq missed' /\ missed' \subseteq Comments'
        /\ (second = FloorOf(1) => c \in missed')
    BY <1>3 DEF PostComment, ReviewInv, ReviewTypeOK
  <1>8. ReviewTypeOK'
    BY <1>2, <1>3, <1>5, <1>6, <1>7 DEF ReviewInv, ReviewTypeOK, PollType
  <1>9. ClockRuns'
    <2>1. second <= second
      BY <1>2
    <2>2. floor <= second /\ \A d \in Comments : posted[d].ts <= second
      BY DEF ReviewInv, ClockRuns
    <2>3. second' = second /\ floor' = floor
      BY <1>2
    <2>4. \A d \in Comments' : posted'[d].ts <= second
      BY <2>1, <2>2, <1>3
    <2> QED BY <2>2, <2>3, <2>4 DEF ClockRuns
  <1>10. CoveredIsPassed'
    BY <1>2, <1>3, <1>4 DEF ReviewInv, CoveredIsPassed
  <1>11. FeedbackIsKept'
    <2> SUFFICES ASSUME NEW d \in Comments', posted'[d].ts <= floor'
                 PROVE  d \notin Uncovered' \/ d \in missed'
      BY DEF FeedbackIsKept
    <2>1. CASE d \in Comments
      BY <2>1, <1>2, <1>3, <1>4, <1>7 DEF ReviewInv, FeedbackIsKept
    <2>2. CASE d = c
      <3>1. floor = second /\ floor # 0
        BY <2>2, <1>2, <1>3 DEF ReviewInv, ClockRuns, ReviewTypeOK
      <3> QED BY <3>1, <2>2, <1>7 DEF FloorOf
    <2> QED BY <2>1, <2>2, <1>3
  <1>12. ConsumedOnce'
    BY <1>2, <1>3, <1>4 DEF ReviewInv, ConsumedOnce
  <1> QED BY <1>6, <1>8, <1>9, <1>10, <1>11, <1>12 DEF ReviewInv

(* A revision is created, by an operator (got is empty) or by the poll: a row  *)
(* is added that covers got.                                                 *)
LEMMA RowAdded ==
    ASSUME ReviewTypeOK, NEW p \in Nat, NEW got \in SUBSET Comments,
           rows' = Append(rows, NewRow(p, got)), posted' = posted
    PROVE  /\ rows' \in Seq([parent : Nat, status : Statuses, finished : 0..MaxSecond,
                             covers : SUBSET Comments])
           /\ DOMAIN rows \subseteq DOMAIN rows'
           /\ Comments' = Comments
           /\ Uncovered' = Uncovered \ got
           /\ \A c \in Comments \ got : CoveredBy(c)' = CoveredBy(c)
           /\ \A c \in got \cap Uncovered : \A r, q \in CoveredBy(c)' : r = q
  <1> DEFINE RowType == [parent : Nat, status : Statuses, finished : 0..MaxSecond,
                         covers : SUBSET Comments]
  <1>1. DOMAIN rows = 1..Len(rows) /\ Len(rows) \in Nat
    BY Typed
  <1> PICK n \in Nat : n = Len(rows) + 1
    BY <1>1
  <1>2. rows \in Seq(RowType) /\ NewRow(p, got) \in RowType
    BY <1>1, ReviewAssumption DEF ReviewTypeOK, NewRow, Statuses
  <1>3. /\ rows' \in Seq(RowType)
        /\ DOMAIN rows' = 1..n
        /\ rows'[n] = NewRow(p, got) /\ \A r \in 1..Len(rows) : rows'[r] = rows[r]
    <2> HIDE DEF RowType
    <2> QED BY <1>2, AppendProperties, LenProperties
  <1>4. DOMAIN rows' = DOMAIN rows \cup {n} /\ n \notin DOMAIN rows
    BY <1>1, <1>3
  <1>5. rows'[n].covers = got
    BY <1>3 DEF NewRow
  <1>6. \A c : CoveredBy(c)' = CoveredBy(c) \cup (IF c \in got THEN {n} ELSE {})
    BY <1>1, <1>3, <1>4, <1>5 DEF CoveredBy
  <1>7. Comments' = Comments
    BY DEF Comments
  <1> QED BY <1>3, <1>4, <1>6, <1>7 DEF Uncovered

LEMMA ReviseInv ==
    ASSUME ReviewInv, NEW p \in DOMAIN rows, Revise(p)
    PROVE  ReviewInv'
  <1>1. /\ rows' = Append(rows, NewRow(p, {}))
        /\ UNCHANGED <<second, posted, hidden, floor, poll, missed, again>>
        /\ incidents' \in 0..MaxIncidents
    BY ReviewAssumption DEF Revise, Incident, ReviewInv, ReviewTypeOK
  <1>2. /\ rows' \in Seq([parent : Nat, status : Statuses, finished : 0..MaxSecond,
                          covers : SUBSET Comments])
        /\ DOMAIN rows \subseteq DOMAIN rows'
        /\ Comments' = Comments /\ Uncovered' = Uncovered
        /\ \A c \in Comments : CoveredBy(c)' = CoveredBy(c)
    <2> DEFINE got == {}
    <2>1. got \in SUBSET Comments /\ rows' = Append(rows, NewRow(p, got))
          /\ Uncovered \ got = Uncovered /\ Comments \ got = Comments
          /\ posted' = posted /\ ReviewTypeOK
      BY <1>1 DEF ReviewInv
    <2>2. p \in Nat
      BY Typed DEF ReviewInv
    <2> HIDE DEF got
    <2> QED BY <2>1, <2>2, RowAdded
  <1>3. ReviewTypeOK'
    <2>1. poll \in PollType
      BY DEF ReviewInv, ReviewTypeOK, PollType
    <2>2. poll' \in PollType'
      BY <2>1, <1>1, <1>2 DEF PollType
    <2> QED BY <1>1, <1>2, <2>2 DEF ReviewInv, ReviewTypeOK, PollType
  <1> QED
    BY <1>1, <1>2, <1>3 DEF ReviewInv, ClockRuns, PollInv, PollSees, OnFirstPage,
                            CoveredIsPassed, FeedbackIsKept, ConsumedOnce

LEMMA RevisionEndsInv ==
    ASSUME ReviewInv, NEW r \in DOMAIN rows, NEW s \in Statuses, RevisionEnds(r, s)
    PROVE  ReviewInv'
  <1> DEFINE RowType == [parent : Nat, status : Statuses, finished : 0..MaxSecond,
                         covers : SUBSET Comments]
  <1>1. /\ rows' = [rows EXCEPT ![r].status = s, ![r].finished = second]
        /\ UNCHANGED <<second, posted, hidden, floor, poll, missed, again, incidents>>
    BY DEF RevisionEnds
  <1>2. DOMAIN rows = 1..Len(rows) /\ Len(rows) \in Nat
    BY Typed DEF ReviewInv
  <1>3. rows \in Seq(RowType)
    BY DEF ReviewInv, ReviewTypeOK
  <1>4. rows[r] \in RowType
    <2> HIDE DEF RowType
    <2> QED BY <1>2, <1>3, ElementOfSeq
  <1> DEFINE row == [rows[r] EXCEPT !.status = s, !.finished = second]
  <1>5. row \in RowType /\ row.covers = rows[r].covers
    <2>1. second \in 0..MaxSecond
      BY ReviewAssumption DEF ReviewInv, ReviewTypeOK
    <2> QED BY <1>4, <2>1
  <1>6. rows' = [rows EXCEPT ![r] = row]
    BY <1>1
  <1>7. rows' \in Seq(RowType) /\ DOMAIN rows' = DOMAIN rows
        /\ \A q \in DOMAIN rows : rows'[q].covers = rows[q].covers
    <2>1. rows' \in Seq(RowType)
      <3> HIDE DEF RowType, row
      <3> QED BY <1>2, <1>3, <1>5, <1>6, ExceptSeq
    <2>2. DOMAIN rows' = DOMAIN rows
      BY <1>6
    <2>3. \A q \in DOMAIN rows : rows'[q] = IF q = r THEN row ELSE rows[q]
      BY <1>6
    <2> QED BY <2>1, <2>2, <2>3, <1>5
  <1>8. /\ Comments' = Comments /\ Uncovered' = Uncovered
        /\ \A c : CoveredBy(c)' = CoveredBy(c)
    BY <1>1, <1>7 DEF Comments, Uncovered, CoveredBy
  <1>9. ReviewTypeOK'
    <2>1. poll \in PollType
      BY DEF ReviewInv, ReviewTypeOK, PollType
    <2>2. poll' \in PollType'
      BY <2>1, <1>1, <1>7, <1>8 DEF PollType
    <2> QED BY <1>1, <1>7, <1>8, <2>2 DEF ReviewInv, ReviewTypeOK, PollType
  <1> QED
    BY <1>1, <1>8, <1>9 DEF ReviewInv, ClockRuns, PollInv, PollSees, OnFirstPage,
                            CoveredIsPassed, FeedbackIsKept, ConsumedOnce

(* A step of the poll that creates nothing leaves a poll in order.            *)
LEMMA PollMoves ==
    ASSUME ReviewInv, poll' \in PollType, PollInv(poll', floor), floor' = floor,
           UNCHANGED <<second, posted, rows, hidden, missed, again>>,
           incidents' \in 0..MaxIncidents
    PROVE  ReviewInv'
  <1>1. CoveredIsPassed' /\ FeedbackIsKept' /\ ConsumedOnce'
    BY SameReview
  <1>2. Comments' = Comments
    BY DEF Comments
  <1>3. ReviewTypeOK'
    BY <1>2 DEF ReviewInv, ReviewTypeOK, PollType
  <1>4. PollInv(poll, floor)'
    BY <1>2 DEF PollInv, PollSees, OnFirstPage
  <1> QED
    BY <1>1, <1>2, <1>3, <1>4 DEF ReviewInv, ClockRuns

LEMMA StartPollInv ==
    ASSUME ReviewInv, StartPoll
    PROVE  ReviewInv'
  <1>1. Candidates \in SUBSET DOMAIN rows /\ floor \in 0..MaxSecond
    BY DEF Candidates, ReviewInv, ReviewTypeOK
  <1>2. poll' \in PollType /\ PollInv(poll', floor)
    BY <1>1, CheckStarts DEF StartPoll, ReviewInv
  <1> QED
    BY <1>2, PollMoves DEF StartPoll, ReviewInv, ReviewTypeOK

LEMMA ReadEndpointInv ==
    ASSUME ReviewInv, ReadEndpoint
    PROVE  ReviewInv'
  <1> DEFINE new == {c \in Comments : posted[c].on = poll.read + 1
                                      /\ OnFirstPage(c)
                                      /\ Newer(posted[c].ts, poll.floor)}
             seen == [poll EXCEPT !.read = poll.read + 1, !.got = @ \cup new]
             failed == [poll EXCEPT !.read = poll.read + 1, !.behind = @ \cup new]
  <1>1. /\ poll.phase = "reading" /\ poll \in PollType
        /\ floor = 0 \/ poll.floor = floor
        /\ PollSees(poll) /\ poll.read \in 0..2
    BY DEF ReadEndpoint, ReviewInv, ReviewTypeOK, PollType, PollInv
  <1>2. \A c \in Comments : posted[c].on \in 1..3
    BY Typed DEF ReviewInv
  <1>3. \A c \in Comments : posted[c].on <= poll.read + 1
                            => posted[c].on <= poll.read \/ posted[c].on = poll.read + 1
    BY <1>1, <1>2
  <1>4. poll.read + 1 \in 0..3
    BY <1>1
  <1>5. /\ seen \in PollType /\ PollSees(seen) /\ seen.phase = "reading"
        /\ seen.floor = poll.floor
    BY <1>1, <1>3, <1>4 DEF PollType, PollSees, Newer
  <1>6. /\ failed \in PollType /\ PollSees(failed) /\ failed.phase = "reading"
        /\ failed.floor = poll.floor
    BY <1>1, <1>3, <1>4 DEF PollType, PollSees, Newer
  <1>7. poll' = AfterGet(seen) \/ poll' = AfterGet(failed)
    BY DEF ReadEndpoint
  <1>8. poll' \in PollType /\ PollInv(poll', floor)
    <2> HIDE DEF seen, failed
    <2> QED BY <1>1, <1>5, <1>6, <1>7, AfterGetInv DEF ReviewInv
  <1>9. incidents' \in 0..MaxIncidents
    BY ReviewAssumption DEF ReadEndpoint, Incident, ReviewInv, ReviewTypeOK
  <1> QED
    BY <1>8, <1>9, PollMoves DEF ReadEndpoint

LEMMA CheckOpenInv ==
    ASSUME ReviewInv, CheckOpen
    PROVE  ReviewInv'
  <1>1. /\ poll \in PollType /\ PollInv(poll, floor) /\ poll.phase = "checking"
        /\ floor' = floor /\ floor \in 0..MaxSecond
    BY DEF CheckOpen, FloorWhileRevising, ReviewInv, ReviewTypeOK, PollType
  <1>2. poll' \in PollType /\ PollInv(poll', floor)
    <2>1. CASE poll' = Check(poll.left, floor)
      <3>1. poll.left \in SUBSET DOMAIN rows
        BY <1>1 DEF PollType
      <3> QED BY <2>1, <3>1, <1>1, CheckStarts DEF ReviewInv
    <2>2. CASE poll' = [poll EXCEPT !.phase = "creating"]
      BY <2>2, <1>1 DEF PollType, PollInv, PollSees
    <2> QED BY <1>1, <2>1, <2>2 DEF CheckOpen
  <1> QED
    BY <1>1, <1>2, PollMoves DEF CheckOpen, ReviewInv, ReviewTypeOK

LEMMA CheckAbortsInv ==
    ASSUME ReviewInv, CheckAborts
    PROVE  ReviewInv'
  <1>1. poll.left \in SUBSET DOMAIN rows /\ floor \in 0..MaxSecond
    BY DEF ReviewInv, ReviewTypeOK, PollType
  <1>2. poll' \in PollType /\ PollInv(poll', floor)
    BY <1>1, CheckStarts DEF CheckAborts, ReviewInv
  <1>3. incidents' \in 0..MaxIncidents
    BY ReviewAssumption DEF CheckAborts, Incident, ReviewInv, ReviewTypeOK
  <1> QED
    BY <1>2, <1>3, PollMoves DEF CheckAborts

(* The revision takes what the poll got, and the floor moves to the newest of  *)
(* it.  What the floor passes now was behind the old floor, was got, or was    *)
(* out of the poll's sight.                                                  *)
LEMMA CreateRevisionInv ==
    ASSUME ReviewInv, CreateRevision
    PROVE  ReviewInv'
  <1> DEFINE got == poll.got
             RowType == [parent : Nat, status : Statuses, finished : 0..MaxSecond,
                         covers : SUBSET Comments]
  <1>1. /\ poll \in PollType /\ got \in SUBSET Comments /\ got # {}
        /\ floor = 0 \/ poll.floor = floor
        /\ PollSees(poll) /\ poll.read = 3 /\ poll.phase = "creating"
        /\ floor \in 0..MaxSecond /\ poll.floor \in 0..MaxSecond
    BY DEF CreateRevision, ReviewInv, ReviewTypeOK, PollType, PollInv
  <1>2. /\ rows' = Append(rows, NewRow(poll.cand, got))
        /\ floor' = Latest(got) /\ poll' = Check(poll.left, floor')
        /\ UNCHANGED <<second, posted, hidden, again, incidents>>
    BY DEF CreateRevision, FloorAfter
  <1>3. /\ floor' \in 1..MaxSecond /\ floor' \in 0..MaxSecond
        /\ \A c \in got : posted[c].ts <= floor'
        /\ \E c \in got : posted[c].ts = floor'
    BY <1>1, <1>2, LatestIsMax DEF ReviewInv
  <1>4. /\ \A c \in Comments : posted[c].ts \in 1..MaxSecond /\ posted[c].on \in 1..3
        /\ DOMAIN rows = 1..Len(rows) /\ Len(rows) \in Nat
    BY Typed DEF ReviewInv
  <1>5. floor < floor' \/ floor = 0
    BY <1>1, <1>3, <1>4 DEF PollSees
  <1>6. /\ rows' \in Seq(RowType)
        /\ DOMAIN rows \subseteq DOMAIN rows'
        /\ Comments' = Comments
        /\ Uncovered' = Uncovered \ got
        /\ \A c \in Comments \ got : CoveredBy(c)' = CoveredBy(c)
        /\ \A c \in got \cap Uncovered : \A r, q \in CoveredBy(c)' : r = q
    <2>1. poll.cand \in Nat
      BY <1>1, <1>4 DEF PollType
    <2> HIDE DEF got
    <2> QED BY <1>1, <1>2, <2>1, RowAdded DEF ReviewInv
  <1>7. poll' \in PollType /\ PollInv(poll', floor')
    <2>1. poll.left \in SUBSET DOMAIN rows
      BY <1>1 DEF PollType
    <2> QED BY <1>2, <1>3, <2>1, CheckStarts DEF ReviewInv
  <1>8. /\ missed' = missed \cup {c \in Uncovered \ got :
                                    /\ posted[c].ts <= floor'
                                    /\ \/ c \in poll.behind \/ ~OnFirstPage(c)
                                       \/ floor = 0 /\ posted[c].ts <= poll.floor}
        /\ missed' \subseteq Comments
    BY <1>2 DEF CreateRevision, Uncovered, ReviewInv, ReviewTypeOK
  <1>9. ReviewTypeOK'
    <2>1. poll' \in PollType'
      BY <1>6, <1>7 DEF PollType
    <2> QED BY <1>2, <1>3, <1>6, <1>8, <2>1 DEF ReviewInv, ReviewTypeOK, PollType
  <1>10. ClockRuns'
    <2>1. floor' <= second
      BY <1>3, <1>1 DEF ReviewInv, ClockRuns
    <2> QED BY <2>1, <1>2, <1>6 DEF ReviewInv, ClockRuns
  <1>11. PollInv(poll, floor)'
    BY <1>2, <1>6, <1>7 DEF PollInv, PollSees, OnFirstPage
  <1>12. CoveredIsPassed'
    <2> SUFFICES ASSUME NEW c \in Comments, c \notin Uncovered'
                 PROVE  c \in again \/ (floor' # 0 /\ posted[c].ts <= floor')
      BY <1>2, <1>6 DEF CoveredIsPassed
    <2>1. CASE c \in got
      BY <2>1, <1>3
    <2>2. CASE c \notin got
      <3>1. c \in again \/ (floor # 0 /\ posted[c].ts <= floor)
        BY <2>2, <1>6 DEF ReviewInv, CoveredIsPassed
      <3> QED BY <3>1, <1>1, <1>3, <1>4, <1>5
    <2> QED BY <2>1, <2>2
  <1>13. FeedbackIsKept'
    <2> SUFFICES ASSUME NEW c \in Comments, posted[c].ts <= floor', c \in Uncovered \ got
                 PROVE  c \in missed'
      BY <1>2, <1>6 DEF FeedbackIsKept
    <2>1. CASE posted[c].ts > poll.floor
      <3>1. c \in poll.behind \/ ~OnFirstPage(c)
        BY <2>1, <1>1, <1>4 DEF PollSees
      <3> QED BY <3>1, <1>8
    <2>2. CASE ~(posted[c].ts > poll.floor)
      <3>1. posted[c].ts <= poll.floor
        BY <2>2, <1>1, <1>4
      <3>2. CASE floor = 0
        BY <3>1, <3>2, <1>8
      <3>3. CASE floor # 0
        <4>1. posted[c].ts <= floor
          BY <3>1, <3>3, <1>1
        <4>2. c \in missed
          BY <4>1 DEF ReviewInv, FeedbackIsKept
        <4> QED BY <4>2, <1>8
      <3> QED BY <3>2, <3>3
    <2> QED BY <2>1, <2>2
  <1>14. ConsumedOnce'
    <2> SUFFICES ASSUME NEW c \in Comments, c \notin again
                 PROVE  \A r, q \in CoveredBy(c)' : r = q
      BY <1>2, <1>6 DEF ConsumedOnce
    <2>1. CASE c \notin got
      BY <2>1, <1>6 DEF ReviewInv, ConsumedOnce
    <2>2. CASE c \in got
      <3>1. posted[c].ts > poll.floor
        BY <2>2, <1>1 DEF PollSees
      <3>2. c \in Uncovered
        BY <3>1, <1>1, <1>4 DEF ReviewInv, CoveredIsPassed
      <3> QED BY <2>2, <3>2, <1>6
    <2> QED BY <2>1, <2>2
  <1> QED BY <1>9, <1>10, <1>11, <1>12, <1>13, <1>14 DEF ReviewInv

(* The floor is lost; what revisions have may be answered again.              *)
LEMMA RestartInv ==
    ASSUME ReviewInv, Restart
    PROVE  ReviewInv'
  <1>1. /\ Comments' = Comments /\ Uncovered' = Uncovered
        /\ \A c : CoveredBy(c)' = CoveredBy(c)
    BY DEF Restart, Comments, Uncovered, CoveredBy
  <1>2. ReviewTypeOK'
    BY <1>1, ReviewAssumption
    DEF Restart, Incident, NoPoll, ReviewInv, ReviewTypeOK, Uncovered
  <1>3. FeedbackIsKept'
    <2>1. \A c \in Comments : posted[c].ts \in 1..MaxSecond
      BY Typed DEF ReviewInv
    <2>2. posted' = posted /\ floor' = 0
      BY DEF Restart
    <2>3. \A c \in Comments : ~(posted[c].ts <= 0)
      BY <2>1
    <2> QED BY <1>1, <2>2, <2>3 DEF FeedbackIsKept
  <1>4. ClockRuns'
    <2>1. 0 <= second
      BY DEF ReviewInv, ReviewTypeOK
    <2> QED BY <1>1, <2>1 DEF Restart, ReviewInv, ClockRuns
  <1> QED
    BY <1>1, <1>2, <1>3, <1>4
    DEF Restart, NoPoll, ReviewInv, PollInv, CoveredIsPassed, ConsumedOnce

LEMMA ReviewTickInv ==
    ASSUME ReviewInv, ReviewTick
    PROVE  ReviewInv'
  <1>1. second \in 1..MaxSecond /\ MaxSecond \in Nat /\ second < MaxSecond
        /\ second' = second + 1
        /\ UNCHANGED <<posted, rows, hidden, floor, poll, missed, again, incidents>>
    BY ReviewAssumption DEF ReviewTick, ReviewInv, ReviewTypeOK
  <1>2. Comments' = Comments
    BY <1>1 DEF Comments
  <1>3. ReviewTypeOK'
    BY <1>1, <1>2 DEF ReviewInv, ReviewTypeOK
  <1>4. ClockRuns'
    <2>1. \A c \in Comments : posted[c].ts \in 1..MaxSecond
      BY Typed DEF ReviewInv
    <2>2. floor \in 0..MaxSecond
      BY DEF ReviewInv, ReviewTypeOK
    <2>3. floor <= second /\ \A c \in Comments : posted[c].ts <= second
      BY DEF ReviewInv, ClockRuns
    <2>4. floor <= second + 1 /\ \A c \in Comments : posted[c].ts <= second + 1
      BY <1>1, <2>1, <2>2, <2>3
    <2> QED BY <1>1, <1>2, <2>4 DEF ClockRuns
  <1>5. CoveredIsPassed' /\ FeedbackIsKept' /\ ConsumedOnce'
    BY <1>1, SameReview
  <1> QED
    BY <1>1, <1>2, <1>3, <1>4, <1>5 DEF ReviewInv, PollInv, PollSees, OnFirstPage

(* The lists of the database move on, which the invariant does not read.      *)
LEMMA OthersComeInv ==
    ASSUME ReviewInv, NEW l \in {"completed", "any"}, NEW n \in 1..MaxHidden,
           OthersCome(l, n)
    PROVE  ReviewInv'
  <1>1. /\ UNCHANGED <<second, posted, rows, floor, poll, missed, again>>
        /\ incidents' \in 0..MaxIncidents
        /\ hidden' \in [{"completed", "any"} -> 0..MaxHidden]
    BY ReviewAssumption DEF OthersCome, Incident, ReviewInv, ReviewTypeOK
  <1>2. Comments' = Comments
    BY <1>1 DEF Comments
  <1>3. ReviewTypeOK'
    BY <1>1, <1>2 DEF ReviewInv, ReviewTypeOK
  <1>4. CoveredIsPassed' /\ FeedbackIsKept' /\ ConsumedOnce'
    BY <1>1, SameReview
  <1> QED
    BY <1>1, <1>2, <1>3, <1>4 DEF ReviewInv, ClockRuns, PollInv, PollSees, OnFirstPage

LEMMA ReviewStep == ReviewInv /\ [ReviewNext]_reviewVars => ReviewInv'
  <1> SUFFICES ASSUME ReviewInv, [ReviewNext]_reviewVars
               PROVE  ReviewInv'
    OBVIOUS
  <1>1. CASE ReviewTick
    BY <1>1, ReviewTickInv
  <1>2. ASSUME NEW e \in Endpoints, PostComment(e) PROVE ReviewInv'
    BY <1>2, PostCommentInv
  <1>3. ASSUME NEW p \in DOMAIN rows, Revise(p) PROVE ReviewInv'
    BY <1>3, ReviseInv
  <1>4. ASSUME NEW r \in DOMAIN rows, NEW s \in Statuses, RevisionEnds(r, s)
        PROVE  ReviewInv'
    BY <1>4, RevisionEndsInv
  <1>5. CASE PollStep
    BY <1>5, StartPollInv, ReadEndpointInv, CheckOpenInv, CreateRevisionInv DEF PollStep
  <1>6. CASE CheckAborts
    BY <1>6, CheckAbortsInv
  <1>7. CASE Restart
    BY <1>7, RestartInv
  <1>8. CASE UNCHANGED reviewVars
    <2>1. UNCHANGED <<second, posted, rows, hidden, floor, poll, missed, again, incidents>>
      BY <1>8 DEF reviewVars
    <2>2. poll' \in PollType /\ PollInv(poll', floor) /\ incidents' \in 0..MaxIncidents
      BY <2>1 DEF ReviewInv, ReviewTypeOK, PollType
    <2> QED BY <2>1, <2>2, PollMoves
  <1>9. ASSUME NEW l \in {"completed", "any"}, NEW n \in 1..MaxHidden, OthersCome(l, n)
        PROVE  ReviewInv'
    BY <1>9, OthersComeInv
  <1> QED
    BY <1>1, <1>2, <1>3, <1>4, <1>5, <1>6, <1>7, <1>8, <1>9 DEF ReviewNext

THEOREM ReviewInvariant == ReviewSpec => []ReviewInv
  <1> QED BY ReviewInitInv, ReviewStep, PTL DEF ReviewSpec

-----------------------------------------------------------------------------

(* Every row covers comments that were posted, and the poll in flight holds   *)
(* candidates and comments that exist, in each of its phases.                *)
THEOREM ReviewTypeCorrect == ReviewSpec => []ReviewTypeOK
  <1>1. ReviewInv => ReviewTypeOK
    BY DEF ReviewInv
  <1> QED BY <1>1, ReviewInvariant, PTL

(* Whatever is posted while polls, revisions, operators, failed requests and  *)
(* restarts interleave: the floor passes no comment that no revision has,      *)
(* except for the reasons FeedbackIsKept names.                              *)
THEOREM FloorLosesNothing == ReviewSpec => []FeedbackIsKept
  <1>1. ReviewInv => FeedbackIsKept
    BY DEF ReviewInv
  <1> QED BY <1>1, ReviewInvariant, PTL

(* No two revisions have the same comment unless a restart lost the floor,     *)
(* although each revision of the pull request is a candidate of its own.      *)
THEOREM NothingTwice == ReviewSpec => []ConsumedOnce
  <1>1. ReviewInv => ConsumedOnce
    BY DEF ReviewInv
  <1> QED BY <1>1, ReviewInvariant, PTL
=============================================================================
