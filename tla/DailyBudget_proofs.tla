------------------------- MODULE DailyBudget_proofs -------------------------
(***************************************************************************)
(* Theorems about DailyBudget.  The ledger of a task that resumes is exact *)
(* for every number of tasks, sessions and responses, every price table    *)
(* and usage report, and any number of midnights, crashes and failed       *)
(* writes; the amounts stay natural numbers; a task keeps to its budget;   *)
(* the sums of a budget check, read at one moment, would leave out         *)
(* nothing; and a response has a greatest cost.                            *)
(***************************************************************************)
EXTENDS DailyBudget, FiniteSetTheorems, WellFoundedInduction, TLAPS

\* What the ledger argument needs of the types; sums are not in it.
LedgerTyped ==
    /\ status \in [Tasks -> {"queued", "running", "ended"}]
    /\ cost \in [Tasks -> Nat]
    /\ tracker \in [Spenders -> [spent: Nat, persisted: Nat]]
    /\ live \subseteq Spenders
    /\ thread \subseteq Tasks
    /\ pc \in [Checkers -> TaskControl]
    /\ outcome \in [Tasks -> {"completed", "failed", "parked"}]
    /\ billed \in [Tasks -> Nat]
    /\ lost \in [Tasks -> Nat]

Written == {"flushing", "closing", "leaving"}   \* the row has all of the tracker
Unsettled == {"flushing", "closing"}            \* and the tracker does not know

\* A task is tracked from Track to Leave, and its row and tracker agree.
LedgerOfLive(t) ==
    /\ tracker[t].spent = billed[t] - lost[t]
    /\ tracker[t].persisted <= cost[t] /\ cost[t] <= tracker[t].spent
    /\ pc[t] \notin Unsettled => cost[t] = tracker[t].persisted
    /\ pc[t] \in Written => cost[t] = tracker[t].spent

\* A task that may run again and has no checkpoint has spent nothing.
LedgerPart(t) ==
    /\ t \in live <=> pc[t] \notin {"idle", "starting"}
    /\ t \in live => t \in thread /\ LedgerOfLive(t)
    /\ t \notin live => cost[t] = billed[t] - lost[t] /\ tracker[t] = NoCost
    /\ t \notin live /\ t \notin thread /\ status[t] # "ended" => cost[t] = 0
    /\ pc[t] \in {"starting", "closing"} => status[t] = "running"
    /\ pc[t] \in {"leaving", "unsaved"} => status[t] = "ended" \/ outcome[t] = "parked"
    /\ pc[t] \notin {"idle", "leaving", "unsaved"} => status[t] = "running"

LedgerInv == LedgerTyped /\ \A t \in Tasks \ Revisions : LedgerPart(t)

-----------------------------------------------------------------------------

(* The invariant gives the property.                                         *)
THEOREM LedgerInvIsExact == LedgerInv => LedgerExact
  <1> SUFFICES ASSUME LedgerInv, NEW t \in Tasks \ Revisions
               PROVE  IF t \in live
                      THEN /\ tracker[t].spent = billed[t] - lost[t]
                           /\ tracker[t].persisted <= cost[t]
                           /\ cost[t] <= tracker[t].spent
                           /\ pc[t] \notin {"flushing", "closing"}
                                  => cost[t] = tracker[t].persisted
                           /\ pc[t] = "leaving" => cost[t] = tracker[t].spent
                      ELSE cost[t] = billed[t] - lost[t]
    BY DEF LedgerExact
  <1> QED
    BY DEF LedgerInv, LedgerPart, LedgerOfLive, Unsettled, Written

LEMMA LedgerInit == Init => LedgerInv
  <1> SUFFICES ASSUME Init PROVE LedgerInv
    OBVIOUS
  <1>1. LedgerTyped
    BY DEF Init, LedgerTyped, Zero, NoCost, TaskControl
  <1>2. ASSUME NEW t \in Tasks \ Revisions PROVE LedgerPart(t)
    BY DEF Init, LedgerPart, LedgerOfLive, Zero, Checkers, Spenders
  <1> QED
    BY <1>1, <1>2 DEF LedgerInv

-----------------------------------------------------------------------------
(* Steps that move a run: what they do to the row and tracker of their task, *)
(* every other task being left alone.                                        *)

\* A tracker starts from what the row has.
LEMMA TrackLedger == ASSUME LedgerInv, NEW p \in Tasks, Track(p) PROVE LedgerInv'
  <1>1. LedgerTyped'
    BY DEF LedgerInv, LedgerTyped, Track, Goto, Resumes, Carried, NoCost,
           Checkers, Spenders, TaskControl
  <1>2. ASSUME NEW t \in Tasks \ Revisions, t # p PROVE LedgerPart(t)'
    BY <1>2 DEF LedgerInv, LedgerTyped, LedgerPart, LedgerOfLive, Track, Goto,
                Checkers, Spenders
  <1>3. ASSUME p \notin Revisions PROVE LedgerPart(p)'
    <2>1. /\ pc'[p] = "thinking" /\ p \in live' /\ p \in thread'
          /\ status[p] = "running" /\ cost[p] = billed[p] - lost[p]
      BY <1>3 DEF LedgerInv, LedgerTyped, LedgerPart, Track, Goto, Checkers, Spenders
    <2>2. tracker'[p] = [spent |-> cost[p], persisted |-> cost[p]]
      <3>1. CASE Resumes(p)
        BY <3>1 DEF LedgerInv, LedgerTyped, Track, Carried, Spenders
      <3>2. CASE ~Resumes(p)
        <4>1. cost[p] = 0
          BY <1>3, <3>2 DEF LedgerInv, LedgerTyped, LedgerPart, Track, Resumes,
                             Checkers, Spenders
        <4> QED
          BY <3>2, <4>1 DEF LedgerInv, LedgerTyped, Track, NoCost, Spenders
      <3> QED
        BY <3>1, <3>2
    <2> QED
      BY <2>1, <2>2 DEF LedgerInv, LedgerTyped, LedgerPart, LedgerOfLive, Track,
                        Unsettled, Written, Spenders
  <1> QED
    BY <1>1, <1>2, <1>3 DEF LedgerInv

\* The provider and the tracker count the same response.
LEMMA RespondLedger == ASSUME LedgerInv, NEW p \in Tasks, Respond(p) PROVE LedgerInv'
  <1> PICK u \in Usages, m \in Models :
           /\ tracker' = [tracker EXCEPT ![p].spent = @ + Cost(u, m)]
           /\ billed' = [billed EXCEPT ![p] = @ + Cost(u, m)]
    BY DEF Respond, Charge
  <1>1. Cost(u, m) \in Nat
    BY AmountsAssumption
  <1>2. LedgerTyped'
    BY <1>1 DEF LedgerInv, LedgerTyped, Respond, Goto, Checkers, Spenders,
                TaskControl
  <1>3. ASSUME NEW t \in Tasks \ Revisions PROVE LedgerPart(t)'
    BY <1>1, <1>3 DEF LedgerInv, LedgerTyped, LedgerPart, LedgerOfLive, Respond,
                      Goto, Unsettled, Written, Checkers, Spenders
  <1> QED
    BY <1>2, <1>3 DEF LedgerInv

\* Flushes: the row first, the tracker after the await.
LEMMA FlushLedger ==
    ASSUME LedgerInv, NEW p \in Tasks,
           BeginFlush(p) \/ EndFlush(p) \/ WriteUsage(p) \/ Close(p)
    PROVE  LedgerInv'
  <1>1. ASSUME BeginFlush(p) \/ WriteUsage(p) PROVE LedgerInv'
    <2>1. /\ pc[p] \in {"billed", "ending"} /\ pc'[p] \in Unsettled
          /\ pc' = [pc EXCEPT ![p] = IF pc[p] = "billed" THEN "flushing" ELSE "closing"]
          /\ cost' = [cost EXCEPT ![p] = tracker[p].spent]
          /\ UNCHANGED <<status, tracker, live, thread, outcome, billed, lost>>
      BY <1>1 DEF LedgerInv, LedgerTyped, BeginFlush, WriteUsage, Goto, progress,
                  Unsettled, Checkers, Spenders
    <2>2. LedgerTyped'
      BY <2>1 DEF LedgerInv, LedgerTyped, Checkers, Spenders, TaskControl
    <2>3. ASSUME NEW t \in Tasks \ Revisions PROVE LedgerPart(t)'
      BY <2>1 DEF LedgerInv, LedgerTyped, LedgerPart, LedgerOfLive, Unsettled,
                  Written, Checkers, Spenders
    <2> QED
      BY <2>2, <2>3 DEF LedgerInv
  <1>2. ASSUME EndFlush(p) PROVE LedgerInv'
    BY <1>2 DEF LedgerInv, LedgerTyped, LedgerPart, LedgerOfLive, EndFlush,
                Persisted, Goto, progress, Unsettled, Written, Checkers, Spenders,
                TaskControl
  <1>3. ASSUME Close(p) PROVE LedgerInv'
    BY <1>3 DEF LedgerInv, LedgerTyped, LedgerPart, LedgerOfLive, Close, Persisted,
                RowStatusOf, Goto, progress, Unsettled, Written, Checkers, Spenders,
                TaskControl
  <1> QED
    BY <1>1, <1>2, <1>3

\* A write that fails changes neither row nor tracker.
LEMMA FailedWriteLedger ==
    ASSUME LedgerInv, NEW p \in Tasks, FlushFails(p) \/ UsageWriteFails(p)
    PROVE  LedgerInv'
  BY DEF LedgerInv, LedgerTyped, LedgerPart, LedgerOfLive, FlushFails,
         UsageWriteFails, RowStatusOf, Goto, ledger, progress, Unsettled, Written,
         Checkers, Spenders, TaskControl

LEMMA ShortfallOf ==
    ASSUME LedgerInv, NEW t \in Tasks
    PROVE  /\ Shortfall(t) \in Nat
           /\ t \in live \ Revisions => Shortfall(t) = tracker[t].spent - cost[t]
  BY DEF LedgerInv, LedgerTyped, LedgerPart, LedgerOfLive, Shortfall, Spenders

\* Untracked, the row has all that is not written off; a checkpoint is dropped
\* with an ended row.
LEMMA LeaveLedger == ASSUME LedgerInv, NEW p \in Tasks, Leave(p) PROVE LedgerInv'
  <1>0. Shortfall(p) \in Nat
    BY ShortfallOf
  <1>1. LedgerTyped'
    BY <1>0 DEF LedgerInv, LedgerTyped, Leave, Untrack, NoCost, Kept, Goto, Checkers,
           Spenders, TaskControl
  <1>2. ASSUME NEW t \in Tasks \ Revisions, t # p PROVE LedgerPart(t)'
    BY <1>2 DEF LedgerInv, LedgerTyped, LedgerPart, LedgerOfLive, Leave, Untrack,
                Kept, Goto, Checkers, Spenders
  <1>3. ASSUME p \notin Revisions PROVE LedgerPart(p)'
    <2>1. /\ p \in live /\ lost'[p] = lost[p] + (tracker[p].spent - cost[p])
          /\ tracker[p].spent = billed[p] - lost[p]
      BY <1>3, ShortfallOf DEF LedgerInv, LedgerTyped, LedgerPart, LedgerOfLive, Leave,
                               Checkers, Spenders
    <2>2. cost'[p] = billed'[p] - lost'[p]
      BY <2>1 DEF LedgerInv, LedgerTyped, Leave, Spenders
    <2> QED
      BY <1>3, <2>2 DEF LedgerInv, LedgerTyped, LedgerPart, LedgerOfLive, Leave,
                        Untrack, Kept, Goto, Checkers, Spenders
  <1> QED
    BY <1>1, <1>2, <1>3 DEF LedgerInv

\* What else a run does moves its control only.
LEMMA ControlLedger ==
    ASSUME LedgerInv, NEW p \in Tasks,
           \/ StopAtTaskBudget(p) \/ CheckDay(p) \/ Continue(p) \/ Park(p)
           \/ Finish(p) \/ Fail(p) \/ GateLaunches(p)
    PROVE  LedgerInv'
  <1>1. ASSUME StopAtTaskBudget(p) \/ Park(p) \/ Finish(p) \/ Fail(p)
        PROVE  LedgerInv'
    <2>1. PICK o \in {"completed", "failed", "parked"} :
              /\ pc' = [pc EXCEPT ![p] = "ending"]
              /\ outcome' = [outcome EXCEPT ![p] = o]
      BY <1>1 DEF StopAtTaskBudget, Park, Finish, Fail, EndRun, Goto
    <2>2. /\ pc[p] \in {"billed", "flushed", "sums", "thinking"}
          /\ UNCHANGED <<status, cost, tracker, live, thread, billed, lost>>
      BY <1>1 DEF StopAtTaskBudget, Park, Finish, Fail, ledger, progress
    <2>3. LedgerTyped'
      BY <2>1, <2>2 DEF LedgerInv, LedgerTyped, Checkers, Spenders, TaskControl
    <2>4. ASSUME NEW t \in Tasks \ Revisions PROVE LedgerPart(t)'
      BY <2>1, <2>2, <2>4 DEF LedgerInv, LedgerTyped, LedgerPart, LedgerOfLive,
                              Unsettled, Written, Checkers, Spenders
    <2> QED
      BY <2>3, <2>4 DEF LedgerInv
  <1>2. ASSUME CheckDay(p) \/ Continue(p) PROVE LedgerInv'
    BY <1>2 DEF LedgerInv, LedgerTyped, LedgerPart, LedgerOfLive, CheckDay,
                BeginCheck, Continue, Goto, ledger, progress, Unsettled, Written,
                Checkers, Spenders, TaskControl
  <1>3. ASSUME GateLaunches(p) PROVE LedgerInv'
    <2>1. /\ pc' = [pc EXCEPT ![Gate] = "idle", ![p] = "starting"] /\ pc[p] = "idle"
          /\ status' = [status EXCEPT ![p] = "running"] /\ status[p] = "queued"
          /\ UNCHANGED <<cost, tracker, live, thread, outcome, billed, lost>>
      BY <1>3, SpendersAssumption DEF GateLaunches, Launchable, progress, Spenders
    <2>2. LedgerTyped'
      BY <2>1 DEF LedgerInv, LedgerTyped, Checkers, Spenders, TaskControl
    <2>3. ASSUME NEW t \in Tasks \ Revisions PROVE LedgerPart(t)'
      <3>1. t # Gate /\ t \in Checkers /\ p \in Checkers
        BY SpendersAssumption DEF Checkers, Spenders
      <3>2. /\ pc'[t] = IF t = p THEN "starting" ELSE pc[t]
            /\ status'[t] = IF t = p THEN "running" ELSE status[t]
        BY <2>1, <3>1 DEF LedgerInv, LedgerTyped
      <3>3. CASE t = p
        BY <2>1, <3>2, <3>3 DEF LedgerInv, LedgerPart
      <3>4. CASE t # p
        BY <2>1, <3>2, <3>4 DEF LedgerInv, LedgerPart, LedgerOfLive
      <3> QED
        BY <3>3, <3>4
    <2> QED
      BY <2>2, <2>3 DEF LedgerInv
  <1> QED
    BY <1>1, <1>2, <1>3

-----------------------------------------------------------------------------
(* Steps of the gate, of a turn and of the host.  A task is neither a        *)
(* session nor the gate.                                                     *)

LEMMA OthersLedger ==
    ASSUME LedgerInv,
           \/ GateChecks \/ GateRefuses \/ \E p \in Checkers : ReadChat(p)
           \/ \E s \in Sessions : TurnStep(s) \/ Ask(s) \/ Reply(s) \/ RecordFails(s)
    PROVE  LedgerInv'
  <1>1. ASSUME NEW p \in Checkers, ReadChat(p) PROVE LedgerInv'
    BY <1>1 DEF LedgerInv, LedgerTyped, LedgerPart, LedgerOfLive, ReadChat, Goto,
                ledger, progress, Unsettled, Written, Checkers, Spenders,
                TaskControl
  <1>2. ASSUME GateChecks \/ GateRefuses PROVE LedgerInv'
    BY <1>2, SpendersAssumption
       DEF LedgerInv, LedgerTyped, LedgerPart, LedgerOfLive, GateChecks,
           GateRefuses, BeginCheck, Goto, ledger, progress, Unsettled, Written,
           Checkers, Spenders, TaskControl
  <1>3. ASSUME NEW s \in Sessions,
               \/ Ask(s) \/ Admit(s) \/ TurnAway(s) \/ ContinueTurn(s)
               \/ EndTurn(s) \/ RecordSpend(s) \/ RecordFails(s) \/ CloseTurn(s)
        PROVE  LedgerInv'
    <2>1. PICK c \in TaskControl : pc' = [pc EXCEPT ![s] = c]
      BY <1>3 DEF Ask, Admit, TurnAway, ContinueTurn, EndTurn, RecordSpend,
                  RecordFails, CloseTurn, BeginCheck, Goto, TaskControl
    <2>2. /\ tracker' \in {tracker, [tracker EXCEPT ![s] = NoCost]}
          /\ live' \in {live, live \cup {s}, live \ {s}}
          /\ UNCHANGED <<status, cost, thread, outcome, billed, lost>>
      BY <1>3 DEF Ask, Admit, TurnAway, ContinueTurn, EndTurn, RecordSpend,
                  RecordFails, CloseTurn, Untrack, ledger, progress
    <2>3. LedgerTyped'
      BY <2>1, <2>2 DEF LedgerInv, LedgerTyped, NoCost, Checkers, Spenders
    <2>4. ASSUME NEW t \in Tasks \ Revisions PROVE LedgerPart(t)'
      <3>1. t # s /\ t \in Checkers /\ t \in Spenders
        BY SpendersAssumption DEF Checkers, Spenders
      <3>2. /\ pc'[t] = pc[t] /\ tracker'[t] = tracker[t]
            /\ t \in live' <=> t \in live
        BY <2>1, <2>2, <3>1 DEF LedgerInv, LedgerTyped
      <3> QED
        BY <2>2, <3>2 DEF LedgerInv, LedgerPart, LedgerOfLive
    <2> QED
      BY <2>3, <2>4 DEF LedgerInv
  <1>4. ASSUME NEW s \in Sessions, Reply(s) PROVE LedgerInv'
    BY <1>4, SpendersAssumption, AmountsAssumption
       DEF LedgerInv, LedgerTyped, LedgerPart, LedgerOfLive, Reply, Charge,
           BeginCheck, Goto, progress, Unsettled, Written, Checkers, Spenders,
           TaskControl
  <1> QED
    BY <1>1, <1>2, <1>3, <1>4 DEF TurnStep, Checkers, Spenders

\* A crash writes off what the rows do not have.
LEMMA CrashLedger == ASSUME LedgerInv, Crash PROVE LedgerInv'
  <1>0. ASSUME NEW t \in Tasks PROVE Shortfall(t) \in Nat
    BY ShortfallOf
  <1>1. LedgerTyped'
    BY <1>0 DEF LedgerInv, LedgerTyped, Crash, NoCost, Checkers, Spenders,
                TaskControl
  <1>2. ASSUME NEW t \in Tasks \ Revisions PROVE LedgerPart(t)'
    <2>1. /\ pc'[t] = "idle" /\ t \notin live' /\ cost'[t] = cost[t]
          /\ lost'[t] = lost[t] + Shortfall(t) /\ billed'[t] = billed[t]
          /\ thread' = thread
      BY DEF Crash, Checkers, Spenders
    <2>2. t \notin thread' /\ status'[t] # "ended" => cost[t] = 0
      BY DEF LedgerInv, LedgerTyped, LedgerPart, Crash
    <2>3. cost[t] = billed[t] - (lost[t] + Shortfall(t))
      <3>1. CASE t \in live
        BY <3>1, ShortfallOf DEF LedgerInv, LedgerTyped, LedgerPart, LedgerOfLive,
                                 Spenders
      <3>2. CASE t \notin live
        <4>1. Shortfall(t) = 0 /\ cost[t] = billed[t] - lost[t]
          BY <3>2 DEF LedgerInv, LedgerTyped, LedgerPart, Shortfall, NoCost
        <4> QED
          BY <4>1 DEF LedgerInv, LedgerTyped
      <3> QED
        BY <3>1, <3>2
    <2>4. tracker'[t] = NoCost
      BY DEF Crash, Spenders
    <2> QED
      BY <2>1, <2>2, <2>3, <2>4 DEF LedgerInv, LedgerTyped, LedgerPart
  <1> QED
    BY <1>1, <1>2 DEF LedgerInv

LEMMA LedgerStep == LedgerInv /\ [Next]_vars => LedgerInv'
  <1> SUFFICES ASSUME LedgerInv, [Next]_vars PROVE LedgerInv'
    OBVIOUS
  <1>1. ASSUME NEW t \in Tasks,
               RunStep(t) \/ Fail(t) \/ FlushFails(t) \/ UsageWriteFails(t)
        PROVE  LedgerInv'
    <2>1. ASSUME ReadChat(t) PROVE LedgerInv'
      BY <2>1, OthersLedger DEF Checkers, Spenders
    <2> QED
      BY <1>1, <2>1, TrackLedger, RespondLedger, FlushLedger, FailedWriteLedger,
         LeaveLedger, ControlLedger DEF RunStep
  <1>2. ASSUME NEW s \in Sessions, TurnStep(s) \/ Ask(s) \/ Reply(s) \/ RecordFails(s)
        PROVE  LedgerInv'
    BY <1>2, OthersLedger
  <1>3. ASSUME GateStep PROVE LedgerInv'
    <2>1. Gate \in Checkers
      BY DEF Checkers
    <2> QED
      BY <1>3, <2>1, OthersLedger, ControlLedger DEF GateStep
  <1>4. ASSUME Midnight PROVE LedgerInv'
    BY <1>4 DEF LedgerInv, LedgerTyped, LedgerPart, LedgerOfLive, Midnight, progress
  <1>5. ASSUME Crash PROVE LedgerInv'
    BY <1>5, CrashLedger
  <1>6. ASSUME UNCHANGED vars PROVE LedgerInv'
    BY <1>6 DEF LedgerInv, LedgerTyped, LedgerPart, LedgerOfLive, vars
  <1> QED
    BY <1>1, <1>2, <1>3, <1>4, <1>5, <1>6 DEF Next

-----------------------------------------------------------------------------

(* What a task's row and tracker carry is what the provider charged for it,  *)
(* but for what a tracker alone knew when a crash or a failed last write     *)
(* ended it: nothing forgotten, nothing counted twice, in every phase of a   *)
(* run, however it is parked, flushed and resumed (runner.py _persist_usage, *)
(* run "carry forward spend").                                               *)
THEOREM LedgerIsExact == Spec => []LedgerExact
  <1>1. Spec => []LedgerInv
    BY LedgerInit, LedgerStep, PTL DEF Spec
  <1> QED
    BY <1>1, LedgerInvIsExact, PTL
-----------------------------------------------------------------------------
(* Sums over finite sets.  A fold is a recursive function over the subsets,   *)
(* and a smallest counterexample does for an induction.                      *)

\* A set of naturals has a least element.
LEMMA LeastNatural ==
    ASSUME NEW B \in SUBSET Nat, B # {}
    PROVE  \E n \in B : \A k \in B : ~(k < n)
  <1>1. PICK n \in B : \A k \in B : <<k, n>> \notin OpToRel(<, Nat)
    BY WFMin, NatLessThanWellFounded, Zenon
  <1> QED
    BY <1>1 DEF OpToRel

\* The recursion of a sum over the subsets of S, as a fold writes it.
Sums(S, f, g) == g = [s \in SUBSET S |->
                        IF s = {} THEN 0
                        ELSE f[CHOOSE x \in s : TRUE] + g[s \ {CHOOSE x \in s : TRUE}]]

\* If the recursion has a solution, the sum is one.
LEMMA SumIsASum ==
    ASSUME NEW S, NEW f, \E g : Sums(S, f, g)
    PROVE  \E g : Sums(S, f, g) /\ SumFunctionOnSet(f, S) = g[S]
  <1> DEFINE g == CHOOSE h : Sums(S, f, h)
  <1>1. Sums(S, f, g)
    OBVIOUS
  <1>2. SumFunctionOnSet(f, S) = g[S]
    BY DEF SumFunctionOnSet, FoldFunctionOnSet, MapThenFoldSet, Sums
  <1> QED
    BY <1>1, <1>2

\* The subsets of S of at most n elements, and a sum over each of them.
Small(S, n) == {s \in SUBSET S : Cardinality(s) <= n}
SmallSums(S, f, n, g) ==
    \A s \in Small(S, n) :
       g[s] = IF s = {} THEN 0
              ELSE f[CHOOSE x \in s : TRUE] + g[s \ {CHOOSE x \in s : TRUE}]

\* Without its chosen element a set is smaller.
LEMMA WithoutChosen ==
    ASSUME NEW S, IsFiniteSet(S), NEW s \in SUBSET S, s # {}
    PROVE  /\ (CHOOSE x \in s : TRUE) \in s
           /\ s \ {CHOOSE x \in s : TRUE} \in SUBSET S
           /\ Cardinality(s) \in Nat /\ Cardinality(s) >= 1
           /\ Cardinality(s \ {CHOOSE x \in s : TRUE}) = Cardinality(s) - 1
  <1> DEFINE x == CHOOSE x \in s : TRUE
  <1>1. IsFiniteSet(s) /\ x \in s
    BY FS_Subset
  <1>2. Cardinality(s) \in Nat /\ Cardinality(s) # 0
    BY <1>1, FS_CardinalityType, FS_EmptySet
  <1>3. Cardinality(s \ {x}) = Cardinality(s) - 1
    <2> HIDE DEF x
    <2> QED
      BY <1>1, FS_RemoveElement
  <1> HIDE DEF x
  <1>4. s \ {x} \in SUBSET S /\ Cardinality(s) >= 1
    BY <1>2
  <1> QED
    BY <1>1, <1>2, <1>3, <1>4 DEF x

\* The recursion has a solution on the subsets of each size, hence on all.
LEMMA SmallSumsExist ==
    ASSUME NEW S, IsFiniteSet(S), NEW f
    PROVE  \A n \in Nat : \E g : SmallSums(S, f, n, g)
  <1> DEFINE B == {n \in Nat : ~\E g : SmallSums(S, f, n, g)}
  <1> SUFFICES ASSUME B # {} PROVE FALSE
    OBVIOUS
  <1>1. PICK n \in B : \A k \in B : ~(k < n)
    <2>1. B \in SUBSET Nat
      OBVIOUS
    <2> HIDE DEF B
    <2> QED
      BY <2>1, LeastNatural
  <1>2. n \in Nat /\ ~\E g : SmallSums(S, f, n, g)
    BY <1>1
  <1>3. n # 0
    <2> SUFFICES ASSUME n = 0 PROVE FALSE
      OBVIOUS
    <2>1. ASSUME NEW s \in Small(S, 0) PROVE s = {}
      <3>1. s \in SUBSET S /\ Cardinality(s) <= 0
        BY <2>1 DEF Small
      <3>2. s # {} => Cardinality(s) \in Nat /\ Cardinality(s) >= 1
        BY <3>1, WithoutChosen
      <3> QED
        BY <3>1, <3>2
    <2>2. SmallSums(S, f, 0, [s \in SUBSET S |-> 0])
      BY <2>1 DEF SmallSums, Small
    <2> QED
      BY <1>2, <2>2
  <1>4. n - 1 \in Nat /\ n - 1 < n
    BY <1>2, <1>3
  <1>5. PICK g : SmallSums(S, f, n - 1, g)
    BY <1>1, <1>4
  <1> DEFINE h == [s \in SUBSET S |-> IF s = {} THEN 0
                     ELSE f[CHOOSE x \in s : TRUE] + g[s \ {CHOOSE x \in s : TRUE}]]
  <1>6. \A s \in Small(S, n - 1) : h[s] = g[s]
    BY <1>5 DEF SmallSums, Small
  <1>7. ASSUME NEW s \in Small(S, n), s # {}
        PROVE  s \ {CHOOSE x \in s : TRUE} \in Small(S, n - 1)
    BY <1>2, <1>7, WithoutChosen DEF Small
  <1>8. SmallSums(S, f, n, h)
    <2> SUFFICES ASSUME NEW s \in Small(S, n)
                 PROVE  h[s] = IF s = {} THEN 0
                               ELSE f[CHOOSE x \in s : TRUE] + h[s \ {CHOOSE x \in s : TRUE}]
      BY DEF SmallSums
    <2>1. s \in SUBSET S
      BY DEF Small
    <2>2. CASE s = {}
      BY <2>1, <2>2
    <2>3. CASE s # {}
      <3>1. h[s \ {CHOOSE x \in s : TRUE}] = g[s \ {CHOOSE x \in s : TRUE}]
        BY <1>6, <1>7, <2>3
      <3> QED
        BY <2>1, <2>3, <3>1
    <2> QED
      BY <2>2, <2>3
  <1> QED
    BY <1>2, <1>8

LEMMA SumsExist ==
    ASSUME NEW S, IsFiniteSet(S), NEW f
    PROVE  \E g : Sums(S, f, g)
  <1>1. Cardinality(S) \in Nat /\ \A s \in SUBSET S : Cardinality(s) <= Cardinality(S)
    BY FS_CardinalityType, FS_Subset
  <1>2. PICK g : SmallSums(S, f, Cardinality(S), g)
    BY <1>1, SmallSumsExist
  <1>3. \A s \in SUBSET S : s \in Small(S, Cardinality(S))
    BY <1>1 DEF Small
  <1> DEFINE h == [s \in SUBSET S |-> g[s]]
  <1>4. ASSUME NEW s \in SUBSET S
        PROVE  h[s] = IF s = {} THEN 0
                      ELSE f[CHOOSE x \in s : TRUE] + h[s \ {CHOOSE x \in s : TRUE}]
    BY <1>2, <1>3 DEF SmallSums
  <1>5. Sums(S, f, h)
    BY <1>4 DEF Sums
  <1> QED
    BY <1>5

\* A sum of natural numbers over a finite set is a natural number.
LEMMA SumIsNat ==
    ASSUME NEW S, IsFiniteSet(S), NEW f, \A x \in S : f[x] \in Nat
    PROVE  SumFunctionOnSet(f, S) \in Nat
  <1>1. PICK g : Sums(S, f, g) /\ SumFunctionOnSet(f, S) = g[S]
    BY SumsExist, SumIsASum
  <1> DEFINE B == {n \in Nat : \E s \in SUBSET S : Cardinality(s) = n /\ g[s] \notin Nat}
  <1>2. B = {}
    <2> SUFFICES ASSUME B # {} PROVE FALSE
      OBVIOUS
    <2>1. PICK n \in B : \A k \in B : ~(k < n)
      <3>1. B \in SUBSET Nat
        OBVIOUS
      <3> HIDE DEF B
      <3> QED
        BY <3>1, LeastNatural
    <2>2. PICK s \in SUBSET S : Cardinality(s) = n /\ g[s] \notin Nat
      BY <2>1
    <2>3. g[s] = IF s = {} THEN 0
                 ELSE f[CHOOSE x \in s : TRUE] + g[s \ {CHOOSE x \in s : TRUE}]
      BY <1>1, <2>2 DEF Sums
    <2>4. s # {}
      BY <2>2, <2>3
    <2> DEFINE r == s \ {CHOOSE x \in s : TRUE}
    <2>5. /\ (CHOOSE x \in s : TRUE) \in S
          /\ r \in SUBSET S /\ Cardinality(r) \in Nat /\ Cardinality(r) < n
      BY <2>1, <2>2, <2>4, WithoutChosen
    <2>6. g[r] \in Nat
      BY <2>1, <2>5
    <2> QED
      BY <2>2, <2>3, <2>4, <2>5, <2>6
  <1>3. Cardinality(S) \in Nat
    BY FS_CardinalityType
  <1> QED
    BY <1>1, <1>2, <1>3

\* What a sum is: the chosen element's share and the sum of the rest.
LEMMA SumUnfolds ==
    ASSUME NEW S, IsFiniteSet(S), NEW f
    PROVE  /\ SumFunctionOnSet(f, {}) = 0
           /\ S # {} => SumFunctionOnSet(f, S) =
                 f[CHOOSE x \in S : TRUE]
                   + SumFunctionOnSet(f, S \ {CHOOSE x \in S : TRUE})
  <1>1. SumFunctionOnSet(f, {}) = 0
    <2>1. IsFiniteSet({})
      BY FS_EmptySet
    <2>2. PICK g : Sums({}, f, g) /\ SumFunctionOnSet(f, {}) = g[{}]
      BY <2>1, SumsExist, SumIsASum
    <2> QED
      BY <2>2 DEF Sums
  <1>2. PICK g : Sums(S, f, g) /\ SumFunctionOnSet(f, S) = g[S]
    BY SumsExist, SumIsASum
  <1>3. \A s \in SUBSET S :
           g[s] = IF s = {} THEN 0
                  ELSE f[CHOOSE x \in s : TRUE] + g[s \ {CHOOSE x \in s : TRUE}]
    BY <1>2 DEF Sums
  <1>4. ASSUME NEW T \in SUBSET S, NEW h, Sums(T, f, h)
        PROVE  h[T] = g[T]
    <2> DEFINE B == {n \in Nat : \E s \in SUBSET T : Cardinality(s) = n /\ h[s] # g[s]}
    <2>1. \A s \in SUBSET T :
             h[s] = IF s = {} THEN 0
                    ELSE f[CHOOSE x \in s : TRUE] + h[s \ {CHOOSE x \in s : TRUE}]
      BY <1>4 DEF Sums
    <2>2. B = {}
      <3> SUFFICES ASSUME B # {} PROVE FALSE
        OBVIOUS
      <3>1. PICK n \in B : \A k \in B : ~(k < n)
        <4>1. B \in SUBSET Nat
          OBVIOUS
        <4> HIDE DEF B
        <4> QED
          BY <4>1, LeastNatural
      <3>2. PICK s \in SUBSET T : Cardinality(s) = n /\ h[s] # g[s]
        BY <3>1
      <3>3. s # {}
        BY <1>3, <2>1, <3>2
      <3> DEFINE r == s \ {CHOOSE x \in s : TRUE}
      <3>4. r \in SUBSET T /\ Cardinality(r) \in Nat /\ Cardinality(r) < n
        BY <3>1, <3>2, <3>3, WithoutChosen
      <3>5. h[r] = g[r]
        BY <3>1, <3>4
      <3> QED
        BY <1>3, <2>1, <3>2, <3>3, <3>5
    <2>3. IsFiniteSet(T) /\ Cardinality(T) \in Nat
      BY FS_Subset, FS_CardinalityType
    <2> QED
      BY <2>2, <2>3
  <1>5. ASSUME S # {}
        PROVE  SumFunctionOnSet(f, S \ {CHOOSE x \in S : TRUE})
                   = g[S \ {CHOOSE x \in S : TRUE}]
    <2> DEFINE T == S \ {CHOOSE x \in S : TRUE}
    <2>1. IsFiniteSet(T) /\ T \in SUBSET S
      BY FS_Subset
    <2> HIDE DEF T
    <2>2. PICK h : Sums(T, f, h) /\ SumFunctionOnSet(f, T) = h[T]
      BY <2>1, SumsExist, SumIsASum
    <2>3. SumFunctionOnSet(f, T) = g[T]
      BY <1>4, <2>1, <2>2
    <2> QED
      BY <2>3 DEF T
  <1> QED
    BY <1>1, <1>2, <1>3, <1>5

-----------------------------------------------------------------------------
(* Types *)

\* What keeps the steps a crash undoes natural: a run that was billed has done
\* some work.
BilledHasWorked == \A t \in Uncheckpointed : work[t] >= 1

LEMMA SumsAreNat ==
    ASSUME TypeOK
    PROVE  RowsToday \in Nat /\ LiveSpend \in Nat
  <1>1. RowsToday \in Nat
    <2> DEFINE T == {t \in Tasks : dated[t] = "today"}
    <2>1. \A t \in T : cost[t] \in Nat
      BY DEF TypeOK
    <2>2. T \subseteq Spenders
      BY DEF Spenders
    <2> HIDE DEF T
    <2>3. IsFiniteSet(T)
      BY <2>2, FinitenessAssumption, FS_Subset
    <2>4. SumFunctionOnSet(cost, T) \in Nat
      BY <2>1, <2>3, SumIsNat
    <2> QED
      BY <2>4 DEF T, RowsToday
  <1>2. LiveSpend \in Nat
    <2> DEFINE f == [p \in Spenders |-> Unpersisted(p)]
    <2>1. IsFiniteSet(live)
      BY FinitenessAssumption, FS_Subset DEF TypeOK
    <2>2. ASSUME NEW p \in Spenders PROVE Unpersisted(p) \in Nat
      BY DEF TypeOK, Unpersisted
    <2>3. \A p \in live : f[p] \in Nat
      BY <2>2 DEF TypeOK
    <2> HIDE DEF f
    <2>4. SumFunctionOnSet(f, live) \in Nat
      BY <2>1, <2>3, SumIsNat
    <2> QED
      BY <2>4 DEF f, LiveSpend
  <1> QED
    BY <1>1, <1>2


\* The steps of one run, and the launch.
LEMMA RunTyped ==
    ASSUME TypeOK, BilledHasWorked, NEW t \in Tasks,
           \/ RunStep(t) \/ Fail(t) \/ FlushFails(t) \/ UsageWriteFails(t)
           \/ GateLaunches(t),
           ~ReadChat(t)
    PROVE  (TypeOK /\ BilledHasWorked)'
  <1>0. t \in Checkers /\ t \in Spenders /\ t # Gate
    BY SpendersAssumption DEF Checkers, Spenders
  <1>1. CASE Track(t)
    <2>1. /\ work'[t] \in 0..Work /\ tracker'[t] \in [spent: Nat, persisted: Nat]
      <3>1. work[t] \in 0..Work /\ cost[t] \in Nat /\ billed[t] \in Nat
            /\ 0 \in 0..Work
        BY AmountsAssumption DEF TypeOK
      <3>2. tracker'[t] \in {Carried(t), NoCost} /\ work'[t] \in {0, work[t]}
        BY <1>0, <1>1 DEF Track, TypeOK
      <3> QED
        BY <3>1, <3>2 DEF Carried, NoCost
    <2> QED
      BY <1>0, <1>1, <2>1 DEF Track, Goto, TypeOK, BilledHasWorked,
         Uncheckpointed, TaskControl
  <1>2. CASE Respond(t)
    <2>1. PICK u \in Usages, m \in Models :
             /\ tracker' = [tracker EXCEPT ![t].spent = @ + Cost(u, m)]
             /\ billed' = [billed EXCEPT ![t] = @ + Cost(u, m)]
             /\ today' = today + Cost(u, m)
      BY <1>2 DEF Respond, Charge
    <2>2. Cost(u, m) \in Nat
      BY AmountsAssumption
    <2> DEFINE c == Cost(u, m)
    <2>3. c \in Nat /\ tracker' = [tracker EXCEPT ![t].spent = @ + c]
          /\ billed' = [billed EXCEPT ![t] = @ + c] /\ today' = today + c
      BY <2>1, <2>2
    <2> HIDE DEF c
    <2>4. /\ tracker' \in [Spenders -> [spent: Nat, persisted: Nat]]
          /\ billed' \in [Tasks -> Nat] /\ today' \in Nat
      BY <1>0, <2>3 DEF TypeOK
    <2>6. work' \in [Tasks -> 0..Work] /\ pc' \in [Checkers -> TaskControl]
          /\ BilledHasWorked'
      BY <1>0, <1>2, AmountsAssumption DEF TypeOK, BilledHasWorked, Respond, Goto,
         Uncheckpointed, TaskControl
    <2> QED
      BY <1>2, <2>4, <2>6 DEF TypeOK, Respond
  <1>3. CASE BeginFlush(t) \/ WriteUsage(t)
    <2>1. /\ pc' \in {[pc EXCEPT ![t] = "flushing"], [pc EXCEPT ![t] = "closing"]}
          /\ pc[t] \in {"billed", "ending"}
          /\ pc'[t] = "flushing" => pc[t] = "billed"
          /\ cost' = [cost EXCEPT ![t] = tracker[t].spent]
          /\ UNCHANGED <<status, dated, chat, tracker, live, thread, work, check,
                         outcome, billed, lost, today, turns, crashes>>
      BY <1>0, <1>3 DEF BeginFlush, WriteUsage, Goto, progress, TypeOK
    <2>2. pc' \in [Checkers -> TaskControl] /\ cost' \in [Tasks -> Nat]
      BY <1>0, <2>1 DEF TypeOK, TaskControl
    <2>3. TypeOK'
      BY <2>1, <2>2 DEF TypeOK
    <2>5. BilledHasWorked'
      BY <2>1 DEF TypeOK, BilledHasWorked, Uncheckpointed, Checkers, Spenders
    <2> QED
      BY <2>3, <2>5
  <1>4. CASE EndFlush(t)
    BY <1>0, <1>4 DEF EndFlush, Persisted, Goto, TypeOK, Spenders,
       BilledHasWorked, Uncheckpointed, TaskControl, progress
  <1>5. CASE StopAtTaskBudget(t) \/ Park(t) \/ Finish(t) \/ Fail(t)
    <2>1. PICK o \in {"completed", "failed", "parked"} :
              /\ pc' = [pc EXCEPT ![t] = "ending"]
              /\ outcome' = [outcome EXCEPT ![t] = o]
      BY <1>5 DEF StopAtTaskBudget, Park, Finish, Fail, EndRun, Goto
    <2>2. check' \in {check, [check EXCEPT ![t] = NoCheck]}
      BY <1>5 DEF StopAtTaskBudget, Park, Finish, Fail, EndCheck
    <2>3. UNCHANGED <<status, ledger, progress, turns, crashes>>
      BY <1>5 DEF StopAtTaskBudget, Park, Finish, Fail
    <2> QED
      BY <1>0, <2>1, <2>2, <2>3 DEF TypeOK, BilledHasWorked,
         Uncheckpointed, TaskControl, NoCheck, Days, ledger, progress
  <1>6. CASE CheckDay(t)
    BY <1>0, <1>6, SumsAreNat DEF CheckDay, BeginCheck, Goto, TypeOK,
       BilledHasWorked, Uncheckpointed, TaskControl, Days, ledger,
       progress
  <1>7. CASE Continue(t)
    BY <1>0, <1>7 DEF Continue, EndCheck, Goto, NoCheck, Days, TypeOK,
       BilledHasWorked, Uncheckpointed, TaskControl, ledger,
       progress
  <1>10. CASE GateLaunches(t)
    <2>1. /\ pc' = [pc EXCEPT ![Gate] = "idle", ![t] = "starting"]
          /\ check' = [check EXCEPT ![Gate] = NoCheck]
          /\ status' = [status EXCEPT ![t] = "running"]
          /\ dated' = [dated EXCEPT ![t] = "today"]
          /\ UNCHANGED <<cost, chat, tracker, live, thread, work, outcome, billed,
                         lost, today, turns, crashes>>
      BY <1>10 DEF GateLaunches, EndCheck, progress
    <2>2. /\ pc' \in [Checkers -> TaskControl]
          /\ check' \in [Checkers -> [since: Days, sum: Nat]]
          /\ \A u \in Tasks : pc'[u] \in {pc[u], "idle", "starting"}
      BY <1>0, <2>1 DEF TypeOK, TaskControl, NoCheck, Days, Checkers, Spenders
    <2>3. TypeOK'
      BY <2>1, <2>2 DEF TypeOK
    <2>5. BilledHasWorked'
      BY <2>1, <2>2 DEF BilledHasWorked, Uncheckpointed
    <2> QED
      BY <2>3, <2>5
  <1>8. CASE Close(t)
    BY <1>0, <1>8 DEF Close, Persisted, RowStatusOf, Goto, TypeOK, BilledHasWorked, Uncheckpointed, TaskControl, progress, Spenders
  <1>9. CASE Leave(t)
    <2>1. /\ pc' = [pc EXCEPT ![t] = "idle"]
          /\ tracker' = [tracker EXCEPT ![t] = NoCost] /\ live' = live \ {t}
          /\ thread' \subseteq thread /\ work' \in {work, [work EXCEPT ![t] = 0]}
          /\ outcome' = [outcome EXCEPT ![t] = "completed"]
          /\ lost' = [lost EXCEPT ![t] = @ + Shortfall(t)]
          /\ UNCHANGED <<status, cost, dated, chat, check, billed, today, turns,
                         crashes>>
      BY <1>9 DEF Leave, Untrack, Goto, TypeOK
    <2>4. lost' \in [Tasks -> Nat]
      BY <1>0, <2>1 DEF TypeOK, Shortfall
    <2>2. /\ pc' \in [Checkers -> TaskControl] /\ work' \in [Tasks -> 0..Work]
          /\ tracker' \in [Spenders -> [spent: Nat, persisted: Nat]]
      BY <1>0, <2>1, AmountsAssumption DEF TypeOK, TaskControl, NoCost
    <2>3. TypeOK'
      BY <2>1, <2>2, <2>4 DEF TypeOK
    <2>5. BilledHasWorked'
      BY <2>1 DEF TypeOK, BilledHasWorked, Uncheckpointed, Checkers, Spenders
    <2> QED
      BY <2>3, <2>5
  <1>11. CASE FlushFails(t) \/ UsageWriteFails(t)
    <2>1. /\ pc' \in {[pc EXCEPT ![t] = "flushed"], [pc EXCEPT ![t] = "unsaved"]}
          /\ pc'[t] = "flushed" => pc[t] = "billed"
          /\ status' \in [Tasks -> {"queued", "running", "ended"}]
          /\ UNCHANGED <<ledger, thread, work, check, outcome, turns, crashes>>
      BY <1>0, <1>11 DEF FlushFails, UsageWriteFails, RowStatusOf, Goto, progress, TypeOK
    <2>2. pc' \in [Checkers -> TaskControl]
      BY <1>0, <2>1 DEF TypeOK, TaskControl
    <2>3. TypeOK'
      BY <2>1, <2>2 DEF TypeOK, ledger
    <2>4. BilledHasWorked'
      BY <1>0, <2>1 DEF TypeOK, BilledHasWorked, Uncheckpointed, Checkers, Spenders
    <2> QED
      BY <2>3, <2>4
  <1> QED
    BY <1>1, <1>2, <1>3, <1>4, <1>5, <1>6, <1>7, <1>8, <1>9, <1>10, <1>11 DEF RunStep

\* The checks of everybody, the turns and the gate.
LEMMA OthersTyped ==
    ASSUME TypeOK, BilledHasWorked,
           \/ GateChecks \/ GateRefuses \/ \E p \in Checkers : ReadChat(p)
           \/ \E s \in Sessions : TurnStep(s) \/ Ask(s) \/ Reply(s) \/ RecordFails(s)
    PROVE  (TypeOK /\ BilledHasWorked)'
  <1>1. ASSUME NEW p \in Checkers, ReadChat(p)
        PROVE  (TypeOK /\ BilledHasWorked)'
    <2>1. ChatSince(check[p].since) \in Nat /\ check[p].sum \in Nat
      BY DEF ChatSince, TypeOK, Days
    <2>2. check' \in [Checkers -> [since: Days, sum: Nat]]
      BY <1>1, <2>1 DEF ReadChat, TypeOK
    <2> QED
      BY <1>1, <2>2 DEF ReadChat, Goto, TypeOK, BilledHasWorked,
         Uncheckpointed, TaskControl, ledger, progress
  <1>2. ASSUME GateChecks \/ GateRefuses
        PROVE  (TypeOK /\ BilledHasWorked)'
    BY <1>2, SumsAreNat, SpendersAssumption
       DEF GateChecks, GateRefuses, BeginCheck, EndCheck, NoCheck, Days, Goto, TypeOK,
           BilledHasWorked, Uncheckpointed, TaskControl, ledger,
           progress, Checkers, Spenders
  <1>3. ASSUME NEW s \in Sessions, Ask(s) \/ Admit(s) \/ TurnAway(s) \/ ContinueTurn(s)
                                   \/ EndTurn(s)
        PROVE  (TypeOK /\ BilledHasWorked)'
    <2>0. s \in Checkers /\ s \in Spenders /\ s \notin Tasks
      BY SpendersAssumption DEF Checkers, Spenders
    <2>1. PICK c \in {"idle", "thinking", "ending", "rows"} : pc' = [pc EXCEPT ![s] = c]
      BY <1>3 DEF Ask, Admit, TurnAway, ContinueTurn, EndTurn, BeginCheck, Goto
    <2>2. \E k \in [since: Days, sum: Nat] : check' \in {check, [check EXCEPT ![s] = k]}
      <3>1. NoCheck \in [since: Days, sum: Nat]
            /\ [since |-> "today", sum |-> RowsToday] \in [since: Days, sum: Nat]
        BY SumsAreNat DEF NoCheck, Days
      <3> QED
        BY <1>3, <3>1 DEF Ask, Admit, TurnAway, ContinueTurn, EndTurn, BeginCheck,
           EndCheck
    <2>3. /\ UNCHANGED <<status, cost, dated, chat, tracker, thread, work, outcome,
                         billed, lost, today, crashes>>
          /\ live' \in {live, live \cup {s}} /\ turns' \in 0..MaxTurns
      BY <1>3, AmountsAssumption DEF Ask, Admit, TurnAway, ContinueTurn, EndTurn, TypeOK,
         ledger, progress
    <2>4. check' \in [Checkers -> [since: Days, sum: Nat]]
      BY <2>0, <2>2 DEF TypeOK
    <2> QED
      <3>1. TypeOK'
        BY <2>0, <2>1, <2>3, <2>4 DEF TypeOK, TaskControl
      <3>2. BilledHasWorked'
        BY <2>0, <2>1, <2>3 DEF TypeOK, BilledHasWorked, Uncheckpointed
      <3> QED
        BY <3>1, <3>2
  <1>4. ASSUME NEW s \in Sessions, Reply(s)
        PROVE  (TypeOK /\ BilledHasWorked)'
    <2>0. s \in Checkers /\ s \in Spenders /\ s \notin Tasks
      BY SpendersAssumption DEF Checkers, Spenders
    <2>1. PICK c \in Nat : /\ tracker' = [tracker EXCEPT ![s].spent = @ + c]
                           /\ today' = today + c
      BY <1>4, AmountsAssumption DEF Reply, Charge
    <2>2. /\ tracker' \in [Spenders -> [spent: Nat, persisted: Nat]] /\ today' \in Nat
          /\ \A t \in Tasks : tracker'[t] = tracker[t]
      BY <2>0, <2>1 DEF TypeOK, Spenders
    <2> QED
      BY <1>4, <2>0, <2>2, SumsAreNat DEF Reply, BeginCheck, Goto, Days, TypeOK,
         BilledHasWorked, Uncheckpointed, TaskControl, progress
  <1>5. ASSUME NEW s \in Sessions, RecordSpend(s) \/ RecordFails(s)
        PROVE  (TypeOK /\ BilledHasWorked)'
    <2>0. s \in Checkers /\ s \in Spenders /\ s \notin Tasks
      BY SpendersAssumption DEF Checkers, Spenders
    <2> QED
      <3>1. CASE RecordSpend(s)
        BY <2>0, <3>1 DEF RecordSpend, Goto, Days, TypeOK, BilledHasWorked,
           Uncheckpointed, TaskControl, progress
      <3>2. CASE RecordFails(s)
        BY <2>0, <3>2 DEF RecordFails, Goto, TypeOK, BilledHasWorked, Uncheckpointed,
           TaskControl, ledger, progress
      <3> QED
        BY <1>5, <3>1, <3>2
  <1>6. ASSUME NEW s \in Sessions, CloseTurn(s)
        PROVE  (TypeOK /\ BilledHasWorked)'
    <2>0. s \in Checkers /\ s \in Spenders /\ s \notin Tasks
      BY SpendersAssumption DEF Checkers, Spenders
    <2> QED
      BY <1>6, <2>0 DEF CloseTurn, Untrack, NoCost, Goto, TypeOK, BilledHasWorked, Uncheckpointed, TaskControl, progress, Spenders
  <1> QED
    BY <1>1, <1>2, <1>3, <1>4, <1>5, <1>6 DEF TurnStep, Checkers, Spenders

LEMMA CrashTyped ==
    ASSUME TypeOK, BilledHasWorked, Crash
    PROVE  (TypeOK /\ BilledHasWorked)'
  <1>1. PICK redone \in SUBSET Uncheckpointed :
           work' = [t \in Tasks |-> IF t \in redone THEN work[t] - 1 ELSE work[t]]
    BY DEF Crash
  <1>2. work' \in [Tasks -> 0..Work]
    BY <1>1, AmountsAssumption DEF TypeOK, BilledHasWorked
  <1>3. lost' \in [Tasks -> Nat]
    BY DEF Crash, TypeOK, Shortfall, Spenders
  <1>4. crashes' \in 0..MaxCrashes
    BY AmountsAssumption DEF Crash, TypeOK
  <1>5. /\ tracker' = [p \in Spenders |-> NoCost] /\ pc' = [p \in Checkers |-> "idle"]
        /\ status' \in [Tasks -> {"queued", "running", "ended"}]
        /\ check' = [p \in Checkers |-> NoCheck] /\ live' = {}
        /\ outcome' \in [Tasks -> {"completed", "failed", "parked"}]
        /\ UNCHANGED <<cost, dated, chat, thread, billed, today, turns>>
    BY DEF Crash, TypeOK
  <1>7. BilledHasWorked'
    BY <1>5 DEF BilledHasWorked, Uncheckpointed, Checkers, Spenders
  <1> QED
    BY <1>2, <1>3, <1>4, <1>5, <1>7 DEF TypeOK, NoCost, NoCheck, Days, TaskControl

(* Every amount stays a natural number (TypeOK): the sums of a check, what a *)
(* crash or a failed write writes off, and the responses a crash makes the   *)
(* agent ask for again, since a run that was billed has done some work.      *)
THEOREM SpendTypeCorrect == Spec => []TypeOK
  <1>1. Init => TypeOK /\ BilledHasWorked
    <2> SUFFICES ASSUME Init PROVE TypeOK /\ BilledHasWorked
      OBVIOUS
    <2>1. TypeOK
      BY AmountsAssumption DEF Init, TypeOK, Zero, NoCost, NoCheck, Days, TaskControl
    <2> QED
      BY <2>1 DEF Init, BilledHasWorked, Uncheckpointed, Zero, NoCost,
         Checkers, Spenders
  <1>2. TypeOK /\ BilledHasWorked /\ [Next]_vars
          => (TypeOK /\ BilledHasWorked)'
    <2> SUFFICES ASSUME TypeOK, BilledHasWorked, [Next]_vars
                 PROVE  (TypeOK /\ BilledHasWorked)'
      OBVIOUS
    <2>1. ASSUME NEW t \in Tasks,
                 RunStep(t) \/ Fail(t) \/ FlushFails(t) \/ UsageWriteFails(t)
          PROVE  (TypeOK /\ BilledHasWorked)'
      BY <2>1, RunTyped, OthersTyped DEF Checkers, Spenders
    <2>2. ASSUME NEW s \in Sessions, TurnStep(s) \/ Ask(s) \/ Reply(s) \/ RecordFails(s)
          PROVE  (TypeOK /\ BilledHasWorked)'
      BY <2>2, OthersTyped
    <2>3. ASSUME GateStep PROVE (TypeOK /\ BilledHasWorked)'
      <3>1. ASSUME NEW t \in Tasks, GateLaunches(t) PROVE ~ReadChat(t)
        BY <3>1, SpendersAssumption DEF GateLaunches, Launchable, ReadChat, Spenders
      <3> QED
        BY <2>3, <3>1, RunTyped, OthersTyped DEF GateStep, Checkers
    <2>4. ASSUME Midnight PROVE (TypeOK /\ BilledHasWorked)'
      BY <2>4 DEF Midnight, TypeOK, BilledHasWorked, Uncheckpointed,
         Days, progress
    <2>5. ASSUME UNCHANGED vars PROVE (TypeOK /\ BilledHasWorked)'
      BY <2>5 DEF vars, TypeOK, BilledHasWorked, Uncheckpointed
    <2> QED
      BY <2>1, <2>2, <2>3, <2>4, <2>5, CrashTyped DEF Next
  <1> QED
    BY <1>1, <1>2, PTL DEF Spec
-----------------------------------------------------------------------------
(* What a budget check would see if it read its three sums at one moment.    *)

\* Any element's share can be taken out of a sum first.
LEMMA SumTakesOut ==
    ASSUME NEW S, IsFiniteSet(S), NEW f, \A y \in S : f[y] \in Nat, NEW x \in S
    PROVE  SumFunctionOnSet(f, S) = f[x] + SumFunctionOnSet(f, S \ {x})
  <1> DEFINE Wrong(s) == \E y \in s : SumFunctionOnSet(f, s)
                                         # f[y] + SumFunctionOnSet(f, s \ {y})
             B == {n \in Nat : \E s \in SUBSET S : Cardinality(s) = n /\ Wrong(s)}
  <1>1. B = {}
    <2> SUFFICES ASSUME B # {} PROVE FALSE
      OBVIOUS
    <2>1. PICK n \in B : \A k \in B : ~(k < n)
      <3>1. B \in SUBSET Nat
        OBVIOUS
      <3> HIDE DEF B
      <3> QED
        BY <3>1, LeastNatural
    <2>2. PICK s \in SUBSET S : Cardinality(s) = n /\ Wrong(s)
      BY <2>1
    <2>3. PICK y \in s : SumFunctionOnSet(f, s) # f[y] + SumFunctionOnSet(f, s \ {y})
      BY <2>2
    <2>4. PICK c \in s : SumFunctionOnSet(f, s) = f[c] + SumFunctionOnSet(f, s \ {c})
      <3>1. IsFiniteSet(s) /\ s # {}
        BY <2>3, FS_Subset
      <3> QED
        BY <3>1, SumUnfolds
    <2>5. c # y
      BY <2>3, <2>4
    <2>6. ASSUME NEW z \in s
          PROVE  /\ s \ {z} \in SUBSET S /\ Cardinality(s \ {z}) \in Nat
                 /\ Cardinality(s \ {z}) < n
      BY FS_Subset, FS_RemoveElement, FS_CardinalityType, <2>1, <2>2, <2>6
    <2>7. ASSUME NEW z \in s PROVE ~Wrong(s \ {z})
      <3>1. Cardinality(s \ {z}) \notin B
        BY <2>1, <2>6
      <3> HIDE DEF Wrong
      <3> QED
        BY <2>6, <3>1
    <2>8. SumFunctionOnSet(f, s \ {c}) = f[y] + SumFunctionOnSet(f, (s \ {c}) \ {y})
      BY <2>5, <2>7
    <2>9. SumFunctionOnSet(f, s \ {y}) = f[c] + SumFunctionOnSet(f, (s \ {y}) \ {c})
      BY <2>5, <2>7
    <2>10. SumFunctionOnSet(f, s \ {c}) = f[y] + SumFunctionOnSet(f, (s \ {y}) \ {c})
      <3>1. (s \ {c}) \ {y} = (s \ {y}) \ {c}
        OBVIOUS
      <3> QED
        BY <2>8, <3>1, Zenon
    <2>11. /\ f[c] \in Nat /\ f[y] \in Nat
           /\ SumFunctionOnSet(f, (s \ {y}) \ {c}) \in Nat
      <3>1. IsFiniteSet((s \ {y}) \ {c}) /\ \A z \in (s \ {y}) \ {c} : f[z] \in Nat
        BY FS_Subset
      <3> QED
        BY <3>1, SumIsNat
    <2> QED
      BY <2>3, <2>4, <2>9, <2>10, <2>11
  <1>2. Cardinality(S) \in Nat
    BY FS_CardinalityType
  <1>3. ~Wrong(S)
    <2> HIDE DEF Wrong
    <2> QED
      BY <1>1, <1>2
  <1> QED
    BY <1>3

\* The terms decide the sum, whatever the functions are elsewhere.
LEMMA SumsAgree ==
    ASSUME NEW S, IsFiniteSet(S), NEW f, NEW g, \A y \in S : f[y] = g[y]
    PROVE  SumFunctionOnSet(f, S) = SumFunctionOnSet(g, S)
  <1> DEFINE Differ(s) == SumFunctionOnSet(f, s) # SumFunctionOnSet(g, s)
             B == {n \in Nat : \E s \in SUBSET S : Cardinality(s) = n /\ Differ(s)}
  <1>1. B = {}
    <2> SUFFICES ASSUME B # {} PROVE FALSE
      OBVIOUS
    <2>1. PICK n \in B : \A k \in B : ~(k < n)
      <3>1. B \in SUBSET Nat
        OBVIOUS
      <3> HIDE DEF B
      <3> QED
        BY <3>1, LeastNatural
    <2>2. PICK s \in SUBSET S : Cardinality(s) = n /\ Differ(s)
      BY <2>1
    <2>3. IsFiniteSet(s)
      BY FS_Subset
    <2>4. s # {}
      BY <2>2, <2>3, SumUnfolds
    <2> DEFINE c == CHOOSE x \in s : TRUE
    <2>5. /\ SumFunctionOnSet(f, s) = f[c] + SumFunctionOnSet(f, s \ {c})
          /\ SumFunctionOnSet(g, s) = g[c] + SumFunctionOnSet(g, s \ {c})
      BY <2>3, <2>4, SumUnfolds
    <2>6. /\ c \in S /\ s \ {c} \in SUBSET S
          /\ Cardinality(s \ {c}) \in Nat /\ Cardinality(s \ {c}) < n
      BY <2>1, <2>2, <2>4, WithoutChosen
    <2>7. ~Differ(s \ {c})
      <3> HIDE DEF c, Differ
      <3> QED
        BY <2>1, <2>6
    <2> QED
      BY <2>2, <2>5, <2>6, <2>7
  <1>2. Cardinality(S) \in Nat
    BY FS_CardinalityType
  <1>3. ~Differ(S)
    <2> HIDE DEF Differ
    <2> QED
      BY <1>1, <1>2
  <1> QED
    BY <1>3

\* A change of one term changes the sum by as much.
OneTermMoves(f, g, S, x) ==
    \A y \in S : f[y] \in Nat /\ g[y] \in Nat /\ (y # x => g[y] = f[y])

LEMMA SumFollowsTerm ==
    ASSUME NEW S, IsFiniteSet(S), NEW f, NEW g, NEW x \in S, OneTermMoves(f, g, S, x)
    PROVE  SumFunctionOnSet(g, S) = SumFunctionOnSet(f, S) - f[x] + g[x]
  <1> DEFINE r == S \ {x}
  <1>0. \A y \in S : f[y] \in Nat /\ g[y] \in Nat /\ (y # x => g[y] = f[y])
    BY DEF OneTermMoves
  <1>1. IsFiniteSet(r)
    BY FS_Subset
  <1>2. SumFunctionOnSet(g, S) = g[x] + SumFunctionOnSet(g, r)
    BY <1>0, SumTakesOut
  <1>3. SumFunctionOnSet(f, S) = f[x] + SumFunctionOnSet(f, r)
    BY <1>0, SumTakesOut
  <1>4. SumFunctionOnSet(g, r) = SumFunctionOnSet(f, r)
    BY <1>0, <1>1, SumsAgree
  <1>5. SumFunctionOnSet(f, r) \in Nat
    BY <1>0, <1>1, SumIsNat
  <1> QED
    BY <1>0, <1>2, <1>3, <1>4, <1>5

\* Two sums over parts of a set cover one whose terms they cover.
Share(f, S, x) == IF x \in S THEN f[x] ELSE 0

LEMMA SumsCover ==
    ASSUME NEW T, IsFiniteSet(T), NEW A \in SUBSET T, NEW C \in SUBSET T,
           NEW e, NEW f, NEW g,
           \A x \in T : e[x] \in Nat /\ f[x] \in Nat /\ g[x] \in Nat,
           \A x \in T : e[x] <= Share(f, A, x) + Share(g, C, x)
    PROVE  SumFunctionOnSet(e, T) <= SumFunctionOnSet(f, A) + SumFunctionOnSet(g, C)
  <1> DEFINE Covered(s) == SumFunctionOnSet(e, s) <= SumFunctionOnSet(f, s \cap A)
                                                     + SumFunctionOnSet(g, s \cap C)
             B == {n \in Nat : \E s \in SUBSET T : Cardinality(s) = n /\ ~Covered(s)}
  <1>0. ASSUME NEW s \in SUBSET T, NEW D \in SUBSET T, NEW h, NEW x \in s,
               \A y \in T : h[y] \in Nat
        PROVE  /\ SumFunctionOnSet(h, s \cap D)
                     = Share(h, D, x) + SumFunctionOnSet(h, (s \ {x}) \cap D)
               /\ SumFunctionOnSet(h, (s \ {x}) \cap D) \in Nat
    <2>1. IsFiniteSet(s \cap D) /\ \A y \in s \cap D : h[y] \in Nat
      BY <1>0, FS_Subset
    <2>2. IsFiniteSet((s \ {x}) \cap D) /\ \A y \in (s \ {x}) \cap D : h[y] \in Nat
      BY <1>0, FS_Subset
    <2>3. SumFunctionOnSet(h, (s \ {x}) \cap D) \in Nat
      BY <2>2, SumIsNat
    <2>4. CASE x \in D
      <3>1. (s \cap D) \ {x} = (s \ {x}) \cap D /\ x \in s \cap D
        BY <2>4
      <3>2. SumFunctionOnSet(h, s \cap D) = h[x] + SumFunctionOnSet(h, (s \cap D) \ {x})
        BY <2>1, <3>1, SumTakesOut
      <3> QED
        BY <2>3, <2>4, <3>1, <3>2 DEF Share
    <2>5. CASE x \notin D
      <3>1. s \cap D = (s \ {x}) \cap D
        BY <2>5
      <3> QED
        BY <2>3, <2>5, <3>1 DEF Share
    <2> QED
      BY <2>4, <2>5
  <1>1. B = {}
    <2> SUFFICES ASSUME B # {} PROVE FALSE
      OBVIOUS
    <2>1. PICK n \in B : \A k \in B : ~(k < n)
      <3>1. B \in SUBSET Nat
        OBVIOUS
      <3> HIDE DEF B
      <3> QED
        BY <3>1, LeastNatural
    <2>2. PICK s \in SUBSET T : Cardinality(s) = n /\ ~Covered(s)
      BY <2>1
    <2>3. s # {}
      <3> SUFFICES ASSUME s = {} PROVE FALSE
        OBVIOUS
      <3>1. \A h : SumFunctionOnSet(h, {}) = 0
        BY FS_EmptySet, SumUnfolds
      <3>2. s \cap A = {} /\ s \cap C = {}
        OBVIOUS
      <3> QED
        BY <2>2, <3>1, <3>2
    <2>4. PICK x : x \in s
      BY <2>3
    <2> DEFINE r == s \ {x}
    <2>5. r \in SUBSET T /\ Cardinality(r) \in Nat /\ Cardinality(r) < n
      BY FS_Subset, FS_RemoveElement, FS_CardinalityType, <2>1, <2>2, <2>4
    <2>6. Covered(r)
      <3> HIDE DEF Covered, r
      <3> QED
        BY <2>1, <2>5
    <2>7. /\ SumFunctionOnSet(f, s \cap A) = Share(f, A, x) + SumFunctionOnSet(f, r \cap A)
          /\ SumFunctionOnSet(f, r \cap A) \in Nat
      BY <1>0, <2>4
    <2>8. /\ SumFunctionOnSet(g, s \cap C) = Share(g, C, x) + SumFunctionOnSet(g, r \cap C)
          /\ SumFunctionOnSet(g, r \cap C) \in Nat
      BY <1>0, <2>4
    <2>9. SumFunctionOnSet(e, s) = e[x] + SumFunctionOnSet(e, r)
          /\ SumFunctionOnSet(e, r) \in Nat
      <3>1. IsFiniteSet(s) /\ \A y \in s : e[y] \in Nat
        BY FS_Subset
      <3>2. IsFiniteSet(r) /\ \A y \in r : e[y] \in Nat
        BY FS_Subset
      <3>3. SumFunctionOnSet(e, r) \in Nat
        <4> HIDE DEF r
        <4> QED
          BY <3>2, SumIsNat
      <3> QED
        BY <2>4, <3>1, <3>3, SumTakesOut
    <2>10. /\ e[x] \in Nat /\ Share(f, A, x) \in Nat /\ Share(g, C, x) \in Nat
           /\ e[x] <= Share(f, A, x) + Share(g, C, x)
      BY <2>4 DEF Share
    <2> HIDE DEF r
    <2> QED
      BY <2>2, <2>6, <2>7, <2>8, <2>9, <2>10
  <1>2. Cardinality(T) \in Nat
    BY FS_CardinalityType
  <1>3. Covered(T)
    <2> HIDE DEF Covered
    <2> QED
      BY <1>1, <1>2
  <1>4. T \cap A = A /\ T \cap C = C
    OBVIOUS
  <1> QED
    BY <1>3, <1>4

\* What of today's charges a spender's row or tracker still has to show.
Account == [p \in Spenders |-> IF p \in Tasks THEN billed[p]
                               ELSE IF pc[p] = "closing" THEN 0 ELSE tracker[p].spent]

\* The day's charges are those of the tasks, of recorded turns and of turns in
\* flight; a task that was charged is dated today.
DayInv ==
    /\ LedgerInv
    /\ TypeOK
    /\ today = chat["today"] + SumFunctionOnSet(Account, Spenders)
    /\ \A t \in Tasks : /\ lost[t] = 0 /\ pc[t] # "unsaved"
                        /\ billed[t] > 0 \/ pc[t] # "idle" => dated[t] = "today"
    /\ \A s \in Sessions : /\ tracker[s].persisted = 0
                           /\ s \notin live => tracker[s].spent = 0
                           /\ pc[s] \in {"thinking", "ending", "closing"} => s \in live

\* No midnight moves a charge to an earlier day, and no crash and no failed write
\* keeps one from the rows.
NothingIsHidden == Environment \cap {"midnight", "crash", "dberror"} = {}

SnapshotCovers == today <= RowsToday + chat["today"] + LiveSpend

\* A task's charges are in its row or in its tracker, a turn's in its tracker.
LEMMA DayInvCovers ==
    ASSUME DayInv, Revisions = {}
    PROVE  SnapshotCovers
  <1> DEFINE T == {t \in Tasks : dated[t] = "today"}
             f == [p \in Spenders |-> IF p \in Tasks THEN cost[p] ELSE 0]
             g == [p \in Spenders |-> Unpersisted(p)]
  <1>1. /\ \A p \in Spenders : Account[p] \in Nat /\ f[p] \in Nat /\ g[p] \in Nat
        /\ T \in SUBSET Spenders /\ live \in SUBSET Spenders
    BY DEF DayInv, TypeOK, Account, Unpersisted, Spenders
  <1>2. ASSUME NEW p \in Spenders
        PROVE  Account[p] <= Share(f, T, p) + Share(g, live, p)
    <2>1. CASE p \in Tasks
      <3>1. /\ LedgerPart(p) /\ lost[p] = 0 /\ p \in Checkers
            /\ cost[p] \in Nat /\ billed[p] \in Nat
            /\ tracker[p].spent \in Nat /\ tracker[p].persisted \in Nat
            /\ billed[p] > 0 \/ pc[p] # "idle" => dated[p] = "today"
        BY <2>1 DEF DayInv, LedgerInv, TypeOK, Spenders, Checkers
      <3>2. /\ Account[p] = billed[p] /\ f[p] = cost[p]
            /\ g[p] = IF tracker[p].spent - tracker[p].persisted >= 0
                      THEN tracker[p].spent - tracker[p].persisted ELSE 0
        BY <2>1 DEF Account, Unpersisted
      <3>3. p \in T <=> dated[p] = "today"
        BY <2>1
      <3> HIDE DEF f, g, T
      <3>4. CASE p \in live
        <4>1. /\ billed[p] = tracker[p].spent /\ tracker[p].persisted <= cost[p]
              /\ cost[p] <= tracker[p].spent /\ dated[p] = "today"
          BY <3>1, <3>4 DEF LedgerPart, LedgerOfLive
        <4> QED
          BY <3>1, <3>2, <3>3, <3>4, <4>1 DEF Share
      <3>5. CASE p \notin live
        <4>1. cost[p] = billed[p]
          BY <3>1, <3>5 DEF LedgerPart
        <4> QED
          BY <3>1, <3>2, <3>3, <3>5, <4>1 DEF Share
      <3> QED
        BY <3>4, <3>5
    <2>2. CASE p \in Sessions
      <3>1. /\ tracker[p].spent \in Nat /\ tracker[p].persisted = 0
            /\ p \notin live => tracker[p].spent = 0
        BY <2>2 DEF DayInv, TypeOK, Spenders
      <3>2. p \notin T /\ Account[p] \in {0, tracker[p].spent}
        BY <2>2, SpendersAssumption DEF Account
      <3>3. g[p] = tracker[p].spent
        BY <3>1 DEF Unpersisted
      <3> HIDE DEF f, g, T
      <3> QED
        BY <3>1, <3>2, <3>3 DEF Share
    <2> QED
      BY <2>1, <2>2 DEF Spenders
  <1> HIDE DEF f, g, T
  <1>3. SumFunctionOnSet(Account, Spenders)
           <= SumFunctionOnSet(f, T) + SumFunctionOnSet(g, live)
    BY <1>1, <1>2, FinitenessAssumption, SumsCover
  <1>4. SumFunctionOnSet(f, T) = RowsToday
    <2>1. IsFiniteSet(T) /\ \A t \in T : f[t] = cost[t]
      BY <1>1, FinitenessAssumption, FS_Subset DEF T, f, Spenders
    <2>2. SumFunctionOnSet(f, T) = SumFunctionOnSet(cost, T)
      BY <2>1, SumsAgree
    <2> QED
      BY <2>2 DEF T, RowsToday
  <1>5. SumFunctionOnSet(g, live) = LiveSpend
    BY DEF g, LiveSpend
  <1>6. /\ today = chat["today"] + SumFunctionOnSet(Account, Spenders)
        /\ chat["today"] \in Nat /\ SumFunctionOnSet(Account, Spenders) \in Nat
    BY <1>1, FinitenessAssumption, SumIsNat DEF DayInv, TypeOK, Days
  <1>7. RowsToday \in Nat /\ LiveSpend \in Nat
    BY SumsAreNat DEF DayInv
  <1> QED
    BY <1>3, <1>4, <1>5, <1>6, <1>7 DEF SnapshotCovers

\* Account, spender by spender, before and after a step.
LEMMA AccountsAre ==
    /\ \A t \in Tasks : Account[t] = billed[t] /\ Account'[t] = billed'[t]
    /\ \A s \in Sessions :
          /\ Account[s] = IF pc[s] = "closing" THEN 0 ELSE tracker[s].spent
          /\ Account'[s] = IF pc'[s] = "closing" THEN 0 ELSE tracker'[s].spent
  <1>1. Account' = [p \in Spenders |->
                       IF p \in Tasks THEN billed'[p]
                       ELSE IF pc'[p] = "closing" THEN 0 ELSE tracker'[p].spent]
    BY DEF Account
  <1>2. \A t \in Tasks : t \in Spenders
    BY DEF Spenders
  <1>3. \A s \in Sessions : s \in Spenders /\ s \notin Tasks
    BY SpendersAssumption DEF Spenders
  <1> QED
    BY <1>1, <1>2, <1>3 DEF Account

\* A response adds its cost to the day and to whoever it is charged to.
LEMMA ChargeCounts ==
    ASSUME DayInv, TypeOK', NEW p \in Spenders, NEW c \in Nat,
           Account'[p] = Account[p] + c,
           \A q \in Spenders \ {p} : Account'[q] = Account[q],
           today' = today + c, chat' = chat
    PROVE  today' = chat'["today"] + SumFunctionOnSet(Account', Spenders)
  <1>1. \A q \in Spenders : Account[q] \in Nat /\ Account'[q] \in Nat
    <2>1. \A q \in Spenders : Account[q] \in Nat
      BY AccountsAre DEF DayInv, TypeOK, Spenders
    <2> QED
      BY <2>1
  <1>2. SumFunctionOnSet(Account', Spenders)
           = SumFunctionOnSet(Account, Spenders) - Account[p] + Account'[p]
    <2>1. OneTermMoves(Account, Account', Spenders, p)
      BY <1>1 DEF OneTermMoves
    <2> QED
      BY <2>1, FinitenessAssumption, SumFollowsTerm
  <1>3. SumFunctionOnSet(Account, Spenders) \in Nat
    BY <1>1, FinitenessAssumption, SumIsNat
  <1> QED
    BY <1>1, <1>2, <1>3 DEF DayInv, TypeOK, Days

\* Whatever charges nobody and records no turn keeps the day.
LEMMA NobodyIsCharged ==
    ASSUME DayInv, \A p \in Spenders : Account'[p] = Account[p],
           today' = today, chat' = chat
    PROVE  today' = chat'["today"] + SumFunctionOnSet(Account', Spenders)
  <1>1. SumFunctionOnSet(Account', Spenders) = SumFunctionOnSet(Account, Spenders)
    BY FinitenessAssumption, SumsAgree
  <1> QED
    BY <1>1 DEF DayInv

LEMMA DayStep ==
    ASSUME Revisions = {}, NothingIsHidden, DayInv, [Next]_vars, TypeOK'
    PROVE  DayInv'
  <1>0. LedgerInv'
    BY LedgerStep DEF DayInv
  <1>1. ASSUME NEW t \in Tasks, RunStep(t) \/ Fail(t) \/ GateLaunches(t) PROVE DayInv'
    <2>0. t \in Checkers /\ t \in Spenders /\ t # Gate /\ t \notin Sessions
      BY SpendersAssumption DEF Checkers, Spenders
    <2>1. CASE Respond(t)
      <3>1. PICK u \in Usages, m \in Models :
               /\ tracker' = [tracker EXCEPT ![t].spent = @ + Cost(u, m)]
               /\ billed' = [billed EXCEPT ![t] = @ + Cost(u, m)]
               /\ today' = today + Cost(u, m)
        BY <2>1 DEF Respond, Charge
      <3> DEFINE c == Cost(u, m)
      <3>2. c \in Nat /\ tracker' = [tracker EXCEPT ![t].spent = @ + c]
            /\ billed' = [billed EXCEPT ![t] = @ + c] /\ today' = today + c
        BY <3>1, AmountsAssumption
      <3> HIDE DEF c
      <3>3. /\ pc[t] = "thinking" /\ pc' = [pc EXCEPT ![t] = "billed"]
            /\ UNCHANGED <<chat, dated, live, lost>>
        BY <2>1 DEF Respond, Goto
      <3>4. /\ Account'[t] = Account[t] + c
            /\ \A q \in Spenders \ {t} : Account'[q] = Account[q]
        <4>1. Account'[t] = Account[t] + c
          BY <2>0, <3>2, <3>3, AccountsAre DEF DayInv, TypeOK, Checkers
        <4>2. ASSUME NEW q \in Tasks \ {t} PROVE Account'[q] = Account[q]
          BY <2>0, <3>2, <3>3, <4>2, AccountsAre DEF DayInv, TypeOK
        <4>3. ASSUME NEW q \in Sessions \ {t} PROVE Account'[q] = Account[q]
          <5>1. q \in Checkers /\ q \in Spenders
            BY DEF Checkers, Spenders
          <5>2. tracker'[q] = tracker[q] /\ pc'[q] = pc[q]
            BY <2>0, <3>2, <3>3, <4>3, <5>1 DEF DayInv, TypeOK
          <5> QED
            BY <4>3, <5>2, AccountsAre
        <4> QED
          BY <4>1, <4>2, <4>3 DEF Spenders
      <3>5. today' = chat'["today"] + SumFunctionOnSet(Account', Spenders)
        BY <2>0, <3>2, <3>3, <3>4, ChargeCounts
      <3> QED
        BY <1>0, <2>0, <3>2, <3>3, <3>5 DEF DayInv, TypeOK, Spenders, Checkers
    <2>2. CASE ~Respond(t)
      <3>1. /\ UNCHANGED <<chat, billed, lost, today>>
            /\ \A s \in Sessions : /\ tracker'[s] = tracker[s] /\ pc'[s] = pc[s]
                                   /\ s \in live' <=> s \in live
        <4>0. \A s \in Sessions : s \in Checkers /\ s \in Spenders /\ s # t /\ s # Gate
          BY <2>0, SpendersAssumption DEF Checkers, Spenders
        <4>1. CASE GateLaunches(t)
          BY <4>0, <4>1 DEF GateLaunches, DayInv, TypeOK
        <4>2. CASE Track(t)
          BY <4>0, <4>2 DEF Track, Goto, DayInv, TypeOK
        <4>6. CASE Leave(t)
          <5>1. Shortfall(t) = 0
            BY <4>6 DEF Leave, Shortfall, DayInv, LedgerInv, LedgerTyped, LedgerPart,
                        LedgerOfLive, Written
          <5>2. lost' = lost
            BY <4>6, <5>1 DEF Leave, DayInv, TypeOK
          <5> QED
            BY <4>0, <4>6, <5>2 DEF Leave, Goto, Untrack, DayInv, TypeOK
        <4>3. CASE EndFlush(t) \/ Close(t)
          BY <4>0, <4>3 DEF EndFlush, Close, Goto, Persisted, DayInv, TypeOK
        <4>4. CASE BeginFlush(t) \/ WriteUsage(t)
          BY <4>0, <4>4 DEF BeginFlush, WriteUsage, Goto, DayInv, TypeOK
        <4>5. CASE \/ StopAtTaskBudget(t) \/ CheckDay(t) \/ ReadChat(t) \/ Continue(t)
                   \/ Park(t) \/ Finish(t) \/ Fail(t)
          BY <4>0, <4>5
             DEF StopAtTaskBudget, CheckDay, BeginCheck, ReadChat, Continue, Park, Finish,
                 Fail, EndRun, Goto, ledger, DayInv, TypeOK
        <4> QED
          BY <1>1, <2>2, <4>1, <4>2, <4>3, <4>4, <4>5, <4>6 DEF RunStep
      <3>2. \A p \in Spenders : Account'[p] = Account[p]
        BY <3>1, SpendersAssumption, AccountsAre DEF Spenders
      <3>3. today' = chat'["today"] + SumFunctionOnSet(Account', Spenders)
        BY <3>1, <3>2, NobodyIsCharged
      <3>4. \A v \in Tasks : /\ billed'[v] > 0 \/ pc'[v] # "idle" => dated'[v] = "today"
                             /\ pc'[v] # "unsaved"
        <4>1. CASE GateLaunches(t)
          BY <2>0, <3>1, <4>1 DEF GateLaunches, DayInv, TypeOK, Spenders, Checkers
        <4>2. CASE ~GateLaunches(t)
          <5>1. dated' = dated /\ pc[t] # "idle" /\ pc'[t] # "unsaved"
                /\ \A v \in Tasks \ {t} : pc'[v] = pc[v]
            BY <1>1, <2>0, <2>2, <4>2
               DEF RunStep, Fail, Track, BeginFlush, EndFlush, StopAtTaskBudget, CheckDay,
                   BeginCheck, ReadChat, Continue, Park, Finish, WriteUsage, Close, Leave,
                   EndRun, Goto, ledger, DayInv, TypeOK, Spenders, Checkers
          <5> QED
            BY <3>1, <5>1 DEF DayInv
        <4> QED
          BY <4>1, <4>2
      <3> QED
        BY <1>0, <3>1, <3>3, <3>4 DEF DayInv
    <2> QED
      BY <2>1, <2>2
  <1>2. ASSUME NEW s \in Sessions, TurnStep(s) \/ Ask(s) \/ Reply(s) PROVE DayInv'
    <2>0. s \in Checkers /\ s \in Spenders /\ s # Gate /\ s \notin Tasks
      BY SpendersAssumption DEF Checkers, Spenders
    <2>1. CASE Reply(s)
      <3>1. PICK u \in Usages, m \in Models :
               /\ tracker' = [tracker EXCEPT ![s].spent = @ + Cost(u, m)]
               /\ today' = today + Cost(u, m)
        BY <2>1 DEF Reply, Charge
      <3> DEFINE c == Cost(u, m)
      <3>2. c \in Nat /\ tracker' = [tracker EXCEPT ![s].spent = @ + c]
            /\ today' = today + c
        BY <3>1, AmountsAssumption
      <3> HIDE DEF c
      <3>3. /\ pc[s] = "thinking" /\ pc' = [pc EXCEPT ![s] = "rows"]
            /\ UNCHANGED <<chat, dated, live, lost, billed>>
        BY <2>1 DEF Reply, BeginCheck, Goto
      <3>4. /\ Account'[s] = Account[s] + c
            /\ \A q \in Spenders \ {s} : Account'[q] = Account[q]
        <4>1. Account'[s] = Account[s] + c
          BY <2>0, <3>2, <3>3, AccountsAre DEF DayInv, TypeOK, Checkers
        <4>2. ASSUME NEW q \in Tasks \ {s} PROVE Account'[q] = Account[q]
          BY <2>0, <3>2, <3>3, <4>2, AccountsAre DEF DayInv, TypeOK
        <4>3. ASSUME NEW q \in Sessions \ {s} PROVE Account'[q] = Account[q]
          <5>1. q \in Checkers /\ q \in Spenders
            BY DEF Checkers, Spenders
          <5>2. tracker'[q] = tracker[q] /\ pc'[q] = pc[q]
            BY <2>0, <3>2, <3>3, <4>3, <5>1 DEF DayInv, TypeOK
          <5> QED
            BY <4>3, <5>2, AccountsAre
        <4> QED
          BY <4>1, <4>2, <4>3 DEF Spenders
      <3>5. today' = chat'["today"] + SumFunctionOnSet(Account', Spenders)
        BY <2>0, <3>2, <3>3, <3>4, ChargeCounts
      <3> QED
        BY <1>0, <2>0, <3>2, <3>3, <3>5, SpendersAssumption
           DEF DayInv, TypeOK, Spenders, Checkers
    <2>2. CASE RecordSpend(s)
      <3>1. /\ pc[s] = "ending" /\ pc' = [pc EXCEPT ![s] = "closing"]
            /\ chat' = [chat EXCEPT !["today"] = @ + tracker[s].spent]
            /\ UNCHANGED <<tracker, dated, live, lost, billed, today>>
        BY <2>2 DEF RecordSpend, Goto
      <3>2. /\ \A q \in Spenders : Account[q] \in Nat
            /\ Account[s] = tracker[s].spent /\ Account'[s] = 0
            /\ \A q \in Spenders \ {s} : Account'[q] = Account[q]
        <4>1. Account[s] = tracker[s].spent /\ Account'[s] = 0
          BY <2>0, <3>1, AccountsAre DEF DayInv, TypeOK
        <4>2. ASSUME NEW q \in Spenders
              PROVE  Account[q] \in Nat /\ (q # s => Account'[q] = Account[q])
          <5>1. q \in Checkers /\ tracker[q].spent \in Nat
            BY DEF Checkers, DayInv, TypeOK
          <5> QED
            BY <2>0, <3>1, <5>1, AccountsAre DEF Spenders, DayInv, TypeOK
        <4> QED
          BY <4>1, <4>2
      <3>3. SumFunctionOnSet(Account', Spenders)
               = SumFunctionOnSet(Account, Spenders) - Account[s] + Account'[s]
        <4>1. OneTermMoves(Account, Account', Spenders, s)
          BY <3>2 DEF OneTermMoves
        <4> QED
          BY <2>0, <4>1, FinitenessAssumption, SumFollowsTerm
      <3>4. Account'[s] = 0
        BY <3>2
      <3>5. SumFunctionOnSet(Account, Spenders) \in Nat /\ chat["today"] \in Nat
            /\ Account[s] \in Nat /\ chat'["today"] = chat["today"] + Account[s]
        BY <2>0, <3>1, <3>2, FinitenessAssumption, SumIsNat DEF DayInv, TypeOK, Days
      <3>6. today = chat["today"] + SumFunctionOnSet(Account, Spenders)
        BY DEF DayInv
      <3>7. today' = chat'["today"] + SumFunctionOnSet(Account', Spenders)
        BY <3>1, <3>3, <3>4, <3>5, <3>6
      <3> QED
        BY <1>0, <2>0, <3>1, <3>7, SpendersAssumption
           DEF DayInv, TypeOK, Spenders, Checkers
    <2>3. CASE ~Reply(s) /\ ~RecordSpend(s)
      <3>1. /\ UNCHANGED <<chat, billed, lost, today, dated>>
            /\ \A t \in Tasks : pc'[t] = pc[t]
            /\ \A q \in Sessions \ {s} : /\ tracker'[q] = tracker[q] /\ pc'[q] = pc[q]
                                         /\ q \in live' <=> q \in live
        BY <1>2, <2>0, <2>3, SpendersAssumption
           DEF TurnStep, Ask, BeginCheck, ReadChat, Admit, TurnAway, ContinueTurn,
               EndTurn, CloseTurn, Goto, Untrack, EndCheck, ledger, DayInv, TypeOK,
               Spenders, Checkers
      <3>2. \/ /\ tracker'[s] = tracker[s]
               /\ s \in live => s \in live'
               /\ pc'[s] \in {"thinking", "ending"} => s \in live'
               /\ pc[s] # "closing"
               /\ pc'[s] # "closing"
            \/ /\ pc[s] = "closing" /\ pc'[s] = "idle" /\ tracker'[s] = NoCost
        BY <1>2, <2>0, <2>3
           DEF TurnStep, Ask, BeginCheck, ReadChat, Admit, TurnAway, ContinueTurn,
               EndTurn, CloseTurn, Goto, Untrack, EndCheck, ledger, DayInv, TypeOK,
               Spenders, Checkers
      <3>3. \A p \in Spenders : Account'[p] = Account[p]
        <4>1. Account'[s] = Account[s]
          BY <2>0, <3>2, AccountsAre DEF NoCost
        <4>2. \A p \in Tasks : Account'[p] = Account[p]
          BY <3>1, AccountsAre
        <4>3. \A q \in Sessions \ {s} : Account'[q] = Account[q]
          BY <3>1, AccountsAre
        <4> QED
          BY <4>1, <4>2, <4>3 DEF Spenders
      <3>4. today' = chat'["today"] + SumFunctionOnSet(Account', Spenders)
        BY <3>1, <3>3, NobodyIsCharged
      <3>5. /\ tracker'[s].persisted = 0
            /\ s \notin live' => tracker'[s].spent = 0
            /\ pc'[s] \in {"thinking", "ending", "closing"} => s \in live'
        BY <3>2 DEF NoCost, DayInv
      <3> QED
        BY <1>0, <3>1, <3>4, <3>5 DEF DayInv
    <2> QED
      BY <2>1, <2>2, <2>3
  <1>3. ASSUME GateChecks \/ GateRefuses \/ ReadChat(Gate) \/ UNCHANGED vars PROVE DayInv'
    <2>1. /\ UNCHANGED <<chat, billed, lost, today, dated, tracker, live>>
          /\ \A p \in Spenders : pc'[p] = pc[p]
      BY <1>3, SpendersAssumption
         DEF GateChecks, GateRefuses, ReadChat, BeginCheck, EndCheck, Goto, ledger, vars,
             DayInv, TypeOK, Spenders, Checkers
    <2>2. \A p \in Spenders : Account'[p] = Account[p]
      BY <2>1, AccountsAre DEF Spenders
    <2>3. today' = chat'["today"] + SumFunctionOnSet(Account', Spenders)
      BY <2>1, <2>2, NobodyIsCharged
    <2> QED
      BY <1>0, <2>1, <2>3 DEF DayInv, Spenders
  <1>4. /\ ~Midnight /\ ~Crash
        /\ \A t \in Tasks : ~FlushFails(t) /\ ~UsageWriteFails(t)
        /\ \A s \in Sessions : ~RecordFails(s)
    BY DEF Midnight, Crash, FlushFails, UsageWriteFails, RecordFails, NothingIsHidden
  <1> QED
    BY <1>1, <1>2, <1>3, <1>4 DEF Next, GateStep

(* The task rows, the chat rows and the live trackers, read at one moment,   *)
(* leave out nothing the provider charged today (pricing.py                  *)
(* DailyBudget.spent_usd).  So a check of the day only misses what moves     *)
(* between its three reads, what a crash, a failed write or a midnight       *)
(* hides, and what a revision's rerun writes over.                           *)
THEOREM NothingIsLeftOut ==
    ASSUME Revisions = {}, NothingIsHidden
    PROVE  Spec => []SnapshotCovers
  <1>1. Init => DayInv
    <2> SUFFICES ASSUME Init PROVE DayInv
      OBVIOUS
    <2>1. TypeOK
      BY AmountsAssumption DEF Init, TypeOK, Zero, NoCost, NoCheck, Days, TaskControl
    <2>2. \A p \in Spenders : Account[p] = 0
      BY DEF Init, Account, Zero, NoCost, Spenders
    <2>3. SumFunctionOnSet(Account, Spenders) = 0
      <3> DEFINE z == [p \in Spenders |-> 0]
      <3>1. \A p \in Spenders : Account[p] <= Share(z, {}, p) + Share(z, {}, p)
        BY <2>2 DEF Share
      <3>2. SumFunctionOnSet(Account, Spenders)
               <= SumFunctionOnSet(z, {}) + SumFunctionOnSet(z, {})
        <4>1. \A p \in Spenders : Account[p] \in Nat /\ z[p] \in Nat
          BY <2>2
        <4> HIDE DEF z
        <4> QED
          BY <3>1, <4>1, FinitenessAssumption, SumsCover
      <3>3. SumFunctionOnSet(z, {}) = 0
        BY FinitenessAssumption, SumUnfolds
      <3>4. SumFunctionOnSet(Account, Spenders) \in Nat
        BY <2>2, FinitenessAssumption, SumIsNat
      <3> QED
        BY <3>2, <3>3, <3>4
    <2>4. today = 0 /\ chat["today"] = 0
      BY DEF Init, Zero, Days
    <2>5. \A t \in Tasks : lost[t] = 0 /\ billed[t] = 0 /\ pc[t] = "idle"
      BY DEF Init, Zero, Checkers, Spenders
    <2>6. \A s \in Sessions : tracker[s] = NoCost /\ pc[s] = "idle"
      BY DEF Init, Checkers, Spenders
    <2> QED
      BY <2>1, <2>3, <2>4, <2>5, <2>6, LedgerInit DEF DayInv, NoCost
  <1>2. TypeOK /\ DayInv /\ [Next]_vars /\ TypeOK' => DayInv'
    BY DayStep
  <1>3. DayInv => SnapshotCovers
    BY DayInvCovers
  <1> QED
    BY <1>1, <1>2, <1>3, SpendTypeCorrect, PTL DEF Spec

\* Whoever goes on from a check found its sums below the limit.
LEMMA GoesOnWithinLimit ==
    ASSUME TypeOK, [Next]_vars, NEW p \in Spenders, pc[p] = "sums", pc'[p] = "thinking"
    PROVE  WithinLimit(p)
  <1>0. p \in Checkers /\ p # Gate
    BY SpendersAssumption DEF Checkers
  <1>1. ASSUME NEW t \in Tasks, \/ RunStep(t) \/ Fail(t) \/ GateLaunches(t)
                               \/ FlushFails(t) \/ UsageWriteFails(t)
        PROVE  WithinLimit(p)
    <2>0. t \in Checkers /\ t # Gate
      BY SpendersAssumption DEF Checkers, Spenders
    <2>1. CASE Continue(t)
      <3>1. p = t
        BY <1>0, <2>0, <2>1 DEF Continue, Goto, TypeOK
      <3> QED
        BY <2>1, <3>1 DEF Continue
    <2>2. CASE Track(t) \/ Respond(t) \/ BeginFlush(t) \/ EndFlush(t)
      BY <1>0, <2>0, <2>2 DEF Track, Respond, BeginFlush, EndFlush, Goto, TypeOK
    <2>3. CASE StopAtTaskBudget(t) \/ CheckDay(t) \/ ReadChat(t) \/ Park(t) \/ Finish(t)
               \/ Fail(t)
      BY <1>0, <2>0, <2>3 DEF StopAtTaskBudget, CheckDay, BeginCheck, ReadChat, Park,
         Finish, Fail, EndRun, Goto, TypeOK
    <2>4. CASE WriteUsage(t) \/ Close(t) \/ Leave(t) \/ GateLaunches(t)
      BY <1>0, <2>0, <2>4 DEF WriteUsage, Close, Leave, GateLaunches, Goto, TypeOK
    <2>5. CASE FlushFails(t) \/ UsageWriteFails(t)
      BY <1>0, <2>0, <2>5 DEF FlushFails, UsageWriteFails, Goto, TypeOK
    <2> QED
      BY <1>1, <2>1, <2>2, <2>3, <2>4, <2>5 DEF RunStep
  <1>2. ASSUME NEW s \in Sessions, TurnStep(s) \/ Ask(s) \/ Reply(s) \/ RecordFails(s)
        PROVE  WithinLimit(p)
    <2>0. s \in Checkers /\ s # Gate
      BY SpendersAssumption DEF Checkers, Spenders
    <2>1. CASE Admit(s) \/ ContinueTurn(s)
      <3>1. p = s
        BY <1>0, <2>0, <2>1 DEF Admit, ContinueTurn, Goto, TypeOK
      <3> QED
        BY <2>0, <2>1, <3>1 DEF Admit, ContinueTurn, Goto, TypeOK
    <2>2. CASE \/ ReadChat(s) \/ TurnAway(s) \/ EndTurn(s) \/ RecordSpend(s)
               \/ CloseTurn(s) \/ Ask(s) \/ Reply(s) \/ RecordFails(s)
      BY <1>0, <2>0, <2>2 DEF ReadChat, TurnAway, EndTurn, RecordSpend, CloseTurn, Ask,
         Reply, RecordFails, BeginCheck, Goto, TypeOK
    <2> QED
      BY <1>2, <2>1, <2>2 DEF TurnStep
  <1>3. ASSUME GateChecks \/ GateRefuses \/ ReadChat(Gate) PROVE WithinLimit(p)
    BY <1>0, <1>3 DEF GateChecks, GateRefuses, ReadChat, BeginCheck, Goto, TypeOK
  <1>4. ASSUME Midnight \/ Crash \/ UNCHANGED vars PROVE WithinLimit(p)
    BY <1>0, <1>4 DEF Midnight, Crash, vars, TypeOK
  <1> QED
    BY <1>1, <1>2, <1>3, <1>4 DEF Next, GateStep

\* p goes on to a model call, and the rows it read have not grown since.
GoesOnInformed(p) ==
    /\ pc[p] = "sums" /\ pc'[p] = "thinking"
    /\ RowsToday + chat["today"] <= check[p].sum

(* Nobody goes on to a model call past the day's limit unless what it read   *)
(* of the rows has grown since it read it (runner.py _enforce_daily_budget,  *)
(* chat.py _enforce_daily_budget): NoWorkPastCeiling, which does not hold,   *)
(* fails by that alone.                                                      *)
THEOREM OnlyStaleSumsPass ==
    ASSUME Revisions = {}, NothingIsHidden
    PROVE  Spec => [][\A p \in Spenders : GoesOnInformed(p) => today < Limit]_vars
  <1>1. ASSUME TypeOK, SnapshotCovers, [Next]_vars, NEW p \in Spenders,
               GoesOnInformed(p)
        PROVE  today < Limit
    <2>1. check[p].sum + LiveSpend < Limit
      BY <1>1, GoesOnWithinLimit DEF WithinLimit, GoesOnInformed
    <2>2. /\ RowsToday \in Nat /\ LiveSpend \in Nat /\ chat["today"] \in Nat
          /\ check[p].sum \in Nat /\ today \in Nat /\ Limit \in Nat
      BY <1>1, SumsAreNat, AmountsAssumption DEF TypeOK, Days, Checkers
    <2>3. today <= RowsToday + chat["today"] + LiveSpend
      BY <1>1 DEF SnapshotCovers
    <2> QED
      BY <1>1, <2>1, <2>2, <2>3 DEF GoesOnInformed
  <1>2. TypeOK /\ SnapshotCovers /\ [Next]_vars
           => [\A p \in Spenders : GoesOnInformed(p) => today < Limit]_vars
    BY <1>1
  <1> QED
    BY <1>2, SpendTypeCorrect, NothingIsLeftOut, PTL DEF Spec

-----------------------------------------------------------------------------
(* The budget of a task *)

\* A bounded set of naturals has a greatest element: the least of its bounds.
LEMMA GreatestOfBounded ==
    ASSUME NEW S, S \subseteq Nat, S # {}, NEW b \in Nat, \A x \in S : x <= b
    PROVE  Greatest(S) \in S /\ \A x \in S : x <= Greatest(S)
  <1> DEFINE Bounds == {c \in Nat : \A x \in S : x <= c}
  <1>1. PICK c \in Bounds : \A d \in Bounds : <<d, c>> \notin OpToRel(<, Nat)
    <2>1. Bounds \subseteq Nat /\ Bounds # {}
      OBVIOUS
    <2> HIDE DEF Bounds
    <2> QED
      BY <2>1, WFMin, NatLessThanWellFounded, Zenon
  <1>2. \A d \in Bounds : ~(d < c)
    BY <1>1 DEF OpToRel
  <1>3. c \in S
    <2> SUFFICES ASSUME c \notin S PROVE FALSE
      OBVIOUS
    <2>1. \A x \in S : x <= c - 1 /\ x \in Nat
      OBVIOUS
    <2>2. PICK x \in S : TRUE
      OBVIOUS
    <2>3. c \in Nat /\ x \in Nat /\ x <= c - 1
      BY <2>1
    <2>4. c - 1 \in Nat /\ c - 1 < c
      BY <2>3
    <2>5. c - 1 \in Bounds
      BY <2>1, <2>4
    <2> QED
      BY <1>2, <2>4, <2>5
  <1>4. \E x \in S : \A y \in S : y <= x
    BY <1>3
  <1> QED
    BY <1>4 DEF Greatest

\* Some response is the dearest one.
CostsAreBounded == \E most \in Nat : \A u \in Usages, m \in Models : Cost(u, m) <= most

LEMMA DearestIsDearest ==
    ASSUME CostsAreBounded, Usages # {}, Models # {}
    PROVE  Dearest \in Nat /\ \A u \in Usages, m \in Models : Cost(u, m) <= Dearest
  <1> DEFINE Costs == {Cost(u, m) : u \in Usages, m \in Models}
  <1>1. PICK most \in Nat : \A u \in Usages, m \in Models : Cost(u, m) <= most
    BY DEF CostsAreBounded
  <1>2. Costs \subseteq Nat /\ Costs # {} /\ \A x \in Costs : x <= most
    BY <1>1, AmountsAssumption
  <1>3. Greatest(Costs) \in Costs /\ \A x \in Costs : x <= Greatest(Costs)
    <2> HIDE DEF Costs
    <2> QED
      BY <1>2, GreatestOfBounded
  <1>4. Dearest = Greatest(Costs)
    BY DEF Dearest
  <1> QED
    BY <1>2, <1>3, <1>4

\* What the provider charged for t and nothing wrote off.
Charged(t) == billed[t] - lost[t]

\* From the response on, until the budget is checked again, a task may be one
\* response over; a task that ended may stay so.
OneOver(t) ==
    \/ pc[t] \in {"billed", "flushing", "flushed"}
    \/ /\ pc[t] \in {"ending", "closing", "leaving", "unsaved"}
       /\ outcome[t] # "parked"
    \/ status[t] = "ended"

BudgetPart(t) ==
    /\ Charged(t) < TaskBudget + (crashes + 1) * Dearest
    /\ ~OneOver(t) => Charged(t) < TaskBudget + crashes * Dearest
    /\ pc[t] \in {"rows", "sums"} => Charged(t) < TaskBudget

\* A step that charges nothing brings t below the mark only by a check.
NoCharge(t) ==
    /\ Charged(t)' \in Int /\ Charged(t)' <= Charged(t) /\ crashes' = crashes
    /\ OneOver(t) => OneOver(t)' \/ Charged(t) < TaskBudget
    /\ pc'[t] \in {"rows", "sums"} =>
          pc[t] \in {"rows", "sums"} \/ Charged(t) < TaskBudget

\* A step of another run, of a turn, of the gate or of the calendar.
LEMMA OthersCharge ==
    ASSUME LedgerInv, NEW t \in Tasks \ Revisions, [Next]_vars, ~Crash,
           ~RunStep(t), ~Fail(t), ~GateLaunches(t), ~FlushFails(t), ~UsageWriteFails(t)
    PROVE  NoCharge(t)
  <1> SUFFICES pc'[t] = pc[t] /\ status'[t] = status[t] /\ outcome'[t] = outcome[t]
               /\ billed'[t] = billed[t] /\ lost'[t] = lost[t] /\ crashes' = crashes
    BY DEF NoCharge, Charged, OneOver, LedgerInv, LedgerTyped
  <1> USE DEF LedgerInv, LedgerTyped, Checkers, Spenders, Goto, ledger, progress
  <1>1. ASSUME NEW u \in Tasks, u # t,
               RunStep(u) \/ Fail(u) \/ FlushFails(u) \/ UsageWriteFails(u)
        PROVE  pc'[t] = pc[t] /\ status'[t] = status[t] /\ outcome'[t] = outcome[t]
               /\ billed'[t] = billed[t] /\ lost'[t] = lost[t] /\ crashes' = crashes
    <2>1. CASE Track(u) \/ Respond(u) \/ BeginFlush(u) \/ EndFlush(u)
      BY <1>1, <2>1 DEF Track, Respond, BeginFlush, EndFlush
    <2>2. CASE StopAtTaskBudget(u) \/ Park(u) \/ Finish(u) \/ Fail(u)
      BY <1>1, <2>2 DEF StopAtTaskBudget, Park, Finish, Fail, EndRun
    <2>3. CASE CheckDay(u) \/ ReadChat(u) \/ Continue(u) \/ WriteUsage(u)
      BY <1>1, <2>3 DEF CheckDay, BeginCheck, ReadChat, Continue, WriteUsage
    <2>4. CASE Close(u) \/ Leave(u)
      BY <1>1, <2>4 DEF Close, Leave
    <2>5. CASE FlushFails(u) \/ UsageWriteFails(u)
      BY <1>1, <2>5 DEF FlushFails, UsageWriteFails
    <2> QED
      BY <1>1, <2>1, <2>2, <2>3, <2>4, <2>5 DEF RunStep
  <1>2. ASSUME NEW s \in Sessions, TurnStep(s) \/ Ask(s) \/ Reply(s) \/ RecordFails(s)
        PROVE  pc'[t] = pc[t] /\ status'[t] = status[t] /\ outcome'[t] = outcome[t]
               /\ billed'[t] = billed[t] /\ lost'[t] = lost[t] /\ crashes' = crashes
    BY <1>2, SpendersAssumption
    DEF TurnStep, ReadChat, Admit, TurnAway, ContinueTurn, EndTurn, RecordSpend,
        RecordFails, CloseTurn, Ask, Reply, BeginCheck
  <1>3. ASSUME GateStep
        PROVE  pc'[t] = pc[t] /\ status'[t] = status[t] /\ outcome'[t] = outcome[t]
               /\ billed'[t] = billed[t] /\ lost'[t] = lost[t] /\ crashes' = crashes
    BY <1>3, SpendersAssumption
    DEF GateStep, GateChecks, BeginCheck, ReadChat, GateRefuses, GateLaunches
  <1>4. ASSUME Midnight \/ UNCHANGED vars
        PROVE  pc'[t] = pc[t] /\ status'[t] = status[t] /\ outcome'[t] = outcome[t]
               /\ billed'[t] = billed[t] /\ lost'[t] = lost[t] /\ crashes' = crashes
    BY <1>4 DEF Midnight, vars
  <1> QED
    BY <1>1, <1>2, <1>3, <1>4 DEF Next

\* A step of t's own run but its response: the check alone lets it go on.
LEMMA OwnCharge ==
    ASSUME LedgerInv, TaskBudget > 0, NEW t \in Tasks \ Revisions,
           \/ RunStep(t) \/ Fail(t) \/ GateLaunches(t)
           \/ FlushFails(t) \/ UsageWriteFails(t),
           ~Respond(t)
    PROVE  NoCharge(t)
  <1> USE DEF LedgerInv, LedgerTyped, Checkers, Spenders, Goto, ledger, progress,
          NoCharge, Charged, OneOver
  <1>1. LedgerPart(t)
    OBVIOUS
  <1>2. CASE Track(t)
    BY <1>1, <1>2 DEF Track, LedgerPart
  <1>3. CASE BeginFlush(t) \/ EndFlush(t) \/ WriteUsage(t)
    BY <1>3 DEF BeginFlush, EndFlush, WriteUsage
  <1>4. CASE StopAtTaskBudget(t) \/ Finish(t) \/ Fail(t)
    BY <1>4 DEF StopAtTaskBudget, Finish, Fail, EndRun
  <1>5. CASE CheckDay(t)
    <2>1. tracker[t].spent = Charged(t) /\ ~(tracker[t].spent >= TaskBudget)
      BY <1>1, <1>5 DEF CheckDay, OverTaskBudget, LedgerPart, LedgerOfLive
    <2>2. Charged(t) \in Int /\ TaskBudget \in Int
      BY AmountsAssumption
    <2>3. UNCHANGED <<billed, lost, crashes, outcome, status>>
      BY <1>5 DEF CheckDay
    <2> QED
      BY <2>1, <2>2, <2>3
  <1>6. CASE ReadChat(t)
    BY <1>6 DEF ReadChat
  <1>7. CASE Continue(t)
    BY <1>1, <1>7 DEF Continue, LedgerPart
  <1>8. CASE Park(t)
    BY <1>1, <1>8 DEF Park, EndRun, LedgerPart
  <1>9. CASE Close(t)
    BY <1>1, <1>9 DEF Close, RowStatusOf, LedgerPart
  <1>10. CASE Leave(t)
    <2>1. Shortfall(t) \in Nat
      BY ShortfallOf
    <2>2. lost'[t] = lost[t] + Shortfall(t) /\ billed' = billed /\ crashes' = crashes
      BY <1>10 DEF Leave
    <2>3. Charged(t)' \in Int /\ Charged(t)' <= Charged(t)
      BY <2>1, <2>2
    <2> QED
      BY <1>1, <1>10, <2>2, <2>3 DEF Leave, LedgerPart
  <1>12. CASE FlushFails(t) \/ UsageWriteFails(t)
    BY <1>1, <1>12 DEF FlushFails, UsageWriteFails, LedgerPart
  <1>11. CASE GateLaunches(t)
    BY <1>11, SpendersAssumption DEF GateLaunches, Launchable
  <1> QED
    BY <1>2, <1>3, <1>4, <1>5, <1>6, <1>7, <1>8, <1>9, <1>10, <1>11, <1>12
       DEF RunStep

LEMMA BudgetStep ==
    ASSUME CostsAreBounded, Usages # {}, Models # {}, TaskBudget > 0,
           LedgerInv, crashes \in Nat, [Next]_vars,
           NEW t \in Tasks \ Revisions, BudgetPart(t)
    PROVE  BudgetPart(t)'
  <1> DEFINE allowance == crashes * Dearest
  <1>1. /\ Dearest \in Nat /\ TaskBudget \in Nat /\ allowance \in Nat
        /\ (crashes + 1) * Dearest = allowance + Dearest
        /\ (crashes + 2) * Dearest = allowance + Dearest + Dearest
    BY DearestIsDearest, AmountsAssumption
  <1>2. /\ Charged(t) \in Int /\ Charged(t) < TaskBudget + allowance + Dearest
        /\ ~OneOver(t) => Charged(t) < TaskBudget + allowance
        /\ pc[t] \in {"rows", "sums"} => Charged(t) < TaskBudget
    BY <1>1 DEF BudgetPart, Charged, LedgerInv, LedgerTyped
  <1>3. CASE Respond(t)
    <2>1. PICK u \in Usages, m \in Models : billed'[t] = billed[t] + Cost(u, m)
      BY <1>3 DEF Respond, LedgerInv, LedgerTyped
    <2>2. Cost(u, m) \in Nat /\ Cost(u, m) <= Dearest
      BY DearestIsDearest, AmountsAssumption
    <2>3. Charged(t)' = Charged(t) + Cost(u, m) /\ crashes' = crashes
      BY <1>3, <2>1, <2>2 DEF Charged, Respond, LedgerInv, LedgerTyped
    <2>4. pc[t] = "thinking" /\ pc'[t] = "billed" /\ status[t] = "running"
      BY <1>3 DEF Respond, Goto, LedgerInv, LedgerTyped, LedgerPart, Checkers,
         Spenders
    <2>5. ~OneOver(t) /\ OneOver(t)'
      BY <2>4 DEF OneOver
    <2>6. Charged(t)' < TaskBudget + (crashes' + 1) * Dearest
      BY <1>1, <1>2, <2>2, <2>3, <2>5
    <2> QED
      BY <2>4, <2>5, <2>6 DEF BudgetPart
  <1>4. CASE Crash
    <2>1. /\ lost'[t] = lost[t] + Shortfall(t) /\ billed' = billed
          /\ crashes' = crashes + 1 /\ pc'[t] = "idle"
      BY <1>4 DEF Crash, Checkers, Spenders
    <2>2. Charged(t)' <= Charged(t) /\ Charged(t)' \in Int
      BY <2>1, ShortfallOf DEF Charged, LedgerInv, LedgerTyped
    <2>3. /\ Charged(t)' < TaskBudget + (crashes + 1) * Dearest
          /\ Charged(t)' < TaskBudget + (crashes + 2) * Dearest
      BY <1>1, <1>2, <2>2
    <2>4. crashes' + 1 = crashes + 2
      BY <2>1
    <2> QED
      BY <2>1, <2>3, <2>4 DEF BudgetPart
  <1>5. CASE ~Respond(t) /\ ~Crash
    <2>1. NoCharge(t)
      BY <1>5, OthersCharge, OwnCharge
    <2> QED
      BY <1>1, <1>2, <2>1 DEF NoCharge, BudgetPart
  <1> QED
    BY <1>3, <1>4, <1>5

(* With bounded prices a task spends less than its budget and one response,  *)
(* and one more for each crash (TaskBudgetHolds), whatever is flushed,       *)
(* parked, resumed and written off on the way: the check after each response *)
(* sees all that the ledger carried over (runner.py _enforce_budget).        *)
THEOREM BudgetIsKept ==
    ASSUME CostsAreBounded, Usages # {}, Models # {}
    PROVE  Spec => []TaskBudgetHolds
  <1> DEFINE BudgetInv == /\ crashes \in Nat
                          /\ TaskBudget > 0 => \A t \in Tasks \ Revisions : BudgetPart(t)
  <1>1. Init => BudgetInv
    <2> SUFFICES ASSUME Init, TaskBudget > 0, NEW t \in Tasks \ Revisions
                 PROVE  crashes = 0 /\ BudgetPart(t)
      BY DEF Init
    <2>1. Charged(t) = 0 /\ crashes = 0 /\ pc[t] = "idle"
      BY DEF Init, Charged, Zero, Checkers, Spenders
    <2>2. TaskBudget \in Nat /\ Dearest \in Nat
      BY AmountsAssumption, DearestIsDearest
    <2>3. 0 < TaskBudget + (0 + 1) * Dearest /\ 0 < TaskBudget + 0 * Dearest
      BY <2>2
    <2> QED
      BY <2>1, <2>3 DEF BudgetPart
  <1>2. LedgerInv /\ BudgetInv /\ [Next]_vars => BudgetInv'
    <2> SUFFICES ASSUME LedgerInv, BudgetInv, [Next]_vars PROVE BudgetInv'
      OBVIOUS
    <2>1. crashes' \in {crashes, crashes + 1}
      BY DEF Next, RunStep, TurnStep, GateStep, Track, Respond, BeginFlush, EndFlush,
         StopAtTaskBudget, CheckDay, ReadChat, Continue, Park, Finish, WriteUsage,
         Close, Leave, Fail, Admit, TurnAway, ContinueTurn, EndTurn, RecordSpend,
         FlushFails, UsageWriteFails, RecordFails, CloseTurn, Ask, Reply, GateChecks, GateRefuses, GateLaunches, Midnight,
         Crash, vars
    <2>2. ASSUME TaskBudget > 0, NEW t \in Tasks \ Revisions PROVE BudgetPart(t)'
      BY <2>2, BudgetStep
    <2> QED
      BY <2>1, <2>2
  <1>3. BudgetInv => TaskBudgetHolds
    BY DEF BudgetPart, Charged, TaskBudgetHolds
  <1>4. Spec => []LedgerInv
    BY LedgerInit, LedgerStep, PTL DEF Spec
  <1> HIDE DEF BudgetInv
  <1> QED
    BY <1>1, <1>2, <1>3, <1>4, PTL DEF Spec
-----------------------------------------------------------------------------
(* What one response costs at most *)

(* What load and the provider ensure of the tables and the reports: rates,   *)
(* multipliers and token counts are naturals, no rate or multiplier exceeds  *)
(* some top, and names have a length.                                        *)
PricesWellFormed ==
    /\ Unit \in Nat /\ DOMAIN DefaultPricing # {}
    /\ \E top \in Nat :
          /\ \A k \in DOMAIN DefaultPricing :
                DefaultPricing[k].in \in 0..top /\ DefaultPricing[k].out \in 0..top
          /\ \A k \in UsableOverrides :
                Overrides[k].in \in 0..top /\ Overrides[k].out \in 0..top
          /\ \A k \in DOMAIN CacheMultipliers :
                CacheMultipliers[k].read \in 0..top /\ CacheMultipliers[k].write \in 0..top
    /\ \A name \in Models \cup DOMAIN DefaultPricing \cup DOMAIN Overrides
                          \cup DOMAIN CacheMultipliers : Len(name) \in Nat
    /\ \A u \in Usages : u.in \in Nat /\ u.out \in Nat /\ u.read \in Nat /\ u.write \in Nat

\* A longest matching prefix is a matching prefix.
LEMMA LongestMatches ==
    ASSUME NEW P, NEW name, Len(name) \in Nat, \A k \in P : Len(k) \in Nat,
           Matching(P, name) # {}
    PROVE  Longest(Matching(P, name)) \in Matching(P, name)
  <1> DEFINE M == Matching(P, name)
             Lengths == {Len(k) : k \in M}
  <1>1. M # {} /\ \A k \in M : Len(k) \in Nat /\ Len(k) <= Len(name)
    BY DEF Matching, IsPrefixOf
  <1>2. Greatest(Lengths) \in Lengths /\ \A x \in Lengths : x <= Greatest(Lengths)
    <2>1. /\ Lengths \subseteq Nat /\ Lengths # {}
          /\ \A x \in Lengths : x <= Len(name)
      BY <1>1
    <2> HIDE DEF Lengths
    <2> QED
      BY <2>1, GreatestOfBounded
  <1>3. PICK k \in M : Len(k) = Greatest(Lengths)
    BY <1>2
  <1>4. \A q \in M : Len(q) <= Len(k)
    BY <1>2, <1>3
  <1> HIDE DEF M
  <1> QED
    BY <1>3, <1>4 DEF Longest, M

\* The fallback is dearer than every entry of the table.
LEMMA FallbackIsDearest ==
    ASSUME PricesWellFormed
    PROVE  /\ FallbackPrice.in \in Nat /\ FallbackPrice.out \in Nat
           /\ \A k \in DOMAIN MergedTable :
                 /\ MergedTable[k].in \in Nat /\ MergedTable[k].in <= FallbackPrice.in
                 /\ MergedTable[k].out \in Nat /\ MergedTable[k].out <= FallbackPrice.out
  <1> DEFINE Ins == {DefaultPricing[k]["in"] : k \in DOMAIN DefaultPricing}
                        \cup {MergedTable[k]["in"] : k \in DOMAIN MergedTable}
             Outs == {DefaultPricing[k]["out"] : k \in DOMAIN DefaultPricing}
                        \cup {MergedTable[k]["out"] : k \in DOMAIN MergedTable}
  <1>1. PICK top \in Nat :
          /\ \A k \in DOMAIN DefaultPricing :
                DefaultPricing[k].in \in 0..top /\ DefaultPricing[k].out \in 0..top
          /\ \A k \in UsableOverrides :
                Overrides[k].in \in 0..top /\ Overrides[k].out \in 0..top
    BY DEF PricesWellFormed
  <1>2. ASSUME NEW k \in DOMAIN MergedTable
        PROVE  MergedTable[k].in \in 0..top /\ MergedTable[k].out \in 0..top
    BY <1>1 DEF MergedTable
  <1>3. DOMAIN DefaultPricing # {}
    BY DEF PricesWellFormed
  <1>4. /\ Ins \subseteq Nat /\ Ins # {} /\ \A x \in Ins : x <= top
        /\ Outs \subseteq Nat /\ Outs # {} /\ \A x \in Outs : x <= top
    BY <1>1, <1>2, <1>3
  <1>5. /\ Greatest(Ins) \in Ins /\ \A x \in Ins : x <= Greatest(Ins)
        /\ Greatest(Outs) \in Outs /\ \A x \in Outs : x <= Greatest(Outs)
    <2> HIDE DEF Ins, Outs
    <2> QED
      BY <1>4, GreatestOfBounded
  <1>6. FallbackPrice.in = Greatest(Ins) /\ FallbackPrice.out = Greatest(Outs)
    BY DEF FallbackPrice
  <1> QED
    BY <1>2, <1>4, <1>5, <1>6

\* The price of a response is a table entry or the fallback.
LEMMA PriceIsBounded ==
    ASSUME PricesWellFormed, NEW m \in Models
    PROVE  /\ PriceOf(m).in \in Nat /\ PriceOf(m).in <= FallbackPrice.in
           /\ PriceOf(m).out \in Nat /\ PriceOf(m).out <= FallbackPrice.out
  <1>1. CASE Priced(m)
    <2> DEFINE best == Longest(Matching(DOMAIN MergedTable, m))
    <2>1. /\ Len(m) \in Nat /\ \A k \in DOMAIN MergedTable : Len(k) \in Nat
          /\ Matching(DOMAIN MergedTable, m) # {}
      BY <1>1 DEF PricesWellFormed, MergedTable, UsableOverrides, Priced
    <2>2. best \in DOMAIN MergedTable
      BY <2>1, LongestMatches DEF Matching
    <2>3. PriceOf(m) = MergedTable[best]
      BY <1>1 DEF PriceOf
    <2> QED
      BY <2>2, <2>3, FallbackIsDearest
  <1>2. CASE ~Priced(m)
    BY <1>2, FallbackIsDearest DEF PriceOf
  <1> QED
    BY <1>1, <1>2

LEMMA MultiplierIsBounded ==
    ASSUME PricesWellFormed, NEW m \in Models
    PROVE  /\ DearestMultiplier \in Nat /\ Unit <= DearestMultiplier
           /\ MultipliersOf(m).read \in Nat /\ MultipliersOf(m).read <= DearestMultiplier
           /\ MultipliersOf(m).write \in Nat /\ MultipliersOf(m).write <= DearestMultiplier
  <1> DEFINE All == {Unit} \cup UNION {{CacheMultipliers[k].read, CacheMultipliers[k].write} :
                                          k \in DOMAIN CacheMultipliers}
  <1>1. PICK top \in Nat :
            \A k \in DOMAIN CacheMultipliers :
                CacheMultipliers[k].read \in 0..top /\ CacheMultipliers[k].write \in 0..top
    BY DEF PricesWellFormed
  <1>2. Unit \in Nat /\ Unit + top \in Nat
    BY DEF PricesWellFormed
  <1>3. All \subseteq Nat /\ All # {} /\ \A x \in All : x <= Unit + top
    BY <1>1, <1>2
  <1>4. Greatest(All) \in All /\ \A x \in All : x <= Greatest(All)
    <2> HIDE DEF All
    <2> QED
      BY <1>2, <1>3, GreatestOfBounded
  <1>5. DearestMultiplier = Greatest(All)
    BY DEF DearestMultiplier
  <1>6. MultipliersOf(m).read \in All /\ MultipliersOf(m).write \in All
    <2> DEFINE known == Matching(DOMAIN CacheMultipliers, m)
    <2>1. CASE known = {}
      BY <2>1 DEF MultipliersOf
    <2>2. CASE known # {}
      <3>1. Len(m) \in Nat /\ \A k \in DOMAIN CacheMultipliers : Len(k) \in Nat
        BY DEF PricesWellFormed
      <3>2. Longest(known) \in DOMAIN CacheMultipliers
        BY <2>2, <3>1, LongestMatches DEF Matching
      <3>3. MultipliersOf(m) = CacheMultipliers[Longest(known)]
        BY <2>2 DEF MultipliersOf
      <3> QED
        BY <3>2, <3>3
    <2> QED
      BY <2>1, <2>2
  <1> QED
    BY <1>3, <1>4, <1>5, <1>6

\* However a report splits its input, the parts make up the whole.
LEMMA InputIsSplit ==
    ASSUME PricesWellFormed, NEW u \in Usages
    PROVE  /\ PlainIn(u) \in Nat /\ CacheRead(u) \in Nat /\ CacheWrite(u) \in Nat
           /\ PlainIn(u) + CacheRead(u) + CacheWrite(u) = u.in
  BY DEF PricesWellFormed, PlainIn, CacheRead, CacheWrite, Least

LEMMA ProductGrows ==
    ASSUME NEW a \in Nat, NEW b \in Nat, NEW c \in Nat, NEW d \in Nat, a <= c, b <= d
    PROVE  a * b \in Nat /\ c * d \in Nat /\ a * b <= c * d
  <1>1. PICK x \in Nat, y \in Nat : c = a + x /\ d = b + y
    <2>1. c - a \in Nat /\ d - b \in Nat /\ c = a + (c - a) /\ d = b + (d - b)
      OBVIOUS
    <2> QED
      BY <2>1
  <1>2. c * d = a * b + a * y + x * b + x * y
    BY <1>1
  <1>3. a * b \in Nat /\ a * y \in Nat /\ x * b \in Nat /\ x * y \in Nat
    OBVIOUS
  <1> QED
    BY <1>2, <1>3

CeilingOf(u) ==
    u.in * FallbackPrice.in * DearestMultiplier + u.out * FallbackPrice.out * Unit

LEMMA CostIsBounded ==
    ASSUME PricesWellFormed, NEW u \in Usages, NEW m \in Models
    PROVE  CeilingOf(u) \in Nat /\ Cost(u, m) <= CeilingOf(u)
  <1> DEFINE pin == PriceOf(m).in  pout == PriceOf(m).out
             rd == MultipliersOf(m).read  wr == MultipliersOf(m).write
             a == PlainIn(u)  b == CacheRead(u)  c == CacheWrite(u)
             F == FallbackPrice.in  G == FallbackPrice.out  D == DearestMultiplier
             n == u.in  o == u.out
  <1>1. /\ pin \in Nat /\ pin <= F /\ pout \in Nat /\ pout <= G
        /\ F \in Nat /\ G \in Nat
      BY PriceIsBounded, FallbackIsDearest
  <1>2. /\ rd \in Nat /\ rd <= D /\ wr \in Nat /\ wr <= D /\ D \in Nat
        /\ Unit \in Nat /\ Unit <= D
      BY MultiplierIsBounded DEF PricesWellFormed
  <1>3. a \in Nat /\ b \in Nat /\ c \in Nat /\ a + b + c = n /\ n \in Nat /\ o \in Nat
      BY InputIsSplit DEF PricesWellFormed
  <1>4. Cost(u, m) = a * pin * Unit + b * pin * rd + c * pin * wr + o * pout * Unit
      BY DEF Cost
  <1>5. CeilingOf(u) = n * F * D + o * G * Unit
      BY DEF CeilingOf
  <1> HIDE DEF pin, pout, rd, wr, a, b, c, F, G, D, n, o
  <1>6. /\ a * pin \in Nat /\ a * F \in Nat /\ a * pin <= a * F
        /\ b * pin \in Nat /\ b * F \in Nat /\ b * pin <= b * F
        /\ c * pin \in Nat /\ c * F \in Nat /\ c * pin <= c * F
        /\ o * pout \in Nat /\ o * G \in Nat /\ o * pout <= o * G
      BY <1>1, <1>3, ProductGrows
  <1>7. a * pin * Unit \in Nat /\ a * F * D \in Nat /\ a * pin * Unit <= a * F * D
      BY <1>2, <1>6, ProductGrows
  <1>8. b * pin * rd \in Nat /\ b * F * D \in Nat /\ b * pin * rd <= b * F * D
      BY <1>2, <1>6, ProductGrows
  <1>9. c * pin * wr \in Nat /\ c * F * D \in Nat /\ c * pin * wr <= c * F * D
      BY <1>2, <1>6, ProductGrows
  <1>10. o * pout * Unit \in Nat /\ o * G * Unit \in Nat /\ o * pout * Unit <= o * G * Unit
      BY <1>2, <1>6, ProductGrows
  <1>11. a * F * D + b * F * D + c * F * D = n * F * D
      BY <1>1, <1>2, <1>3
  <1> QED
      BY <1>4, <1>5, <1>7, <1>8, <1>9, <1>10, <1>11

\* A tracker that lives on grows by one response at most.
LEMMA SpendGrows ==
    ASSUME LedgerInv, [Next]_vars, NEW p \in live \cap live'
    PROVE  \/ tracker'[p].spent <= tracker[p].spent
           \/ \E u \in Usages, m \in Models :
                 tracker'[p].spent = tracker[p].spent + Cost(u, m)
  <1> USE DEF LedgerInv, LedgerTyped, Spenders, Checkers
  <1>1. p \in Spenders /\ tracker[p] \in [spent: Nat, persisted: Nat]
    OBVIOUS
  <1>2. ASSUME NEW t \in Tasks,
               RunStep(t) \/ Fail(t) \/ FlushFails(t) \/ UsageWriteFails(t),
               ~Track(t), ~Respond(t), ~EndFlush(t), ~Close(t), ~Leave(t)
        PROVE  tracker' = tracker
    BY <1>2 DEF RunStep, BeginFlush, StopAtTaskBudget, CheckDay, ReadChat, Continue,
       Park, Finish, WriteUsage, Fail, FlushFails, UsageWriteFails, ledger
  <1>3. ASSUME NEW t \in Tasks, Track(t) PROVE tracker'[p].spent <= tracker[p].spent
    <2>1. CASE p # t
      BY <1>1, <1>3, <2>1 DEF Track
    <2>2. CASE p = t /\ Resumes(t)
      BY <1>3, <2>2 DEF Track, Resumes, LedgerPart
    <2>3. CASE p = t /\ ~Resumes(t)
      <3>1. tracker'[p].spent = 0
        BY <1>3, <2>3 DEF Track, NoCost
      <3> QED
        BY <1>1, <3>1
    <2> QED
      BY <2>1, <2>2, <2>3
  <1>4. ASSUME NEW t \in Tasks, EndFlush(t) \/ Close(t)
        PROVE  tracker'[p].spent <= tracker[p].spent
    <2>1. tracker' = [tracker EXCEPT ![t].persisted = tracker[t].spent]
      BY <1>4 DEF EndFlush, Close, Persisted
    <2>2. CASE p = t
      BY <1>1, <2>1, <2>2
    <2>3. CASE p # t
      BY <1>1, <2>1, <2>3
    <2> QED
      BY <2>2, <2>3
  <1>5. ASSUME NEW t \in Tasks, Leave(t) PROVE tracker'[p].spent <= tracker[p].spent
    <2>1. p # t /\ tracker' = [tracker EXCEPT ![t] = NoCost]
      BY <1>5 DEF Leave, Untrack
    <2>2. tracker'[p] = tracker[p]
      BY <1>1, <2>1
    <2> QED
      BY <1>1, <2>2
  <1>6. ASSUME NEW q \in Spenders, NEW u \in Usages, NEW m \in Models,
               Charge(q, Cost(u, m))
        PROVE  \/ tracker'[p].spent <= tracker[p].spent
               \/ tracker'[p].spent = tracker[p].spent + Cost(u, m)
    BY <1>1, <1>6 DEF Charge
  <1>7. ASSUME NEW t \in Tasks, Respond(t)
        PROVE  \/ tracker'[p].spent <= tracker[p].spent
               \/ \E u \in Usages, m \in Models :
                     tracker'[p].spent = tracker[p].spent + Cost(u, m)
    BY <1>6, <1>7 DEF Respond
  <1>8. ASSUME NEW s \in Sessions, Reply(s)
        PROVE  \/ tracker'[p].spent <= tracker[p].spent
               \/ \E u \in Usages, m \in Models :
                     tracker'[p].spent = tracker[p].spent + Cost(u, m)
    BY <1>6, <1>8 DEF Reply
  <1>9. ASSUME NEW s \in Sessions, TurnStep(s) \/ Ask(s) \/ RecordFails(s), ~CloseTurn(s)
        PROVE  tracker' = tracker
    BY <1>9 DEF TurnStep, ReadChat, Admit, TurnAway, ContinueTurn, EndTurn,
       RecordSpend, RecordFails, Ask, ledger
  <1>10. ASSUME NEW s \in Sessions, CloseTurn(s)
         PROVE  tracker'[p].spent <= tracker[p].spent
    <2>1. p # s /\ tracker' = [tracker EXCEPT ![s] = NoCost]
      BY <1>10 DEF CloseTurn, Untrack
    <2>2. tracker'[p] = tracker[p]
      BY <1>1, <2>1
    <2> QED
      BY <1>1, <2>2
  <1>11. ASSUME GateStep \/ Midnight \/ UNCHANGED vars PROVE tracker' = tracker
    BY <1>11 DEF GateStep, GateChecks, ReadChat, GateRefuses, GateLaunches, Midnight,
       ledger, vars
  <1>12. ~Crash
    BY DEF Crash
  <1> QED
    BY <1>1, <1>2, <1>3, <1>4, <1>5, <1>7, <1>8, <1>9, <1>10, <1>11, <1>12 DEF Next

(* A malformed usage report costs no more than its tokens at the dearest     *)
(* rates and multipliers (ResponseIsBounded), whatever overrides the         *)
(* operator wrote and whatever model it names: the clamps of add_usage leave *)
(* its input counted once, and an unknown name is priced as the dearest.     *)
THEOREM ResponsesAreBounded ==
    ASSUME PricesWellFormed, Usages # {}, Models # {}
    PROVE  Spec => ResponseIsBounded
  <1>1. LedgerInv /\ [Next]_vars =>
          \A p \in live \cap live' : \E u \in Usages, m \in Models :
             tracker'[p].spent - tracker[p].spent
                 <= u.in * FallbackPrice.in * DearestMultiplier
                      + u.out * FallbackPrice.out * Unit
    <2> SUFFICES ASSUME LedgerInv, [Next]_vars, NEW p \in live \cap live'
                 PROVE  \E u \in Usages, m \in Models :
                            tracker'[p].spent - tracker[p].spent <= CeilingOf(u)
      BY DEF CeilingOf
    <2>1. LedgerInv'
      BY LedgerStep
    <2>2. tracker[p].spent \in Nat /\ tracker'[p].spent \in Nat
      BY <2>1 DEF LedgerInv, LedgerTyped
    <2>3. CASE tracker'[p].spent <= tracker[p].spent
      <3>1. PICK u \in Usages, m \in Models : CeilingOf(u) \in Nat
        BY CostIsBounded
      <3> QED
        BY <2>2, <2>3, <3>1
    <2>4. ASSUME NEW u \in Usages, NEW m \in Models,
                 tracker'[p].spent = tracker[p].spent + Cost(u, m)
          PROVE  tracker'[p].spent - tracker[p].spent <= CeilingOf(u)
      <3>1. CeilingOf(u) \in Nat /\ Cost(u, m) <= CeilingOf(u) /\ Cost(u, m) \in Nat
        BY CostIsBounded, AmountsAssumption
      <3> QED
        BY <2>2, <2>4, <3>1
    <2> QED
      BY <2>3, <2>4, SpendGrows
  <1>2. Spec => []LedgerInv
    BY LedgerInit, LedgerStep, PTL DEF Spec
  <1> QED
    BY <1>1, <1>2, PTL DEF Spec, ResponseIsBounded
=============================================================================
