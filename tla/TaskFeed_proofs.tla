-------------------------- MODULE TaskFeed_proofs --------------------------
(***************************************************************************)
(* Theorems about TaskFeed: for any number of writers, pages, events,       *)
(* rollbacks, connections and runs, events are published in the order of    *)
(* their ids unless a rollback gave the ids back, an accepted steering      *)
(* message is heard once by its run, every page implements the promise of   *)
(* EventFeed, and no event that stays slips between the replay and the      *)
(* queue of a page.                                                         *)
(***************************************************************************)
EXTENDS TaskFeed, SequenceTheorems, TLAPS

Inserted(w) == stage[w] = "inserted"
Committed(w) == stage[w] = "committed"
InFlight(w) == Inserted(w) \/ Committed(w)

\* The ids of the table, and those it gave back: all that was ever given.
Given == (1..stored) \cup gone

\* One id is older than another, or a rollback gave both back.
Before(a, b) == a < b \/ {a, b} \subseteq gone

TraceTyped ==
    /\ saved \in Nat /\ saved <= stored /\ gone \subseteq Nat
    /\ stored \in Nat /\ line \in Nat /\ log \in Seq(Nat)
    /\ stage \in [Writers -> {"idle", "inserted", "committed"}]
    /\ own \in [Writers -> Nat] /\ place \in [Writers -> Nat]

\* The line to resume: whoever is in flight has a place of its own.
InLine ==
    \A w \in Writers :
        /\ place[w] <= line
        /\ InFlight(w) => place[w] > 0
        /\ \A v \in Writers : v # w /\ place[v] > 0 => place[v] # place[w]

\* What was given back beyond the end of the table reaches down to it: an id that
\* the table gives next is not between ids that were given back.
GoneIsTail == \A g \in gone : \A n \in Nat : stored < n /\ n <= g => n \in gone

\* Statements of one kind stand in the order of their ids, and what is committed
\* is older than what is inserted: the oldest insert commits first.
IdsInLine ==
    \A v, w \in Writers :
        /\ Inserted(v) /\ Inserted(w) /\ place[v] < place[w] => Before(own[v], own[w])
        /\ Committed(v) /\ Committed(w) /\ place[v] < place[w] => Before(own[v], own[w])
        /\ Committed(v) /\ Inserted(w) => Before(own[v], own[w])

\* What is published is older than what is in flight, and all of it was given.
LogBehind ==
    /\ \A w \in Writers : InFlight(w) => /\ 0 < own[w] /\ own[w] \in Given
                                         /\ \A k \in DOMAIN log : Before(log[k], own[w])
    /\ \A k \in DOMAIN log : 0 < log[k] /\ log[k] \in Given

TraceInv == TraceTyped /\ GoneIsTail /\ InLine /\ IdsInLine /\ LogBehind /\ PublishedInOrder

-----------------------------------------------------------------------------
(* The line *)

(* Who leaves the line moves those behind up, in their order.                 *)
LEMMA WithoutKeeps ==
    ASSUME TraceTyped, InLine, NEW w \in Writers, InFlight(w)
    PROVE  /\ Without(w) \in [Writers -> Nat] /\ Without(w)[w] = 0
           /\ line - 1 \in Nat /\ line > 0
           /\ \A v \in Writers \ {w} :
                 /\ Without(w)[v] <= line - 1
                 /\ InFlight(v) => Without(w)[v] > 0
                 /\ Without(w)[v] > 0 => place[v] > 0
                 /\ \A u \in Writers \ {w} :
                       /\ u # v /\ Without(w)[u] > 0 => Without(w)[u] # Without(w)[v]
                       /\ place[u] < place[v] <=> Without(w)[u] < Without(w)[v]
  <1>1. /\ \A v \in Writers : place[v] \in Nat /\ place[v] <= line
        /\ line \in Nat /\ place[w] > 0
        /\ \A u, v \in Writers : u # v /\ place[u] > 0 => place[u] # place[v]
        /\ \A v \in Writers : InFlight(v) => place[v] > 0
    BY DEF TraceTyped, InLine
  <1>2. \A v \in Writers : Without(w)[v] =
            IF v = w THEN 0 ELSE IF place[v] > place[w] THEN place[v] - 1 ELSE place[v]
    BY DEF Without
  <1>3. line > 0 /\ line - 1 \in Nat
    BY <1>1
  <1>4. ASSUME NEW v \in Writers \ {w}
        PROVE  /\ Without(w)[v] \in Nat /\ Without(w)[v] <= line - 1
               /\ place[v] > 0 <=> Without(w)[v] > 0
               /\ place[v] # place[w]
    BY <1>1, <1>2
  <1>5. ASSUME NEW u \in Writers \ {w}, NEW v \in Writers \ {w}
        PROVE  /\ u # v /\ Without(w)[u] > 0 => Without(w)[u] # Without(w)[v]
               /\ place[u] < place[v] <=> Without(w)[u] < Without(w)[v]
    BY <1>1, <1>2, <1>4
  <1>6. Without(w) \in [Writers -> Nat]
    BY <1>2, <1>4 DEF Without
  <1> QED BY <1>1, <1>2, <1>3, <1>4, <1>5, <1>6

(* The id the table gives next is behind every id that was given.             *)
LEMMA NextIsBehind ==
    ASSUME TraceTyped, GoneIsTail, NEW x \in Given
    PROVE  Before(x, stored + 1) /\ x \in Nat
  <1>1. stored \in Nat /\ x \in Nat
    BY DEF TraceTyped, Given
  <1>2. CASE x <= stored
    BY <1>1, <1>2 DEF Before
  <1>3. CASE ~(x <= stored)
    <2>1. x \in gone /\ stored + 1 \in Nat /\ stored < stored + 1 /\ stored + 1 <= x
      BY <1>1, <1>3 DEF Given
    <2>2. stored + 1 \in gone
      BY <2>1 DEF GoneIsTail
    <2> QED BY <1>1, <2>1, <2>2 DEF Before
  <1> QED BY <1>1, <1>2, <1>3

LEMMA InsertKeeps ==
    ASSUME TraceInv, NEW w \in Writers, Insert(w)
    PROVE  TraceInv' /\ own'[w] = stored + 1 /\ stored' = stored + 1
           /\ saved' = saved /\ gone' = gone
           /\ \A v \in Writers \ {w} : own'[v] = own[v]
  <1>1. /\ stored \in Nat /\ line \in Nat /\ log \in Seq(Nat) /\ saved \in Nat
        /\ saved <= stored
        /\ \A v \in Writers : own[v] \in Nat /\ place[v] \in Nat /\ place[v] <= line
    BY DEF TraceInv, TraceTyped, InLine
  <1>2. /\ stage[w] = "idle" /\ stored' = stored + 1 /\ line' = line + 1 /\ log' = log
        /\ saved' = saved /\ gone' = gone
        /\ own' = [own EXCEPT ![w] = stored + 1]
        /\ stage' = [stage EXCEPT ![w] = "inserted"]
        /\ place' = [place EXCEPT ![w] = line + 1]
    BY DEF Insert
  <1>3. TraceTyped'
    BY <1>1, <1>2 DEF TraceInv, TraceTyped
  <1>4. /\ own'[w] = stored + 1 /\ stage'[w] = "inserted" /\ place'[w] = line + 1
        /\ \A v \in Writers \ {w} :
              own'[v] = own[v] /\ stage'[v] = stage[v] /\ place'[v] = place[v]
    BY <1>2 DEF TraceInv, TraceTyped
  <1>5. InLine'
    BY <1>1, <1>2, <1>4 DEF TraceInv, InLine, InFlight, Inserted, Committed
  <1>6. /\ \A x \in Given : Before(x, stored + 1) /\ x \in Given'
        /\ stored + 1 \in Given'
    <2>1. ASSUME NEW x \in Given PROVE Before(x, stored + 1) /\ x \in Given'
      BY <1>1, <1>2, NextIsBehind DEF TraceInv, Given
    <2> QED BY <1>1, <1>2, <2>1 DEF Given
  <1>7. \A v \in Writers : InFlight(v) => Before(own[v], stored + 1)
    BY <1>6 DEF TraceInv, LogBehind
  <1>8. GoneIsTail'
    BY <1>1, <1>2 DEF TraceInv, GoneIsTail
  <1>9. IdsInLine'
    <2> SUFFICES ASSUME NEW u \in Writers, NEW v \in Writers
        PROVE  /\ Inserted(u)' /\ Inserted(v)' /\ place'[u] < place'[v]
                     => Before(own'[u], own'[v])
               /\ Committed(u)' /\ Committed(v)' /\ place'[u] < place'[v]
                     => Before(own'[u], own'[v])
               /\ Committed(u)' /\ Inserted(v)' => Before(own'[u], own'[v])
      BY <1>2 DEF IdsInLine, Before
    <2>1. CASE u # w /\ v # w
      BY <2>1, <1>4 DEF TraceInv, IdsInLine, Inserted, Committed
    <2>2. CASE u = w
      BY <2>2, <1>1, <1>4 DEF Inserted, Committed
    <2>3. CASE u # w /\ v = w
      BY <2>3, <1>1, <1>4, <1>7 DEF Inserted, Committed, InFlight
    <2> QED BY <2>1, <2>2, <2>3
  <1>10. LogBehind'
    <2>1. \A k \in DOMAIN log : 0 < log[k] /\ log[k] \in Given
      BY DEF TraceInv, LogBehind
    <2>2. \A k \in DOMAIN log' : 0 < log'[k] /\ log'[k] \in Given'
      BY <2>1, <1>2, <1>6
    <2>3. \A k \in DOMAIN log' : Before(log'[k], own'[w])
      BY <2>1, <1>2, <1>4, <1>6
    <2>4. \A v \in Writers \ {w} :
             InFlight(v)' => /\ 0 < own'[v] /\ own'[v] \in Given'
                             /\ \A k \in DOMAIN log' : Before(log'[k], own'[v])
      BY <1>2, <1>4, <1>6 DEF TraceInv, LogBehind, InFlight, Inserted, Committed
    <2>5. 0 < own'[w] /\ own'[w] \in Given'
      BY <1>1, <1>4, <1>6
    <2>6. \A a, b : Before(a, b)' <=> Before(a, b)
      BY <1>2 DEF Before
    <2> QED BY <2>2, <2>3, <2>4, <2>5, <2>6, <1>2 DEF LogBehind, Before
  <1>11. PublishedInOrder'
    BY <1>2 DEF TraceInv, PublishedInOrder
  <1> QED BY <1>2, <1>3, <1>4, <1>5, <1>8, <1>9, <1>10, <1>11 DEF TraceInv

LEMMA CommitKeeps ==
    ASSUME TraceInv, NEW w \in Writers, Commit(w)
    PROVE  TraceInv'
  <1>1. /\ stored \in Nat /\ line \in Nat /\ log \in Seq(Nat)
        /\ \A v \in Writers : own[v] \in Nat /\ place[v] \in Nat /\ place[v] <= line
    BY DEF TraceInv, TraceTyped, InLine
  <1>2. /\ Inserted(w) /\ place[w] = 1
        /\ UNCHANGED <<stored, gone, own, line, log>> /\ saved' = stored
        /\ stage' = [stage EXCEPT ![w] = "committed"]
        /\ place' = [Without(w) EXCEPT ![w] = line]
    BY DEF Commit, Resumes, Inserted
  <1>3. /\ Without(w) \in [Writers -> Nat] /\ line - 1 \in Nat /\ line > 0
        /\ \A v \in Writers \ {w} :
              /\ Without(w)[v] <= line - 1
              /\ InFlight(v) => Without(w)[v] > 0
              /\ \A u \in Writers \ {w} :
                    /\ u # v /\ Without(w)[u] > 0 => Without(w)[u] # Without(w)[v]
                    /\ place[u] < place[v] <=> Without(w)[u] < Without(w)[v]
    BY <1>2, WithoutKeeps DEF TraceInv, InFlight
  <1>4. /\ stage'[w] = "committed" /\ place'[w] = line
        /\ \A v \in Writers \ {w} : stage'[v] = stage[v] /\ place'[v] = Without(w)[v]
    BY <1>2, <1>3 DEF TraceInv, TraceTyped
  <1>5. TraceTyped'
    BY <1>1, <1>2, <1>3 DEF TraceInv, TraceTyped
  <1>6. \A v \in Writers \ {w} : Without(w)[v] \in Nat /\ Without(w)[v] < line
    BY <1>1, <1>3
  <1>7. InLine'
    BY <1>1, <1>2, <1>3, <1>4, <1>6 DEF InLine, InFlight, Inserted, Committed
  <1>8. \A v \in Writers \ {w} : Inserted(v) => Before(own[w], own[v])
    <2> SUFFICES ASSUME NEW v \in Writers \ {w}, Inserted(v) PROVE Before(own[w], own[v])
      OBVIOUS
    <2>1. place[v] > 0 /\ place[v] # place[w]
      BY <1>2 DEF TraceInv, InLine, InFlight
    <2>2. place[w] < place[v]
      BY <2>1, <1>1, <1>2
    <2> QED BY <2>2, <1>2 DEF TraceInv, IdsInLine
  <1>9. IdsInLine'
    <2> SUFFICES ASSUME NEW u \in Writers, NEW v \in Writers
        PROVE  /\ Inserted(u)' /\ Inserted(v)' /\ place'[u] < place'[v]
                     => Before(own'[u], own'[v])
               /\ Committed(u)' /\ Committed(v)' /\ place'[u] < place'[v]
                     => Before(own'[u], own'[v])
               /\ Committed(u)' /\ Inserted(v)' => Before(own'[u], own'[v])
      BY <1>2 DEF IdsInLine, Before
    <2>1. CASE u # w /\ v # w
      BY <2>1, <1>2, <1>3, <1>4 DEF TraceInv, IdsInLine, Inserted, Committed
    <2>2. CASE u = w /\ v = w
      BY <2>2, <1>1, <1>4 DEF Inserted, Committed
    <2>3. CASE u = w /\ v # w
      BY <2>3, <1>1, <1>2, <1>4, <1>6, <1>8 DEF Inserted, Committed
    <2>4. CASE u # w /\ v = w
      BY <2>4, <1>2, <1>4 DEF TraceInv, IdsInLine, Inserted, Committed
    <2> QED BY <2>1, <2>2, <2>3, <2>4
  <1>10. LogBehind'
    BY <1>2, <1>4 DEF TraceInv, LogBehind, InFlight, Inserted, Committed, Given, Before
  <1>11. PublishedInOrder' /\ GoneIsTail'
    BY <1>2 DEF TraceInv, PublishedInOrder, GoneIsTail
  <1> QED BY <1>5, <1>7, <1>9, <1>10, <1>11 DEF TraceInv

(* Rows are kept, or undone: what was given stays given, and no order between  *)
(* ids is lost.                                                              *)
LEMMA GivenStays ==
    ASSUME TraceInv, CommitElsewhere \/ Rollback
    PROVE  /\ TraceInv' /\ Given \subseteq Given' /\ gone \subseteq gone'
           /\ stored' \in Nat
           /\ \A n \in Nat : n \notin gone' /\ n <= stored => n <= stored'
  <1>1. /\ UNCHANGED <<stage, own, place, line, log>>
        /\ \/ saved' = stored /\ UNCHANGED <<stored, gone>>
           \/ /\ stored' = saved /\ saved' = saved
              /\ gone' = gone \cup (saved + 1)..stored
    BY DEF CommitElsewhere, Rollback
  <1>2. saved \in Nat /\ stored \in Nat /\ saved <= stored /\ gone \subseteq Nat
    BY DEF TraceInv, TraceTyped
  <1>3. /\ Given \subseteq Given' /\ gone \subseteq gone' /\ stored' \in Nat
        /\ \A n \in Nat : n \notin gone' /\ n <= stored => n <= stored'
    BY <1>1, <1>2 DEF Given
  <1>4. TraceTyped'
    <2>1. saved' \in Nat /\ saved' <= stored'
      BY <1>1, <1>2
    <2>2. (saved + 1)..stored \subseteq Nat
      BY <1>2
    <2>3. gone' \subseteq Nat
      BY <1>1, <1>2, <2>2
    <2> QED BY <1>1, <1>3, <2>1, <2>3 DEF TraceInv, TraceTyped
  <1>5. GoneIsTail'
    <2> SUFFICES ASSUME NEW g \in gone', NEW n \in Nat, stored' < n, n <= g
                 PROVE  n \in gone'
      BY DEF GoneIsTail
    <2>1. CASE n <= stored
      BY <1>3, <2>1, <1>2
    <2>2. CASE ~(n <= stored)
      <3>1. g \in gone
        BY <1>1, <1>2, <2>2
      <3> QED BY <3>1, <2>2, <1>2, <1>3 DEF TraceInv, GoneIsTail
    <2> QED BY <2>1, <2>2
  <1>6. \A a, b : Before(a, b) => Before(a, b)'
    BY <1>3 DEF Before
  <1>7. InLine'
    BY <1>1 DEF TraceInv, InLine, InFlight, Inserted, Committed
  <1>8. IdsInLine'
    BY <1>1, <1>3 DEF TraceInv, IdsInLine, Inserted, Committed, Before
  <1>9. LogBehind'
    BY <1>1, <1>3 DEF TraceInv, LogBehind, InFlight, Inserted, Committed, Before
  <1>10. PublishedInOrder'
    BY <1>1, <1>3 DEF TraceInv, PublishedInOrder
  <1> QED BY <1>3, <1>4, <1>5, <1>7, <1>8, <1>9, <1>10 DEF TraceInv

LEMMA LeaveKeeps ==
    ASSUME TraceInv, NEW w \in Writers, InFlight(w), LeaveLine(w), UNCHANGED <<table, own>>
    PROVE  /\ InLine' /\ IdsInLine'
           /\ UNCHANGED <<stored, saved, gone>> /\ line' \in Nat
           /\ stage' \in [Writers -> {"idle", "inserted", "committed"}]
           /\ own' \in [Writers -> Nat] /\ place' \in [Writers -> Nat]
           /\ \A v \in Writers : InFlight(v)' => InFlight(v) /\ v # w
  <1>1. /\ stored \in Nat /\ line \in Nat
        /\ \A v \in Writers : own[v] \in Nat /\ place[v] \in Nat /\ place[v] <= line
    BY DEF TraceInv, TraceTyped, InLine
  <1>2. /\ stage' = [stage EXCEPT ![w] = "idle"] /\ place' = Without(w) /\ line' = line - 1
        /\ UNCHANGED <<stored, saved, gone, own>>
    BY DEF LeaveLine, table
  <1>3. /\ Without(w) \in [Writers -> Nat] /\ Without(w)[w] = 0
        /\ line - 1 \in Nat /\ line > 0
        /\ \A v \in Writers \ {w} :
              /\ Without(w)[v] <= line - 1
              /\ InFlight(v) => Without(w)[v] > 0
              /\ \A u \in Writers \ {w} :
                    /\ u # v /\ Without(w)[u] > 0 => Without(w)[u] # Without(w)[v]
                    /\ place[u] < place[v] <=> Without(w)[u] < Without(w)[v]
    BY WithoutKeeps DEF TraceInv
  <1>4. /\ stage'[w] = "idle" /\ \A v \in Writers \ {w} : stage'[v] = stage[v]
    BY <1>2 DEF TraceInv, TraceTyped
  <1>5. InLine'
    BY <1>1, <1>2, <1>3, <1>4 DEF InLine, InFlight, Inserted, Committed
  <1>6. IdsInLine'
    <2> SUFFICES ASSUME NEW u \in Writers, NEW v \in Writers
        PROVE  /\ Inserted(u)' /\ Inserted(v)' /\ place'[u] < place'[v]
                     => Before(own'[u], own'[v])
               /\ Committed(u)' /\ Committed(v)' /\ place'[u] < place'[v]
                     => Before(own'[u], own'[v])
               /\ Committed(u)' /\ Inserted(v)' => Before(own'[u], own'[v])
      BY <1>2 DEF IdsInLine, Before
    <2>1. CASE u # w /\ v # w
      BY <2>1, <1>2, <1>3, <1>4 DEF TraceInv, IdsInLine, Inserted, Committed
    <2>2. CASE u = w \/ v = w
      BY <2>2, <1>4 DEF Inserted, Committed
    <2> QED BY <2>1, <2>2
  <1>7. \A v \in Writers : InFlight(v)' => InFlight(v) /\ v # w
    BY <1>4 DEF InFlight, Inserted, Committed
  <1> QED
    BY <1>1, <1>2, <1>3, <1>5, <1>6, <1>7 DEF TraceInv, TraceTyped

(* A writer leaves without publishing: cancelled, or a steering message.       *)
LEMMA LeavesKeeps ==
    ASSUME TraceInv, NEW w \in Writers, InFlight(w), LeaveLine(w),
           UNCHANGED <<table, own, log>>
    PROVE  TraceInv'
  <1>1. /\ InLine' /\ IdsInLine' /\ TraceTyped'
        /\ \A v \in Writers : InFlight(v)' => InFlight(v)
    BY LeaveKeeps DEF TraceInv, TraceTyped, table
  <1>2. UNCHANGED <<stored, gone, own, log>>
    BY DEF table
  <1>3. LogBehind' /\ PublishedInOrder' /\ GoneIsTail'
    BY <1>1, <1>2 DEF TraceInv, LogBehind, PublishedInOrder, GoneIsTail, Given, Before
  <1> QED BY <1>1, <1>3 DEF TraceInv

(* The first in line publishes the oldest id in flight.                       *)
LEMMA PublishKeeps ==
    ASSUME TraceInv, NEW w \in Writers, Committed(w), place[w] = 1, LeaveLine(w),
           UNCHANGED <<table, own>>, log' = Append(log, own[w])
    PROVE  TraceInv'
  <1>1. /\ stored \in Nat /\ log \in Seq(Nat) /\ own[w] \in Nat /\ Len(log) \in Nat
        /\ \A v \in Writers : own[v] \in Nat /\ place[v] \in Nat
        /\ DOMAIN log = 1..Len(log)
        /\ \A k \in 1..Len(log) : log[k] \in Nat
    BY LenProperties, ElementOfSeq DEF TraceInv, TraceTyped
  <1>2. /\ InLine' /\ IdsInLine'
        /\ UNCHANGED <<stored, saved, gone>> /\ line' \in Nat
        /\ stage' \in [Writers -> {"idle", "inserted", "committed"}]
        /\ own' \in [Writers -> Nat] /\ place' \in [Writers -> Nat]
        /\ \A v \in Writers : InFlight(v)' => InFlight(v) /\ v # w
    BY LeaveKeeps DEF InFlight
  <1>3. /\ log' \in Seq(Nat) /\ DOMAIN log' = 1..(Len(log) + 1)
        /\ log'[Len(log) + 1] = own[w] /\ \A k \in 1..Len(log) : log'[k] = log[k]
    BY <1>1, AppendProperties, LenProperties
  <1>4. /\ \A k \in DOMAIN log : /\ 0 < log[k] /\ log[k] \in Given
                                 /\ Before(log[k], own[w])
        /\ 0 < own[w] /\ own[w] \in Given
    BY DEF TraceInv, LogBehind, InFlight
  <1>5. \A v \in Writers : InFlight(v) /\ v # w => Before(own[w], own[v])
    <2> SUFFICES ASSUME NEW v \in Writers, InFlight(v), v # w
                 PROVE  Before(own[w], own[v])
      OBVIOUS
    <2>1. place[v] > 0 /\ place[v] # place[w]
      BY DEF TraceInv, InLine, InFlight
    <2>2. place[w] < place[v]
      BY <2>1, <1>1
    <2> QED BY <2>2 DEF TraceInv, IdsInLine, InFlight
  <1>6. TraceTyped'
    BY <1>2, <1>3 DEF TraceInv, TraceTyped
  <1>7. LogBehind'
    <2>1. \A v \in Writers :
             InFlight(v)' => /\ 0 < own[v] /\ own[v] \in Given /\ Before(own[w], own[v])
                             /\ \A k \in DOMAIN log : Before(log[k], own[v])
      BY <1>2, <1>5 DEF TraceInv, LogBehind
    <2>2. \A k \in DOMAIN log' : k \in DOMAIN log \/ k = Len(log) + 1
      BY <1>1, <1>3
    <2>3. Given' = Given /\ own' = own /\ gone' = gone
      BY <1>2 DEF Given
    <2> QED BY <2>1, <2>2, <2>3, <1>1, <1>3, <1>4 DEF LogBehind, Before
  <1>8. PublishedInOrder'
    <2> SUFFICES ASSUME NEW i \in 1..(Len(log) + 1), NEW j \in 1..(Len(log) + 1), i < j
                 PROVE  Before(log'[i], log'[j])
      BY <1>2, <1>3 DEF PublishedInOrder, Before
    <2>1. CASE j = Len(log) + 1
      <3>1. i \in 1..Len(log)
        BY <2>1, <1>1
      <3> QED BY <2>1, <3>1, <1>1, <1>3, <1>4
    <2>2. CASE j # Len(log) + 1
      <3>1. i \in 1..Len(log) /\ j \in 1..Len(log)
        BY <2>2, <1>1
      <3> QED BY <3>1, <1>1, <1>3 DEF TraceInv, PublishedInOrder, Before
    <2> QED BY <2>1, <2>2
  <1>9. GoneIsTail'
    BY <1>2 DEF TraceInv, GoneIsTail
  <1> QED BY <1>2, <1>6, <1>7, <1>8, <1>9 DEF TraceInv

-----------------------------------------------------------------------------
(* The trace *)

LEMMA TraceStep == TraceInv /\ [Next]_vars => TraceInv'
  <1> SUFFICES ASSUME TraceInv, [Next]_vars
               PROVE  TraceInv'
    OBVIOUS
  <1>1. ASSUME UNCHANGED trace PROVE TraceInv'
    BY <1>1 DEF trace, table, TraceInv, TraceTyped, GoneIsTail, InLine, IdsInLine, LogBehind,
                PublishedInOrder, Inserted, Committed, InFlight, Given, Before
  <1>2. ASSUME NEW w \in Writers, Emit(w) PROVE TraceInv'
    BY <1>2, InsertKeeps DEF Emit
  <1>3. ASSUME NEW w \in Writers, Commit(w) PROVE TraceInv'
    BY <1>3, CommitKeeps
  <1>4. ASSUME NEW w \in Writers, Publish(w) PROVE TraceInv'
    BY <1>4, PublishKeeps DEF Publish, Resumes, Committed
  <1>5. ASSUME NEW w \in Writers, Abandon(w) PROVE TraceInv'
    <2>1. InFlight(w)
      BY <1>5 DEF Abandon, InFlight, Inserted, Committed, TraceInv, TraceTyped
    <2> QED BY <1>5, <2>1, LeavesKeeps DEF Abandon
  <1>6. ASSUME NEW m \in Steers, Steer(m) \/ SteerAnswered(m) PROVE TraceInv'
    <2>1. m \in Writers
      BY DEF Writers
    <2>2. CASE Steer(m)
      BY <2>1, <2>2, InsertKeeps DEF Steer
    <2>3. CASE SteerAnswered(m)
      BY <2>1, <2>3, LeavesKeeps DEF SteerAnswered, InFlight, Committed
    <2> QED BY <1>6, <2>2, <2>3
  <1>7. ASSUME NEW s \in Pages,
               OpenPage(s) \/ Attach(s) \/ Replay(s) \/ Serve(s) \/ Disconnect(s)
        PROVE  TraceInv'
    BY <1>1, <1>7 DEF OpenPage, Attach, Replay, Serve, Disconnect
  <1>8. CASE StartRun \/ CheckMessages \/ EndRun
    BY <1>1, <1>8 DEF StartRun, CheckMessages, EndRun
  <1>9. CASE CommitElsewhere \/ Rollback
    BY <1>9, GivenStays
  <1>10. CASE UNCHANGED vars
    BY <1>1, <1>10 DEF vars
  <1> QED
    BY <1>2, <1>3, <1>4, <1>5, <1>6, <1>7, <1>8, <1>9, <1>10 DEF Next

LEMMA TraceInit == Init => TraceInv
  <1> SUFFICES ASSUME Init PROVE TraceInv
    OBVIOUS
  <1>1. log \in Seq(Nat) /\ DOMAIN log = {}
    BY EmptySeq DEF Init
  <1> QED
    BY <1>1 DEF Init, TraceInv, TraceTyped, GoneIsTail, InLine, IdsInLine, LogBehind,
                PublishedInOrder, Inserted, Committed, InFlight

THEOREM TraceInvariant == Spec => []TraceInv
  <1> QED BY TraceInit, TraceStep, PTL DEF Spec

(* Events are published in the order of their ids whatever the writers do     *)
(* between their insert, their commit and their publish, ids that a rollback  *)
(* of the shared connection gave back excepted.                              *)
THEOREM PublishesInOrder == Spec => []PublishedInOrder
  <1>1. TraceInv => PublishedInOrder
    BY DEF TraceInv
  <1> QED BY <1>1, TraceInvariant, PTL

-----------------------------------------------------------------------------
(* Steering *)

Heard == [msg : Steers, by : Nat]

SteerTyped ==
    /\ run \in Nat /\ runs \in Nat /\ run <= runs
    /\ accepted \in [Steers -> Nat] /\ (\A m \in Steers : accepted[m] <= runs)
    /\ box \in Seq(Steers) /\ heard \in Seq(Heard)

\* One message and then another: their ids tell, unless they were given back.
Ordered(m, n) == m # n /\ Before(own[m], own[n])

\* The mailbox holds what this run accepted, in order and after all that was heard.
BoxInOrder ==
    /\ \A k \in DOMAIN box : run # 0 /\ accepted[box[k]] = run /\ own[box[k]] \in Given
    /\ \A j, k \in DOMAIN box : j < k => Ordered(box[j], box[k])
    /\ \A k \in DOMAIN heard : heard[k].by # 0 /\ own[heard[k].msg] \in Given
    /\ \A j \in DOMAIN heard, k \in DOMAIN box : Ordered(heard[j].msg, box[k])

SteerInv == SteerTyped /\ BoxInOrder /\ SteeringReachesItsRun

LEMMA SteerDomains ==
    ASSUME SteerTyped
    PROVE  /\ DOMAIN box = 1..Len(box) /\ Len(box) \in Nat
           /\ DOMAIN heard = 1..Len(heard) /\ Len(heard) \in Nat
           /\ \A k \in 1..Len(box) : box[k] \in Steers
           /\ \A k \in 1..Len(heard) : heard[k].msg \in Steers /\ heard[k].by \in Nat
  <1>1. \A k \in 1..Len(heard) : heard[k] \in Heard
    BY ElementOfSeq DEF SteerTyped
  <1> QED BY <1>1, LenProperties, ElementOfSeq DEF SteerTyped, Heard

(* Other writers do not touch the ids of steering messages.                   *)
LEMMA SteerSame ==
    ASSUME TraceInv, SteerInv, UNCHANGED steering,
           \A m \in Steers : own'[m] = own[m],
           Given \subseteq Given', gone \subseteq gone'
    PROVE  SteerInv'
  <1>1. UNCHANGED <<run, runs, box, accepted, heard>>
    BY DEF steering
  <1>2. /\ DOMAIN box = 1..Len(box) /\ DOMAIN heard = 1..Len(heard)
        /\ \A k \in 1..Len(box) : box[k] \in Steers
        /\ \A k \in 1..Len(heard) : heard[k].msg \in Steers
    BY SteerDomains DEF SteerInv
  <1>3. SteerTyped'
    BY <1>1 DEF SteerInv, SteerTyped
  <1>4. \A m \in Steers : own[m] \in Given => own'[m] \in Given'
    OBVIOUS
  <1>5. \A m, n \in Steers : Ordered(m, n) => Ordered(m, n)'
    BY DEF Ordered, Before
  <1>6. BoxInOrder'
    BY <1>1, <1>2, <1>4, <1>5 DEF SteerInv, BoxInOrder
  <1>7. SteeringReachesItsRun'
    BY <1>1, <1>2 DEF SteerInv, SteeringReachesItsRun, Elements
  <1> QED BY <1>3, <1>6, <1>7 DEF SteerInv

LEMMA SteerAccepted ==
    ASSUME TraceInv, SteerInv, NEW m \in Steers, Steer(m)
    PROVE  SteerInv'
  <1>1. /\ accepted[m] = 0 /\ run # 0
        /\ box' = Append(box, m) /\ accepted' = [accepted EXCEPT ![m] = run]
        /\ UNCHANGED <<run, runs, heard>>
    BY DEF Steer
  <1>2. /\ own'[m] = stored + 1 /\ stored' = stored + 1 /\ gone' = gone
        /\ \A w \in Steers \ {m} : own'[w] = own[w]
    BY InsertKeeps DEF Steer, Writers
  <1>3. /\ DOMAIN box = 1..Len(box) /\ Len(box) \in Nat
        /\ DOMAIN heard = 1..Len(heard) /\ Len(heard) \in Nat
        /\ \A k \in 1..Len(box) : box[k] \in Steers
        /\ \A k \in 1..Len(heard) : heard[k].msg \in Steers /\ heard[k].by \in Nat
    BY SteerDomains DEF SteerInv
  <1>4. stored \in Nat /\ \A w \in Steers : own[w] \in Nat
    BY DEF TraceInv, TraceTyped, Writers
  <1>5. /\ box' \in Seq(Steers) /\ DOMAIN box' = 1..(Len(box) + 1)
        /\ box'[Len(box) + 1] = m /\ \A k \in 1..Len(box) : box'[k] = box[k]
    BY <1>1, AppendProperties, LenProperties DEF SteerInv, SteerTyped
  <1>6. \A w \in Steers : accepted'[w] = IF w = m THEN run ELSE accepted[w]
    BY <1>1 DEF SteerInv, SteerTyped
  <1>7. /\ \A k \in 1..Len(box) : box[k] # m /\ own[box[k]] \in Given
        /\ \A k \in 1..Len(heard) : heard[k].msg # m /\ own[heard[k].msg] \in Given
    BY <1>1, <1>3 DEF SteerInv, BoxInOrder, SteeringReachesItsRun
  \* what was accepted before comes before it, in the order it had
  <1>11. /\ Given \subseteq Given' /\ own'[m] \in Given'
         /\ \A w \in Steers \ {m} : own[w] \in Given => Ordered(w, m)'
         /\ \A u, w \in Steers \ {m} : Ordered(u, w) => Ordered(u, w)'
    <2>1. \A x \in Given : Before(x, stored + 1)
      BY NextIsBehind DEF TraceInv
    <2>2. Given \subseteq Given' /\ own'[m] \in Given'
      BY <1>2, <1>4 DEF Given
    <2> QED BY <2>1, <2>2, <1>2 DEF Ordered, Before
  <1>8. SteerTyped'
    BY <1>1, <1>5, <1>6 DEF SteerInv, SteerTyped
  <1>9. BoxInOrder'
    <2>1. \A k \in 1..(Len(box) + 1) : k \in 1..Len(box) \/ k = Len(box) + 1
      BY <1>3
    <2>2. \A k \in DOMAIN box' : run' # 0 /\ accepted'[box'[k]] = run' /\ own'[box'[k]] \in Given'
      BY <2>1, <1>1, <1>2, <1>3, <1>5, <1>6, <1>7, <1>11 DEF SteerInv, BoxInOrder
    <2>3. \A j, k \in DOMAIN box' : j < k => Ordered(box[j], box[k])'
      <3> SUFFICES ASSUME NEW j \in 1..(Len(box) + 1), NEW k \in 1..(Len(box) + 1), j < k
                   PROVE  Ordered(box[j], box[k])'
        BY <1>5
      <3>1. j \in 1..Len(box)
        BY <1>3
      <3>2. CASE k \in 1..Len(box)
        <4>1. Ordered(box[j], box[k])
          BY <3>1, <3>2, <1>3 DEF SteerInv, BoxInOrder
        <4> QED BY <4>1, <3>1, <3>2, <1>3, <1>5, <1>7, <1>11 DEF Ordered
      <3>3. CASE k = Len(box) + 1
        BY <3>1, <3>3, <1>3, <1>5, <1>7, <1>11 DEF Ordered
      <3> QED BY <2>1, <3>2, <3>3
    <2>4. \A k \in DOMAIN heard' : heard'[k].by # 0 /\ own'[heard'[k].msg] \in Given'
      BY <1>1, <1>2, <1>3, <1>7, <1>11 DEF SteerInv, BoxInOrder
    <2>5. \A j \in DOMAIN heard', k \in DOMAIN box' : Ordered(heard[j].msg, box[k])'
      <3> SUFFICES ASSUME NEW j \in 1..Len(heard), NEW k \in 1..(Len(box) + 1)
                   PROVE  Ordered(heard[j].msg, box[k])'
        BY <1>1, <1>3, <1>5
      <3>1. heard' = heard /\ heard[j].msg \in Steers \ {m}
        BY <1>1, <1>3, <1>7
      <3>2. CASE k \in 1..Len(box)
        <4>1. Ordered(heard[j].msg, box[k])
          BY <3>2, <1>3 DEF SteerInv, BoxInOrder
        <4> QED BY <3>1, <3>2, <4>1, <1>3, <1>5, <1>7, <1>11 DEF Ordered
      <3>3. CASE k = Len(box) + 1
        BY <3>1, <3>3, <1>3, <1>5, <1>7, <1>11 DEF Ordered
      <3> QED BY <2>1, <3>2, <3>3
    <2> QED BY <2>2, <2>3, <2>4, <2>5 DEF BoxInOrder
  <1>10. SteeringReachesItsRun'
    <2>1. \A k \in DOMAIN heard' : accepted'[heard'[k].msg] = heard'[k].by
      BY <1>1, <1>3, <1>6, <1>7 DEF SteerInv, SteeringReachesItsRun
    <2>2. \A j, k \in DOMAIN heard' :
             j < k => /\ heard'[j].msg # heard'[k].msg
                      /\ \/ own'[heard'[j].msg] < own'[heard'[k].msg]
                         \/ {own'[heard'[j].msg], own'[heard'[k].msg]} \subseteq gone'
      BY <1>1, <1>2, <1>3, <1>7 DEF SteerInv, SteeringReachesItsRun
    <2>3. \A w \in Steers : run' # 0 /\ accepted'[w] = run' =>
             w \in Elements(box') \/ \E k \in DOMAIN heard' : heard'[k].msg = w
      <3> SUFFICES ASSUME NEW w \in Steers, accepted'[w] = run'
                   PROVE  w \in Elements(box') \/ \E k \in DOMAIN heard : heard[k].msg = w
        BY <1>1
      <3>1. CASE w = m
        <4>1. Len(box) + 1 \in DOMAIN box' /\ box'[Len(box) + 1] = m
          BY <1>3, <1>5
        <4> QED BY <3>1, <4>1 DEF Elements
      <3>2. CASE w # m
        <4>1. w \in Elements(box) \/ \E k \in DOMAIN heard : heard[k].msg = w
          BY <3>2, <1>1, <1>6 DEF SteerInv, SteeringReachesItsRun
        <4>2. Elements(box) \subseteq Elements(box')
          BY <1>3, <1>5 DEF Elements
        <4> QED BY <4>1, <4>2
      <3> QED BY <3>1, <3>2
    <2> QED BY <2>1, <2>2, <2>3 DEF SteeringReachesItsRun
  <1> QED BY <1>8, <1>9, <1>10 DEF SteerInv

(* The whole mailbox is heard, behind what was heard before.                  *)
LEMMA MailboxHeard ==
    ASSUME SteerInv, CheckMessages
    PROVE  SteerInv'
  <1> DEFINE news == [k \in 1..Len(box) |-> [msg |-> box[k], by |-> run]]
             n == Len(heard)
  <1>1. /\ run # 0 /\ heard' = heard \o news /\ box' = <<>>
        /\ UNCHANGED <<run, runs, accepted, stored, gone, own>>
    BY DEF CheckMessages, trace, table
  <1>2. /\ DOMAIN box = 1..Len(box) /\ Len(box) \in Nat
        /\ DOMAIN heard = 1..n /\ n \in Nat
        /\ \A k \in 1..Len(box) : box[k] \in Steers
        /\ \A k \in 1..n : heard[k].msg \in Steers /\ heard[k].by \in Nat
    BY SteerDomains DEF SteerInv
  <1>3. news \in Seq(Heard) /\ Len(news) = Len(box)
    <2>1. \A k \in 1..Len(box) : news[k] \in Heard
      BY <1>2 DEF Heard, SteerInv, SteerTyped
    <2>2. news \in [1..Len(box) -> Heard]
      BY <2>1
    <2>3. news \in Seq(Heard)
      <3> HIDE DEF news
      <3> QED BY <2>2, <1>2, SeqDef
    <2>4. DOMAIN news = 1..Len(news) /\ DOMAIN news = 1..Len(box)
      <3> HIDE DEF news
      <3> QED BY <2>2, <2>3, LenProperties
    <2>5. Len(news) \in Nat
      <3> HIDE DEF news
      <3> QED BY <2>3, LenProperties
    <2>6. ASSUME NEW a \in Nat, NEW b \in Nat, 1..a = 1..b, a < b PROVE FALSE
      <3>1. b \in 1..b /\ b \notin 1..a
        BY <2>6
      <3> QED BY <2>6, <3>1
    <2> HIDE DEF news
    <2> PICK a \in Nat : a = Len(news)
      BY <2>5
    <2> PICK b \in Nat : b = Len(box)
      BY <1>2
    <2>7. 1..a = 1..b
      BY <2>4
    <2>8. a = b
      <3>1. ~(a < b) /\ ~(b < a)
        BY <2>6, <2>7
      <3> QED BY <3>1
    <2> QED BY <2>3, <2>8
  <1>4. /\ heard' \in Seq(Heard) /\ DOMAIN heard' = 1..(n + Len(box))
        /\ \A k \in 1..n : heard'[k] = heard[k]
        /\ \A k \in (n + 1)..(n + Len(box)) : heard'[k] = news[k - n]
    <2>1. /\ heard' \in Seq(Heard) /\ Len(heard') = n + Len(news)
          /\ \A k \in 1..(n + Len(news)) :
                heard'[k] = IF k <= n THEN heard[k] ELSE news[k - n]
      <3> HIDE DEF news
      <3> QED BY <1>1, <1>3, ConcatProperties DEF SteerInv, SteerTyped
    <2>2. DOMAIN heard' = 1..Len(heard')
      BY <2>1, LenProperties
    <2> HIDE DEF news
    <2> QED BY <2>1, <2>2, <1>2, <1>3
  <1>5. \A k \in (n + 1)..(n + Len(box)) :
          /\ k - n \in 1..Len(box)
          /\ heard'[k].msg = box[k - n] /\ heard'[k].by = run
    <2> SUFFICES ASSUME NEW k \in (n + 1)..(n + Len(box))
                 PROVE  /\ k - n \in 1..Len(box)
                        /\ heard'[k].msg = box[k - n] /\ heard'[k].by = run
      OBVIOUS
    <2> PICK b \in Nat : b = Len(box)
      BY <1>2
    <2> PICK a \in Nat : a = n
      BY <1>2
    <2>3. k - a \in 1..b
      OBVIOUS
    <2> PICK l \in 1..Len(box) : l = k - n
      BY <2>3
    <2>1. news[l] = [msg |-> box[l], by |-> run]
      OBVIOUS
    <2>2. heard'[k] = news[l]
      <3> HIDE DEF news
      <3> QED BY <1>4
    <2> HIDE DEF news
    <2> QED BY <2>1, <2>2
  <1>6. \A k \in 1..(n + Len(box)) : k \in 1..n \/ k \in (n + 1)..(n + Len(box))
    BY <1>2
  <1>7. SteerTyped'
    BY <1>1, <1>4, EmptySeq DEF SteerInv, SteerTyped
  <1>8. DOMAIN box' = {} /\ Elements(box') = {}
    BY <1>1 DEF Elements
  <1> HIDE DEF news
  <1>9. BoxInOrder'
    <2>1. \A k \in 1..n : heard'[k].by # 0 /\ own[heard'[k].msg] \in Given
      BY <1>2, <1>4 DEF SteerInv, BoxInOrder
    <2>2. \A k \in (n + 1)..(n + Len(box)) : heard'[k].by # 0 /\ own[heard'[k].msg] \in Given
      BY <1>1, <1>2, <1>5 DEF SteerInv, BoxInOrder
    <2> QED BY <2>1, <2>2, <1>1, <1>4, <1>6, <1>8 DEF BoxInOrder, Given
  <1>10. SteeringReachesItsRun'
    <2>1. \A k \in DOMAIN heard' : accepted'[heard'[k].msg] = heard'[k].by
      <3>1. \A k \in 1..n : accepted[heard'[k].msg] = heard'[k].by
        BY <1>2, <1>4 DEF SteerInv, SteeringReachesItsRun
      <3>2. \A k \in (n + 1)..(n + Len(box)) : accepted[heard'[k].msg] = heard'[k].by
        BY <1>2, <1>5 DEF SteerInv, BoxInOrder
      <3> QED BY <3>1, <3>2, <1>1, <1>4, <1>6
    <2>2. ASSUME NEW j \in 1..(n + Len(box)), NEW k \in 1..(n + Len(box)), j < k
          PROVE  Ordered(heard'[j].msg, heard'[k].msg)
      <3>1. CASE k \in 1..n
        <4>1. j \in 1..n
          BY <2>2, <3>1, <1>2
        <4>2. Ordered(heard[j].msg, heard[k].msg)
          BY <2>2, <3>1, <4>1, <1>2
             DEF SteerInv, SteeringReachesItsRun, Ordered, Before
        <4> QED BY <4>1, <4>2, <3>1, <1>4
      <3>2. CASE k \in (n + 1)..(n + Len(box)) /\ j \in 1..n
        <4>1. k - n \in DOMAIN box /\ j \in DOMAIN heard
              /\ heard'[k].msg = box[k - n] /\ heard'[j] = heard[j]
          BY <3>2, <1>2, <1>4, <1>5
        <4> PICK l \in DOMAIN box : l = k - n
          BY <4>1
        <4>2. Ordered(heard[j].msg, box[l])
          BY <4>1 DEF SteerInv, BoxInOrder
        <4> QED BY <4>1, <4>2
      <3>3. CASE k \in (n + 1)..(n + Len(box)) /\ j \in (n + 1)..(n + Len(box))
        <4>1. /\ j - n < k - n /\ j - n \in DOMAIN box /\ k - n \in DOMAIN box
              /\ heard'[j].msg = box[j - n] /\ heard'[k].msg = box[k - n]
          BY <2>2, <3>3, <1>2, <1>5
        <4> PICK i \in DOMAIN box, l \in DOMAIN box : i = j - n /\ l = k - n
          BY <4>1
        <4>2. Ordered(box[i], box[l])
          BY <4>1 DEF SteerInv, BoxInOrder
        <4> QED BY <4>1, <4>2
      <3> QED BY <3>1, <3>2, <3>3, <1>6
    <2>3. ASSUME NEW m \in Steers, accepted[m] = run
          PROVE  \E k \in DOMAIN heard' : heard'[k].msg = m
      <3>1. m \in Elements(box) \/ \E k \in DOMAIN heard : heard[k].msg = m
        BY <2>3, <1>1 DEF SteerInv, SteeringReachesItsRun
      <3>2. CASE m \in Elements(box)
        <4>1. PICK k \in 1..Len(box) : box[k] = m
          BY <3>2, <1>2 DEF Elements
        <4>2. k + n \in (n + 1)..(n + Len(box)) /\ (k + n) - n = k
              /\ k + n \in 1..(n + Len(box))
          BY <1>2
        <4>3. heard'[k + n].msg = m
          BY <4>1, <4>2, <1>5
        <4> QED BY <4>2, <4>3, <1>4
      <3>3. CASE \E k \in DOMAIN heard : heard[k].msg = m
        <4>1. PICK k \in 1..n : heard[k].msg = m
          BY <3>3, <1>2
        <4>2. k \in 1..(n + Len(box))
          BY <1>2
        <4> QED BY <4>1, <4>2, <1>4
      <3> QED BY <3>1, <3>2, <3>3
    <2>4. \A j, k \in DOMAIN heard' :
             j < k => /\ heard'[j].msg # heard'[k].msg
                      /\ \/ own'[heard'[j].msg] < own'[heard'[k].msg]
                         \/ {own'[heard'[j].msg], own'[heard'[k].msg]} \subseteq gone'
      <3> SUFFICES ASSUME NEW j \in 1..(n + Len(box)), NEW k \in 1..(n + Len(box)), j < k
                   PROVE  /\ heard'[j].msg # heard'[k].msg
                          /\ \/ own'[heard'[j].msg] < own'[heard'[k].msg]
                             \/ {own'[heard'[j].msg], own'[heard'[k].msg]} \subseteq gone'
        BY <1>4
      <3>1. Ordered(heard'[j].msg, heard'[k].msg)
        BY <2>2
      <3>2. own' = own /\ gone' = gone
        BY <1>1
      <3> QED BY <3>1, <3>2 DEF Ordered, Before
    <2>5. \A m \in Steers : accepted'[m] = run' =>
             \E k \in DOMAIN heard' : heard'[k].msg = m
      BY <2>3, <1>1
    <2> QED
      BY <2>1, <2>4, <2>5 DEF SteeringReachesItsRun
  <1> QED BY <1>7, <1>9, <1>10 DEF SteerInv

\* The mailbox of a run that starts or has ended is empty, and no message was
\* accepted by a run that has not started.
LEMMA MailboxGone ==
    ASSUME SteerInv, StartRun \/ EndRun
    PROVE  SteerInv'
  <1>1. /\ box' = <<>> /\ UNCHANGED <<accepted, heard, stored, gone, own>>
        /\ \/ run' = runs + 1 /\ runs' = runs + 1
           \/ run' = 0 /\ runs' = runs
    BY DEF StartRun, EndRun, trace, table
  <1>2. /\ runs \in Nat /\ \A m \in Steers : accepted[m] \in Nat /\ accepted[m] <= runs
    BY DEF SteerInv, SteerTyped
  <1>3. SteerTyped'
    BY <1>1, <1>2, EmptySeq DEF SteerInv, SteerTyped
  <1>4. DOMAIN box' = {}
    BY <1>1
  <1>5. BoxInOrder'
    BY <1>1, <1>4 DEF SteerInv, BoxInOrder, Given
  <1>6. \A m \in Steers : run' # 0 => accepted[m] # run'
    BY <1>1, <1>2
  <1>7. SteeringReachesItsRun'
    BY <1>1, <1>6 DEF SteerInv, SteeringReachesItsRun
  <1> QED BY <1>3, <1>5, <1>7 DEF SteerInv

LEMMA SteerStep == TraceInv /\ SteerInv /\ [Next]_vars => SteerInv'
  <1> SUFFICES ASSUME TraceInv, SteerInv, [Next]_vars
               PROVE  SteerInv'
    OBVIOUS
  <1>1. ASSUME UNCHANGED <<steering, stored, gone, own>> PROVE SteerInv'
    BY <1>1, SteerSame DEF Given
  <1>2. ASSUME NEW w \in Writers, Emit(w) PROVE SteerInv'
    <2>1. /\ stored' = stored + 1 /\ UNCHANGED <<gone, steering>>
          /\ \A v \in Writers \ {w} : own'[v] = own[v]
      BY <1>2, InsertKeeps DEF Emit
    <2>3. Given \subseteq Given'
      BY <2>1 DEF Given, TraceInv, TraceTyped
    <2>2. w \notin Steers /\ Steers \subseteq Writers
      BY <1>2, FeedAssumption DEF Emit, Writers
    <2> QED BY <2>1, <2>2, <2>3, SteerSame
  <1>3. ASSUME NEW w \in Writers, Commit(w) \/ Publish(w) \/ Abandon(w) PROVE SteerInv'
    BY <1>1, <1>3 DEF Commit, Publish, Abandon, table
  <1>4. ASSUME NEW m \in Steers, Steer(m) \/ SteerAnswered(m) PROVE SteerInv'
    <2>1. CASE Steer(m)
      BY <2>1, SteerAccepted
    <2>2. CASE SteerAnswered(m)
      BY <2>2, <1>1 DEF SteerAnswered, table
    <2> QED BY <1>4, <2>1, <2>2
  <1>5. ASSUME NEW s \in Pages,
               OpenPage(s) \/ Attach(s) \/ Replay(s) \/ Serve(s) \/ Disconnect(s)
        PROVE  SteerInv'
    BY <1>1, <1>5 DEF OpenPage, Attach, Replay, Serve, Disconnect, trace, table
  <1>6. CASE StartRun \/ CheckMessages \/ EndRun
    BY <1>6, MailboxHeard, MailboxGone
  <1>7. CASE CommitElsewhere \/ Rollback
    BY <1>7, GivenStays, SteerSame DEF CommitElsewhere, Rollback
  <1>8. CASE UNCHANGED vars
    BY <1>1, <1>8 DEF vars, trace, table
  <1> QED
    BY <1>2, <1>3, <1>4, <1>5, <1>6, <1>7, <1>8 DEF Next

LEMMA SteerInit == Init => SteerInv
  <1> SUFFICES ASSUME Init PROVE SteerInv
    OBVIOUS
  <1>1. /\ box \in Seq(Steers) /\ heard \in Seq(Heard)
        /\ DOMAIN box = {} /\ DOMAIN heard = {}
    BY EmptySeq DEF Init
  <1> QED
    BY <1>1 DEF Init, SteerInv, SteerTyped, BoxInOrder, SteeringReachesItsRun

(* A steering message is heard at most by the run that accepted it, in the     *)
(* order of acceptance, and is not lost while that run is in flight.          *)
THEOREM SteeringIsHeard == Spec => []SteeringReachesItsRun
  <1>1. TraceInv /\ SteerInv /\ [Next]_vars => (TraceInv /\ SteerInv)'
    BY TraceStep, SteerStep
  <1>2. SteerInv => SteeringReachesItsRun
    BY DEF SteerInv
  <1> QED BY <1>1, <1>2, TraceInit, SteerInit, PTL DEF Spec

-----------------------------------------------------------------------------
(* The pages implement EventFeed *)

\* What a page may have got to: the start, or an id that was given.
Known == {0} \cup Given

\* What a page has, and what waits for it, was given.
PageTyped ==
    /\ after \in [Pages -> Nat] /\ last \in [Pages -> Nat]
    /\ queue \in [Pages -> Seq(Nat)] /\ shown \in [Pages -> Seq(Nat)]
    /\ \A s \in Pages : /\ after[s] \in Known /\ last[s] \in Known
                        /\ \A k \in DOMAIN queue[s] : queue[s][k] \in Given

FeedInv == TraceInv /\ PageTyped

LEMMA RowsAreSeq ==
    ASSUME NEW from \in Nat, NEW to \in Nat
    PROVE  /\ Rows(from, to) \in Seq(Nat)
           /\ from > to => Rows(from, to) = <<>>
  <1>1. CASE from > to
    <2>1. 1..(to - from + 1) = {}
      BY <1>1
    <2>2. Rows(from, to) = <<>>
      BY <2>1 DEF Rows
    <2> QED BY <2>2, EmptySeq
  <1>2. CASE ~(from > to)
    <2> PICK n \in Nat : n = to - from + 1
      BY <1>2
    <2>1. \A k \in 1..n : from + k - 1 \in Nat
      OBVIOUS
    <2>2. Rows(from, to) \in [1..n -> Nat]
      BY <2>1 DEF Rows
    <2> QED BY <1>2, <2>2, SeqDef
  <1> QED BY <1>1, <1>2

LEMMA NewestIsNat ==
    ASSUME NEW seq \in Seq(Nat)
    PROVE  Newest(seq) \in Nat
  <1>1. CASE seq = <<>>
    BY <1>1 DEF Newest
  <1>2. CASE seq # <<>>
    <2>1. Len(seq) \in 1..Len(seq)
      BY <1>2, EmptySeq
    <2> QED BY <1>2, <2>1, ElementOfSeq DEF Newest
  <1> QED BY <1>1, <1>2

\* All ids after one and up to another were given.
IsGiven(id, to) == \A n \in Nat : id < n /\ n <= to => n \in Given

(* What a page takes in are events of the trace it has not shown, in order,    *)
(* or nothing.                                                               *)
LEMMA AbsorbShows ==
    ASSUME NEW seq \in Seq(Nat), NEW id \in Nat, NEW to \in Nat, IsGiven(id, to)
    PROVE  /\ Absorb(seq, id, to) \in Seq(Nat)
           /\ \/ Absorb(seq, id, to) = seq
              \/ \E from, t \in Given :
                    /\ Newest(seq) < from /\ from <= t /\ from..t \subseteq Given
                    /\ Absorb(seq, id, to) = seq \o Rows(from, t)
  <1>1. Newest(seq) \in Nat
    BY NewestIsNat
  <1>2. CASE to <= Newest(seq)
    BY <1>2 DEF Absorb
  <1>3. CASE ~(to <= Newest(seq))
    <2> PICK from \in Nat : from = (IF id < Newest(seq) THEN Newest(seq) + 1 ELSE id + 1)
      BY <1>1
    <2>1. from >= Newest(seq) + 1 /\ from > id
      BY <1>1
    <2>2. Absorb(seq, id, to) = seq \o Rows(from, to)
      BY <1>3 DEF Absorb
    <2>3. Absorb(seq, id, to) \in Seq(Nat)
      <3>1. Rows(from, to) \in Seq(Nat)
        BY RowsAreSeq
      <3> QED BY <2>2, <3>1, ConcatProperties
    <2>4. CASE from <= to
      <3>1. \A n \in from..to : n \in Nat /\ id < n /\ n <= to
        BY <2>1
      <3>2. from..to \subseteq Given
        BY <3>1 DEF IsGiven
      <3>3. from \in from..to /\ to \in from..to /\ Newest(seq) < from
        BY <1>1, <2>1, <2>4
      <3> QED BY <2>2, <2>3, <2>4, <3>2, <3>3
    <2>5. CASE ~(from <= to)
      <3>1. Rows(from, to) = <<>>
        <4>1. from > to
          BY <2>5
        <4> QED BY <4>1, RowsAreSeq
      <3> QED BY <2>2, <2>3, <3>1, ConcatEmptySeq
    <2> QED BY <2>4, <2>5
  <1> QED BY <1>2, <1>3

LEMMA LastListedIsKnown ==
    ASSUME stored \in Nat, NEW id \in Known, id \in Nat
    PROVE  /\ LastListed(id) \in Nat /\ LastListed(id) \in Known
           /\ IsGiven(id, LastListed(id))
           /\ stored <= LastListed(id) \/ LastListed(id) = id + ReplayLimit
           /\ id <= LastListed(id)
  <1>1. CASE stored <= id
    BY <1>1 DEF LastListed, IsGiven
  <1>2. CASE ~(stored <= id)
    <2>1. /\ LastListed(id) \in 1..stored /\ id <= LastListed(id)
          /\ LastListed(id) = stored \/ LastListed(id) = id + ReplayLimit
      BY <1>2, FeedAssumption DEF LastListed, Lesser
    <2> QED BY <1>2, <2>1 DEF IsGiven, Known, Given
  <1> QED BY <1>1, <1>2

LEMMA QueueParts ==
    ASSUME FeedInv, NEW s \in Pages
    PROVE  /\ stored \in Nat /\ gone \subseteq Nat /\ Given \subseteq Nat
           /\ shown[s] \in Seq(Nat) /\ queue[s] \in Seq(Nat)
           /\ after[s] \in Nat /\ last[s] \in Nat
           /\ DOMAIN queue[s] = 1..Len(queue[s]) /\ Len(queue[s]) \in Nat
           /\ \A k \in 1..Len(queue[s]) : queue[s][k] \in Nat /\ queue[s][k] \in Given
  <1>1. queue[s] \in Seq(Nat)
    BY DEF FeedInv, PageTyped
  <1>2. DOMAIN queue[s] = 1..Len(queue[s]) /\ Len(queue[s]) \in Nat
        /\ \A k \in 1..Len(queue[s]) : queue[s][k] \in Nat
    BY <1>1, LenProperties, ElementOfSeq
  <1> QED BY <1>1, <1>2 DEF FeedInv, PageTyped, TraceInv, TraceTyped, Given

\* A page takes in something, or nothing.
Shows(s) == shown' = shown \/ Feed!Show(s)

LEMMA AbsorbIsShow ==
    ASSUME FeedInv, NEW s \in Pages, NEW id \in Nat, NEW to \in Nat, IsGiven(id, to),
           UNCHANGED <<stored, saved, gone>>,
           shown' = [shown EXCEPT ![s] = Absorb(@, id, to)]
    PROVE  Shows(s) /\ shown' \in [Pages -> Seq(Nat)]
  <1>1. /\ stored \in Nat /\ Given \subseteq Nat
        /\ shown[s] \in Seq(Nat) /\ shown \in [Pages -> Seq(Nat)]
    BY QueueParts DEF FeedInv, PageTyped
  <1> DEFINE next == Absorb(shown[s], id, to)
  <1>2. /\ next \in Seq(Nat)
        /\ \/ next = shown[s]
           \/ \E from, t \in Given :
                 /\ Newest(shown[s]) < from /\ from <= t /\ from..t \subseteq Given
                 /\ next = shown[s] \o Rows(from, t)
    BY <1>1, AbsorbShows
  <1>3. shown' = [shown EXCEPT ![s] = next]
    OBVIOUS
  <1>4. shown' \in [Pages -> Seq(Nat)]
    <2> HIDE DEF next
    <2> QED BY <1>1, <1>2, <1>3
  <1>5. CASE next = shown[s]
    <2> HIDE DEF next
    <2> QED BY <1>1, <1>3, <1>4, <1>5 DEF Shows
  <1>6. CASE \E from, t \in Given :
                 /\ Newest(shown[s]) < from /\ from <= t /\ from..t \subseteq Given
                 /\ next = shown[s] \o Rows(from, t)
    <2> HIDE DEF next
    <2>1. PICK from \in Given, t \in Given :
                 /\ Newest(shown[s]) < from /\ from <= t /\ from..t \subseteq Given
                 /\ next = shown[s] \o Rows(from, t)
      BY <1>6
    <2>3. Feed!Newest(shown[s]) = Newest(shown[s])
      BY DEF Feed!Newest, Newest
    <2>4. shown' = [shown EXCEPT ![s] = @ \o [k \in 1..(t - from + 1) |-> from + k - 1]]
      BY <1>3, <2>1 DEF Rows
    <2> QED BY <1>4, <2>1, <2>3, <2>4 DEF Shows, Feed!Show, Given
  <1> QED BY <1>2, <1>4, <1>5, <1>6

LEMMA PageSame ==
    ASSUME FeedInv, Given \subseteq Given', UNCHANGED streams
    PROVE  PageTyped' /\ shown' = shown
  <1>1. UNCHANGED <<after, last, queue, shown>>
    BY DEF streams
  <1>2. ASSUME NEW s \in Pages
        PROVE  /\ after[s] \in Known' /\ last[s] \in Known'
               /\ \A k \in DOMAIN queue[s] : queue[s][k] \in Given'
    BY DEF FeedInv, PageTyped, Known
  <1> QED BY <1>1, <1>2 DEF FeedInv, PageTyped

LEMMA PublishedQueues ==
    ASSUME FeedInv, NEW w \in Writers, Publish(w)
    PROVE  PageTyped' /\ shown' = shown /\ UNCHANGED <<stored, saved, gone>>
  <1>1. /\ UNCHANGED <<stored, saved, gone, after, last, shown>> /\ Committed(w)
        /\ queue' = [s \in Pages |->
                        IF Attached(s) THEN Append(queue[s], own[w]) ELSE queue[s]]
    BY DEF Publish, Committed, table
  <1>2. own[w] \in Nat /\ own[w] \in Given
    BY <1>1 DEF FeedInv, TraceInv, TraceTyped, LogBehind, InFlight
  <1>3. ASSUME NEW s \in Pages
        PROVE  queue'[s] \in Seq(Nat) /\ \A k \in DOMAIN queue'[s] : queue'[s][k] \in Given
    <2>1. CASE queue'[s] = queue[s]
      BY <2>1, QueueParts
    <2>2. CASE queue'[s] = Append(queue[s], own[w])
      <3>1. /\ queue'[s] \in Seq(Nat) /\ Len(queue'[s]) = Len(queue[s]) + 1
            /\ \A k \in 1..Len(queue[s]) : queue'[s][k] = queue[s][k]
            /\ queue'[s][Len(queue[s]) + 1] = own[w]
        BY <2>2, <1>2, QueueParts, AppendProperties
      <3>2. DOMAIN queue'[s] = 1..(Len(queue[s]) + 1)
        BY <3>1, LenProperties
      <3>3. \A k \in 1..(Len(queue[s]) + 1) : k \in 1..Len(queue[s]) \/ k = Len(queue[s]) + 1
        BY QueueParts
      <3> QED BY <3>1, <3>2, <3>3, <1>2, QueueParts
    <2> QED BY <1>1, <2>1, <2>2
  <1>4. queue' \in [Pages -> Seq(Nat)]
    BY <1>1, <1>3
  <1> QED BY <1>1, <1>3, <1>4 DEF FeedInv, PageTyped, Known, Given

\* One page moves: what it has and what waits for it was given.
LEMMA PageMoves ==
    ASSUME FeedInv, NEW s \in Pages, UNCHANGED <<stored, gone>>,
           shown' \in [Pages -> Seq(Nat)],
           NEW a \in Nat, a \in Known, after' = [after EXCEPT ![s] = a],
           NEW l \in Nat, l \in Known, last' = [last EXCEPT ![s] = l],
           NEW q \in Seq(Nat), \A k \in DOMAIN q : q[k] \in Given,
           queue' = [queue EXCEPT ![s] = q]
    PROVE  PageTyped'
  <1>1. ASSUME NEW p \in Pages
        PROVE  /\ after'[p] = IF p = s THEN a ELSE after[p]
               /\ last'[p] = IF p = s THEN l ELSE last[p]
               /\ queue'[p] = IF p = s THEN q ELSE queue[p]
    BY DEF FeedInv, PageTyped
  <1>2. /\ after' \in [Pages -> Nat] /\ last' \in [Pages -> Nat]
        /\ queue' \in [Pages -> Seq(Nat)]
    BY DEF FeedInv, PageTyped
  <1> QED BY <1>1, <1>2 DEF FeedInv, PageTyped, Known, Given

LEMMA PageStep ==
    ASSUME FeedInv, NEW s \in Pages,
           OpenPage(s) \/ Attach(s) \/ Replay(s) \/ Serve(s) \/ Disconnect(s)
    PROVE  PageTyped' /\ Shows(s) /\ UNCHANGED <<stored, saved, gone>>
  <1>1. /\ stored \in Nat /\ shown[s] \in Seq(Nat) /\ queue[s] \in Seq(Nat)
        /\ after[s] \in Nat /\ last[s] \in Nat
        /\ after[s] \in Known /\ last[s] \in Known /\ 0 \in Known
        /\ DOMAIN queue[s] = 1..Len(queue[s]) /\ Len(queue[s]) \in Nat
        /\ \A k \in 1..Len(queue[s]) : queue[s][k] \in Nat /\ queue[s][k] \in Given
        /\ shown \in [Pages -> Seq(Nat)]
    BY QueueParts DEF FeedInv, PageTyped, Known
  <1>2. /\ after = [after EXCEPT ![s] = after[s]] /\ last = [last EXCEPT ![s] = last[s]]
        /\ queue = [queue EXCEPT ![s] = queue[s]]
    BY DEF FeedInv, PageTyped
  <1>3. UNCHANGED <<stored, saved, gone>>
    BY DEF OpenPage, Attach, Replay, Serve, Disconnect, trace, table
  <1>4. /\ <<>> \in Seq(Nat) /\ \A k \in DOMAIN <<>> : <<>>[k] \in Given
    BY EmptySeq
  <1>5. CASE OpenPage(s)
    <2> PICK t \in Nat : t = LastListed(0) /\ t \in Known /\ IsGiven(0, t)
      BY <1>1, LastListedIsKnown
    <2>1. /\ shown' = [shown EXCEPT ![s] = Absorb(@, 0, t)]
          /\ after' = [after EXCEPT ![s] = t] /\ last' = last /\ queue' = queue
      BY <1>5 DEF OpenPage
    <2>2. Shows(s) /\ shown' \in [Pages -> Seq(Nat)]
      BY <1>3, <2>1, AbsorbIsShow
    <2> QED BY <1>1, <1>2, <1>3, <2>1, <2>2, PageMoves
  <1>6. CASE Attach(s) \/ Disconnect(s)
    <2>1. /\ shown' = shown /\ after' = after
          /\ queue' = [queue EXCEPT ![s] = <<>>]
          /\ last' = [last EXCEPT ![s] = after[s]] \/ last' = last
      BY <1>6 DEF Attach, Disconnect
    <2> PICK l \in Nat : l \in Known /\ last' = [last EXCEPT ![s] = l]
      BY <1>1, <1>2, <2>1
    <2>2. PageTyped'
      BY <1>1, <1>2, <1>3, <1>4, <2>1, PageMoves
    <2> QED BY <1>3, <2>1, <2>2 DEF Shows
  <1>7. CASE Replay(s)
    <2> PICK l \in Nat : l = last[s] /\ l \in Known
      BY <1>1
    <2> PICK t \in Nat : t = LastListed(l) /\ t \in Known /\ IsGiven(l, t)
      BY <1>1, LastListedIsKnown
    <2>1. /\ shown' = [shown EXCEPT ![s] = Absorb(@, l, t)]
          /\ last' = [last EXCEPT ![s] = t] /\ after' = after /\ queue' = queue
      BY <1>7 DEF Replay
    <2>2. Shows(s) /\ shown' \in [Pages -> Seq(Nat)]
      BY <1>3, <2>1, AbsorbIsShow
    <2> QED BY <1>1, <1>2, <1>3, <2>1, <2>2, PageMoves
  <1>8. CASE Serve(s)
    <2>1. queue[s] # <<>> /\ 1 \in 1..Len(queue[s])
      BY <1>1, <1>8, EmptySeq DEF Serve
    <2> PICK id \in Nat : id = Head(queue[s]) /\ id \in Given /\ id \in Known
      <3>1. Head(queue[s]) = queue[s][1]
        BY <1>1, <2>1
      <3> QED BY <3>1, <1>1, <2>1 DEF Known
    <2> PICK q \in Seq(Nat) : q = Tail(queue[s]) /\ \A k \in DOMAIN q : q[k] \in Given
      <3>1. /\ Tail(queue[s]) \in Seq(Nat) /\ Len(Tail(queue[s])) = Len(queue[s]) - 1
            /\ \A k \in 1..Len(Tail(queue[s])) : Tail(queue[s])[k] = queue[s][k + 1]
        BY <1>1, <2>1, HeadTailProperties
      <3>2. DOMAIN Tail(queue[s]) = 1..Len(Tail(queue[s]))
        BY <3>1, LenProperties
      <3>3. \A k \in 1..(Len(queue[s]) - 1) : k + 1 \in 1..Len(queue[s])
        BY <1>1
      <3> QED BY <3>1, <3>2, <3>3, <1>1
    <2>2. /\ queue' = [queue EXCEPT ![s] = q] /\ after' = after
          /\ \/ /\ Sends(s, id) /\ last' = [last EXCEPT ![s] = id]
                /\ shown' = [shown EXCEPT ![s] = Absorb(@, id - 1, id)]
             \/ last' = last /\ shown' = shown
      BY <1>8 DEF Serve
    <2> PICK l \in Nat : l \in Known /\ last' = [last EXCEPT ![s] = l]
      BY <1>1, <1>2, <2>2
    <2>3. Shows(s) /\ shown' \in [Pages -> Seq(Nat)]
      <3>1. CASE shown' = shown
        BY <3>1, <1>1 DEF Shows
      <3>2. CASE Sends(s, id) /\ shown' = [shown EXCEPT ![s] = Absorb(@, id - 1, id)]
        <4> PICK j \in Nat : j = id - 1
          BY <3>2, <1>1 DEF Sends
        <4>1. IsGiven(j, id)
          BY DEF IsGiven
        <4> QED BY <1>3, <3>2, <4>1, AbsorbIsShow
      <3> QED BY <2>2, <3>1, <3>2
    <2> QED BY <1>1, <1>2, <1>3, <2>2, <2>3, PageMoves
  <1> QED BY <1>3, <1>5, <1>6, <1>7, <1>8

(* Every step stores an event, keeps or undoes what is stored, shows a page    *)
(* something, or is none of a page's business.                                *)
LEMMA FeedStep ==
    FeedInv /\ [Next]_vars => FeedInv' /\ [Feed!Next]_<<stored, saved, gone, shown>>
  <1> SUFFICES ASSUME FeedInv, [Next]_vars
               PROVE  FeedInv' /\ [Feed!Next]_<<stored, saved, gone, shown>>
    OBVIOUS
  <1>1. TraceInv' /\ stored \in Nat
    BY TraceStep DEF FeedInv, TraceInv, TraceTyped
  <1>2. ASSUME UNCHANGED <<table, streams>>
        PROVE  FeedInv' /\ [Feed!Next]_<<stored, saved, gone, shown>>
    <2>1. UNCHANGED <<stored, saved, gone>> /\ Given' = Given
      BY <1>2 DEF table, Given
    <2> QED BY <1>1, <1>2, <2>1, PageSame DEF FeedInv
  <1>3. ASSUME NEW w \in Writers, Insert(w), UNCHANGED streams
        PROVE  FeedInv' /\ [Feed!Next]_<<stored, saved, gone, shown>>
    <2>1. stored' = stored + 1 /\ UNCHANGED <<saved, gone>>
      BY <1>3 DEF Insert
    <2>2. Given \subseteq Given'
      BY <1>1, <2>1 DEF Given
    <2>3. PageTyped' /\ shown' = shown
      BY <1>3, <2>2, PageSame
    <2> QED BY <1>1, <2>1, <2>3 DEF FeedInv, Feed!Next, Feed!Store
  <1>4. ASSUME UNCHANGED <<stored, gone>>, saved' = stored, UNCHANGED streams
        PROVE  FeedInv' /\ [Feed!Next]_<<stored, saved, gone, shown>>
    <2>1. Given' = Given
      BY <1>4 DEF Given
    <2>2. PageTyped' /\ shown' = shown
      BY <1>4, <2>1, PageSame
    <2> QED BY <1>1, <1>4, <2>2 DEF FeedInv, Feed!Next, Feed!Keep
  <1>5. CASE Rollback
    <2>1. Given \subseteq Given'
      BY <1>5, GivenStays DEF FeedInv
    <2>2. PageTyped' /\ shown' = shown
      BY <1>5, <2>1, PageSame DEF Rollback
    <2> QED BY <1>1, <1>5, <2>2 DEF FeedInv, Rollback, Feed!Next, Feed!Undo
  <1>6. ASSUME NEW w \in Writers, Emit(w) \/ Commit(w) \/ Publish(w) \/ Abandon(w)
        PROVE  FeedInv' /\ [Feed!Next]_<<stored, saved, gone, shown>>
    <2>1. CASE Emit(w)
      BY <1>3, <2>1 DEF Emit
    <2>2. CASE Commit(w)
      BY <1>4, <2>2 DEF Commit
    <2>3. CASE Abandon(w)
      BY <1>2, <2>3 DEF Abandon
    <2>4. CASE Publish(w)
      BY <1>1, <2>4, PublishedQueues DEF FeedInv
    <2> QED BY <1>6, <2>1, <2>2, <2>3, <2>4
  <1>7. ASSUME NEW m \in Steers, Steer(m) \/ SteerAnswered(m)
        PROVE  FeedInv' /\ [Feed!Next]_<<stored, saved, gone, shown>>
    <2>1. m \in Writers
      BY DEF Writers
    <2> QED BY <1>2, <1>3, <1>7, <2>1 DEF Steer, SteerAnswered
  <1>8. ASSUME NEW s \in Pages,
               OpenPage(s) \/ Attach(s) \/ Replay(s) \/ Serve(s) \/ Disconnect(s)
        PROVE  FeedInv' /\ [Feed!Next]_<<stored, saved, gone, shown>>
    <2>1. PageTyped' /\ Shows(s) /\ UNCHANGED <<stored, saved, gone>>
      BY <1>8, PageStep
    <2> QED BY <1>1, <2>1 DEF FeedInv, Shows, Feed!Next
  <1>9. CASE StartRun \/ CheckMessages \/ EndRun
    BY <1>2, <1>9 DEF StartRun, CheckMessages, EndRun, trace
  <1>10. CASE CommitElsewhere
    BY <1>4, <1>10 DEF CommitElsewhere
  <1>11. CASE UNCHANGED vars
    BY <1>2, <1>11 DEF vars, trace
  <1> QED
    BY <1>5, <1>6, <1>7, <1>8, <1>9, <1>10, <1>11 DEF Next

LEMMA FeedInit == Init => FeedInv /\ Feed!Init
  <1> SUFFICES ASSUME Init PROVE FeedInv /\ Feed!Init
    OBVIOUS
  <1>1. TraceInv
    BY TraceInit
  <1>2. <<>> \in Seq(Nat) /\ DOMAIN <<>> = {}
    BY EmptySeq
  <1>3. PageTyped
    BY <1>2 DEF Init, PageTyped, Known
  <1> QED BY <1>1, <1>3 DEF Init, FeedInv, Feed!Init

(* For any number of pages, connections, writers and rollbacks: a page is      *)
(* shown only events that are or were in the trace, no id twice and in the    *)
(* order of the ids.                                                         *)
THEOREM FeedRefines == Spec => ImplementsFeed
  <1>1. FeedInv /\ [Next]_vars => [Feed!Next]_<<stored, saved, gone, shown>>
    BY FeedStep
  <1>2. FeedInv /\ [Next]_vars => FeedInv'
    BY FeedStep
  <1> QED BY <1>1, <1>2, FeedInit, PTL DEF Spec, ImplementsFeed, Feed!Spec

-----------------------------------------------------------------------------
(* Nothing slips *)

\* The ids published since page s attached.
Since(s) == {log[k] : k \in {j \in DOMAIN log : j > joined[s]}}
Published == {log[k] : k \in DOMAIN log}

\* What a page must have: everything unless it met a full page of rows, and at any
\* rate what was published since it attached; ids that were given back excepted.
Owed(s) == {id \in Published \ gone : ~full[s] \/ (Attached(s) /\ id \in Since(s))}

ConnTyped ==
    /\ conn \in [Pages -> {"closed", "off", "attached", "live"}]
    /\ joined \in [Pages -> Nat] /\ full \in [Pages -> BOOLEAN]
    /\ \A s \in Pages : joined[s] <= Len(log)

\* What is owed or in flight and is older than the newest event of the page is on
\* the page: a replay shows rows before they are published, and without gaps.
NoGaps(s) ==
    /\ after[s] <= Newest(shown[s]) /\ Newest(shown[s]) \in Known
    /\ conn[s] = "attached" => last[s] = after[s]
    /\ conn[s] = "live" => last[s] <= Newest(shown[s])
    /\ \A id \in Owed(s) : id <= Newest(shown[s]) => id \in Elements(shown[s])
    /\ \A w \in Writers : InFlight(w) /\ own[w] \notin gone /\ own[w] <= Newest(shown[s])
                             => own[w] \in Elements(shown[s])

\* The queue holds what was published since the page attached, in order.
QueueHas(s) ==
    /\ \A j, k \in DOMAIN queue[s] : j < k => Before(queue[s][j], queue[s][k])
    /\ Elements(queue[s]) \subseteq Since(s)
    /\ conn[s] = "attached" => Since(s) \subseteq Elements(queue[s])
    /\ conn[s] = "live" =>
          \A id \in Owed(s) : \/ id \in Elements(shown[s])
                              \/ id \in Elements(queue[s]) /\ id > last[s]

PageInv(s) ==
    /\ conn[s] # "closed" => NoGaps(s)
    /\ conn[s] = "closed" => shown[s] = <<>>
    /\ Attached(s) => QueueHas(s)

SlipInv == FeedInv /\ ConnTyped /\ \A s \in Pages : PageInv(s)

LEMMA SlipInvGives == SlipInv => NothingSlips
  <1> SUFFICES ASSUME SlipInv, NEW s \in Pages, conn[s] = "live", NEW k \in DOMAIN log,
                      k > joined[s] \/ ~full[s], log[k] \notin gone
               PROVE  \/ log[k] \in Elements(shown[s])
                      \/ log[k] \in Elements(queue[s]) /\ Sends(s, log[k])
    BY DEF NothingSlips
  <1>1. QueueHas(s) /\ Attached(s)
    BY DEF SlipInv, PageInv, Attached
  <1>2. log[k] \in Owed(s)
    BY <1>1 DEF Owed, Published, Since
  <1> QED BY <1>1, <1>2 DEF QueueHas, Sends

(* Appending rows to what a page shows.                                       *)
LEMMA ConcatRows ==
    ASSUME NEW seq \in Seq(Nat), NEW from \in Nat, NEW to \in Nat, from <= to
    PROVE  /\ Newest(seq \o Rows(from, to)) = to
           /\ Elements(seq \o Rows(from, to)) = Elements(seq) \cup (from..to)
  <1> PICK n \in Nat : n = to - from + 1 /\ n > 0
    OBVIOUS
  <1> PICK l \in Nat : l = Len(seq)
    BY LenProperties
  <1> PICK r \in Seq(Nat) : r = Rows(from, to)
    BY RowsAreSeq
  <1> PICK c : c = seq \o r
    OBVIOUS
  <1>1. r \in [1..n -> Nat] /\ \A k \in 1..n : r[k] = from + k - 1
    <2>1. \A k \in 1..n : from + k - 1 \in Nat
      OBVIOUS
    <2> QED BY <2>1 DEF Rows
  <1>2. Len(r) = n
    <2> PICK m \in Nat : m = Len(r)
      BY LenProperties
    <2>1. 1..m = 1..n
      <3>1. DOMAIN r = 1..m
        BY LenProperties
      <3> QED BY <3>1, <1>1
    <2>2. ~(m < n) /\ ~(n < m)
      <3>1. m < n => n \in 1..n /\ n \notin 1..m
        OBVIOUS
      <3>2. n < m => m \in 1..m /\ m \notin 1..n
        OBVIOUS
      <3> QED BY <2>1, <3>1, <3>2
    <2> QED BY <2>2
  <1>3. /\ c \in Seq(Nat) /\ Len(c) = l + n /\ DOMAIN c = 1..(l + n)
        /\ \A k \in 1..(l + n) : c[k] = IF k <= l THEN seq[k] ELSE r[k - l]
    <2>1. /\ c \in Seq(Nat) /\ Len(c) = l + n
          /\ \A k \in 1..(l + n) : c[k] = IF k <= l THEN seq[k] ELSE r[k - l]
      <3>1. /\ c \in Seq(Nat) /\ Len(c) = Len(seq) + Len(r)
            /\ \A k \in 1..(Len(seq) + Len(r)) :
                  c[k] = IF k <= Len(seq) THEN seq[k] ELSE r[k - Len(seq)]
        BY ConcatProperties
      <3>2. Len(seq) = l /\ Len(r) = n
        BY <1>2
      <3> QED BY <3>1, <3>2
    <2> QED BY <2>1, LenProperties
  <1>4. DOMAIN seq = 1..l
    BY LenProperties
  <1>5. \A k \in (l + 1)..(l + n) : k - l \in 1..n /\ k \in 1..(l + n) /\ ~(k <= l)
    OBVIOUS
  <1>6. \A k \in (l + 1)..(l + n) : c[k] = from + (k - l) - 1
    BY <1>1, <1>3, <1>5
  <1>7. Newest(c) = to
    <2>1. l + n \in (l + 1)..(l + n) /\ c # <<>>
      BY <1>3, EmptySeq
    <2>2. c[l + n] = to
      <3>1. c[l + n] = from + ((l + n) - l) - 1
        BY <1>6, <2>1
      <3> QED BY <3>1
    <2> QED BY <1>3, <2>1, <2>2 DEF Newest
  <1>8. \A k \in DOMAIN seq : seq[k] \in Elements(c)
    <2>1. \A k \in 1..l : k \in 1..(l + n) /\ k <= l
      OBVIOUS
    <2>2. \A k \in 1..l : k \in DOMAIN c /\ c[k] = seq[k]
      BY <2>1, <1>3
    <2> QED BY <2>2, <1>4 DEF Elements
  <1>9. \A x \in from..to : x \in Elements(c)
    <2> SUFFICES ASSUME NEW x \in from..to PROVE x \in Elements(c)
      OBVIOUS
    <2>2. l + (x - from) + 1 \in Nat
      OBVIOUS
    <2> PICK k \in Nat : k = l + (x - from) + 1
      BY <2>2
    <2>1. k \in (l + 1)..(l + n) /\ k \in 1..(l + n) /\ from + (k - l) - 1 = x
      OBVIOUS
    <2>3. k \in DOMAIN c /\ c[k] = x
      BY <2>1, <1>3, <1>6
    <2> QED BY <2>3 DEF Elements
  <1>10. \A k \in 1..(l + n) : c[k] \in Elements(seq) \cup (from..to)
    <2> SUFFICES ASSUME NEW k \in 1..(l + n) PROVE c[k] \in Elements(seq) \cup (from..to)
      OBVIOUS
    <2>1. CASE k <= l
      <3>1. k \in DOMAIN seq /\ c[k] = seq[k]
        BY <2>1, <1>3, <1>4
      <3> QED BY <3>1 DEF Elements
    <2>2. CASE ~(k <= l)
      <3>1. k \in (l + 1)..(l + n) /\ from + (k - l) - 1 \in from..to
        BY <2>2
      <3> QED BY <3>1, <1>6
    <2> QED BY <2>1, <2>2
  <1>11. Elements(c) = Elements(seq) \cup (from..to)
    <2>1. Elements(c) \subseteq Elements(seq) \cup (from..to)
      <3> SUFFICES ASSUME NEW k \in DOMAIN c PROVE c[k] \in Elements(seq) \cup (from..to)
        BY DEF Elements
      <3> QED BY <1>3, <1>10
    <2>2. Elements(seq) \subseteq Elements(c)
      BY <1>8 DEF Elements
    <2> QED BY <2>1, <2>2, <1>9
  <1> QED BY <1>7, <1>11

(* Taking in rows leaves no gap above the newest event or the row before them. *)
LEMMA AbsorbFacts ==
    ASSUME NEW seq \in Seq(Nat), NEW id \in Nat, NEW to \in Nat
    PROVE  /\ Elements(seq) \subseteq Elements(Absorb(seq, id, to))
           /\ Newest(seq) <= Newest(Absorb(seq, id, to))
           /\ id < to \/ to <= Newest(seq) => to <= Newest(Absorb(seq, id, to))
           /\ Newest(Absorb(seq, id, to)) \in {Newest(seq), to}
           /\ \A n \in Nat : n <= Newest(Absorb(seq, id, to)) /\ n > Newest(seq) /\ n > id
                                => n \in Elements(Absorb(seq, id, to))
  <1>1. Newest(seq) \in Nat
    BY NewestIsNat
  <1>2. CASE to <= Newest(seq)
    <2>1. Absorb(seq, id, to) = seq
      BY <1>2 DEF Absorb
    <2> QED BY <2>1, <1>1, <1>2
  <1>3. CASE ~(to <= Newest(seq))
    <2> PICK from \in Nat : from = (IF id < Newest(seq) THEN Newest(seq) + 1 ELSE id + 1)
      BY <1>1
    <2>1. Absorb(seq, id, to) = seq \o Rows(from, to)
      BY <1>3 DEF Absorb
    <2>2. CASE from <= to
      <3>1. /\ Newest(Absorb(seq, id, to)) = to
            /\ Elements(Absorb(seq, id, to)) = Elements(seq) \cup (from..to)
        BY <2>1, <2>2, ConcatRows
      <3>2. \A n \in Nat : n <= to /\ n > Newest(seq) /\ n > id => n \in from..to
        BY <1>1
      <3> QED BY <1>1, <1>3, <3>1, <3>2
    <2>3. CASE ~(from <= to)
      <3>1. Rows(from, to) = <<>>
        <4>1. from > to
          BY <2>3
        <4> QED BY <4>1, RowsAreSeq
      <3>2. Absorb(seq, id, to) = seq
        BY <2>1, <3>1, ConcatEmptySeq
      <3>3. ~(id < to)
        BY <1>1, <1>3, <2>3
      <3> QED BY <3>2, <3>3, <1>1, <1>3
    <2> QED BY <2>2, <2>3
  <1> QED BY <1>2, <1>3

LEMMA AppendIsLonger ==
    ASSUME NEW seq \in Seq(Nat), NEW id \in Nat, NEW n \in Nat, n = Len(seq)
    PROVE  /\ DOMAIN seq = 1..n /\ DOMAIN Append(seq, id) = 1..(n + 1)
           /\ \A k \in 1..n : Append(seq, id)[k] = seq[k]
           /\ Append(seq, id)[n + 1] = id
  <1>1. /\ Append(seq, id) \in Seq(Nat) /\ Len(Append(seq, id)) = Len(seq) + 1
        /\ \A k \in 1..Len(seq) : Append(seq, id)[k] = seq[k]
        /\ Append(seq, id)[Len(seq) + 1] = id
    BY AppendProperties
  <1> QED BY <1>1, LenProperties

\* A page that does not move, while others write, keep or undo: an id that is given
\* next and stays is beyond all that a page shows.
LEMMA SlipSame ==
    ASSUME SlipInv, TraceInv', UNCHANGED <<streams, log>>,
           Given \subseteq Given', gone \subseteq gone',
           \A w \in Writers : InFlight(w)' =>
               \/ InFlight(w) /\ own'[w] = own[w]
               \/ own'[w] = stored + 1
    PROVE  ConnTyped' /\ \A s \in Pages : PageInv(s)'
  <1>1. /\ UNCHANGED <<conn, after, last, queue, shown, joined, full, log>>
        /\ stored \in Nat
    BY DEF streams, SlipInv, FeedInv, TraceInv, TraceTyped
  <1>2. ConnTyped'
    BY <1>1 DEF SlipInv, ConnTyped
  <1>3. ASSUME NEW s \in Pages
        PROVE  PageInv(s)'
    <2>1. Since(s)' = Since(s) /\ Owed(s)' \subseteq Owed(s) /\ Attached(s)' = Attached(s)
      BY <1>1 DEF Since, Owed, Published, Attached
    <2>2. Newest(shown[s]) \in Nat
      BY QueueParts, NewestIsNat DEF SlipInv
    <2>3. PageInv(s)
      BY DEF SlipInv
    <2>4. QueueHas(s) => QueueHas(s)'
      <3>1. \A a, b : Before(a, b) => Before(a, b)'
        BY DEF Before
      <3> SUFFICES ASSUME QueueHas(s) PROVE QueueHas(s)'
        OBVIOUS
      <3>2. \A j, k \in DOMAIN queue'[s] : j < k => Before(queue[s][j], queue[s][k])'
        BY <1>1, <3>1 DEF QueueHas
      <3> QED BY <1>1, <2>1, <3>2 DEF QueueHas
    <2>5. NoGaps(s) => NoGaps(s)'
      <3> SUFFICES ASSUME NoGaps(s) PROVE NoGaps(s)'
        OBVIOUS
      <3>1. ASSUME NEW w \in Writers, InFlight(w)', own'[w] \notin gone',
                   own'[w] <= Newest(shown[s])
            PROVE  own'[w] \in Elements(shown[s])
        <4>1. CASE InFlight(w) /\ own'[w] = own[w]
          BY <3>1, <4>1 DEF NoGaps
        <4>2. CASE own'[w] = stored + 1
          <5>1. Newest(shown[s]) \in Given
            BY <2>2, <3>1, <4>2, <1>1 DEF NoGaps, Known
          <5>2. Before(Newest(shown[s]), stored + 1)
            BY <5>1, NextIsBehind DEF SlipInv, FeedInv, TraceInv
          <5> QED BY <5>2, <4>2, <3>1, <1>1, <2>2 DEF Before
        <4> QED BY <3>1, <4>1, <4>2
      <3>2. Newest(shown[s]) \in Known'
        BY DEF NoGaps, Known
      <3> QED BY <1>1, <2>1, <3>1, <3>2 DEF NoGaps
    <2> QED BY <1>1, <2>1, <2>3, <2>4, <2>5 DEF PageInv
  <1> QED BY <1>2, <1>3

\* A published event is on the page already, or waits in the queue of a page that
\* is attached.
LEMMA SlipPublish ==
    ASSUME SlipInv, FeedInv', NEW w \in Writers, Publish(w)
    PROVE  ConnTyped' /\ \A s \in Pages : PageInv(s)'
  <1> PICK id \in Nat : id = own[w]
    BY DEF SlipInv, FeedInv, TraceInv, TraceTyped
  <1> PICK n \in Nat : n = Len(log)
    BY LenProperties DEF SlipInv, FeedInv, TraceInv, TraceTyped
  <1>1. /\ UNCHANGED <<stored, gone, own, conn, after, last, shown, joined, full>>
        /\ Committed(w) /\ log' = Append(log, id)
        /\ queue' = [s \in Pages |->
                        IF Attached(s) THEN Append(queue[s], id) ELSE queue[s]]
        /\ \A v \in Writers : InFlight(v)' => InFlight(v) /\ own'[v] = own[v]
    BY DEF Publish, LeaveLine, InFlight, Inserted, Committed, SlipInv, FeedInv, TraceInv,
           TraceTyped, table
  <1>2. log \in Seq(Nat) /\ stored \in Nat /\ id \in Given
        /\ \A k \in DOMAIN log : Before(log[k], id)
    BY <1>1 DEF SlipInv, FeedInv, TraceInv, TraceTyped, LogBehind, InFlight
  <1>3. /\ DOMAIN log = 1..n /\ DOMAIN log' = 1..(n + 1)
        /\ \A k \in 1..n : log'[k] = log[k]
        /\ log'[n + 1] = id
    BY <1>1, <1>2, AppendIsLonger
  <1>4. ConnTyped'
    <2>1. \A s \in Pages : joined'[s] <= n + 1 /\ joined'[s] \in Nat
      BY <1>1 DEF SlipInv, ConnTyped
    <2>2. Len(log') = n + 1
      BY <1>1, <1>2, AppendProperties
    <2> QED BY <1>1, <2>1, <2>2 DEF SlipInv, ConnTyped
  <1>5. ASSUME NEW s \in Pages
        PROVE  PageInv(s)'
    <2>1. /\ Newest(shown[s]) \in Nat /\ Newest(shown[s])' = Newest(shown[s])
          /\ Elements(shown[s])' = Elements(shown[s])
          /\ Attached(s)' = Attached(s) /\ PageInv(s)
      BY <1>1, QueueParts, NewestIsNat DEF SlipInv, Attached
    <2>2. Published' = Published \cup {id}
      <3>1. \A k \in 1..n : k \in 1..(n + 1)
        OBVIOUS
      <3>2. \A k \in 1..(n + 1) : k \in 1..n \/ k = n + 1
        OBVIOUS
      <3> QED BY <1>3, <3>1, <3>2 DEF Published
    <2>3. Since(s)' = Since(s) \cup {id}
      <3>1. \A k \in 1..n : k \in 1..(n + 1)
        OBVIOUS
      <3>2. \A k \in 1..(n + 1) : k \in 1..n \/ k = n + 1
        OBVIOUS
      <3>3. n + 1 > joined[s] /\ n + 1 \in 1..(n + 1)
        BY DEF SlipInv, ConnTyped
      <3> QED BY <1>1, <1>3, <3>1, <3>2, <3>3 DEF Since
    <2>4. Owed(s)' \subseteq Owed(s) \cup {id} /\ \A x \in Owed(s)' : x \notin gone
      BY <1>1, <2>1, <2>2, <2>3 DEF Owed
    <2>5. NoGaps(s) => NoGaps(s)'
      <3> SUFFICES ASSUME NoGaps(s) PROVE NoGaps(s)'
        OBVIOUS
      <3>1. id \notin gone /\ id <= Newest(shown[s]) => id \in Elements(shown[s])
        BY <1>1 DEF NoGaps, InFlight
      <3>2. \A x \in Owed(s)' : x <= Newest(shown[s]) => x \in Elements(shown[s])
        BY <2>4, <3>1 DEF NoGaps
      <3>3. \A v \in Writers :
               InFlight(v)' /\ own'[v] \notin gone' /\ own'[v] <= Newest(shown[s])
                  => own'[v] \in Elements(shown[s])
        BY <1>1 DEF NoGaps
      <3> QED BY <1>1, <2>1, <3>2, <3>3 DEF NoGaps, Known, Given
    <2>6. ASSUME Attached(s), QueueHas(s), NoGaps(s)
          PROVE  QueueHas(s)'
      <3> PICK m \in Nat : m = Len(queue[s])
        BY QueueParts DEF SlipInv
      <3>1. /\ DOMAIN queue[s] = 1..m /\ DOMAIN queue'[s] = 1..(m + 1)
            /\ \A k \in 1..m : queue'[s][k] = queue[s][k]
            /\ queue'[s][m + 1] = id
        <4>1. queue'[s] = Append(queue[s], id) /\ queue[s] \in Seq(Nat)
          BY <1>1, <2>6, QueueParts DEF SlipInv
        <4> QED BY <4>1, AppendIsLonger
      <3>2. \A k \in 1..(m + 1) : k \in 1..m \/ k = m + 1
        OBVIOUS
      <3>3. \A k \in 1..m : queue[s][k] \in Nat /\ Before(queue[s][k], id)
        <4>1. Since(s) \subseteq {log[k] : k \in DOMAIN log}
          BY DEF Since
        <4>2. \A k \in 1..m : queue[s][k] \in Since(s)
          BY <2>6, <3>1 DEF QueueHas, Elements
        <4> QED BY <1>2, <4>1, <4>2, <3>1, QueueParts DEF SlipInv
      <3>4. \A j, k \in DOMAIN queue'[s] : j < k => Before(queue'[s][j], queue'[s][k])
        <4> SUFFICES ASSUME NEW j \in 1..(m + 1), NEW k \in 1..(m + 1), j < k
                     PROVE  Before(queue'[s][j], queue'[s][k])
          BY <3>1
        <4>1. j \in 1..m
          OBVIOUS
        <4>2. CASE k \in 1..m
          BY <4>1, <4>2, <2>6, <3>1 DEF QueueHas
        <4>3. CASE k = m + 1
          BY <4>1, <4>3, <3>1, <3>3
        <4> QED BY <3>2, <4>2, <4>3
      <3>5. Elements(queue'[s]) = Elements(queue[s]) \cup {id}
        <4>1. m + 1 \in 1..(m + 1) /\ \A k \in 1..m : k \in 1..(m + 1)
          OBVIOUS
        <4> QED BY <3>1, <3>2, <4>1 DEF Elements
      <3>6. conn[s] = "live" =>
              \A x \in Owed(s)' : \/ x \in Elements(shown[s])
                                  \/ x \in Elements(queue'[s]) /\ x > last[s]
        <4> SUFFICES ASSUME conn[s] = "live", NEW x \in Owed(s)'
                     PROVE  \/ x \in Elements(shown[s])
                            \/ x \in Elements(queue'[s]) /\ x > last[s]
          OBVIOUS
        <4>1. CASE x \in Owed(s)
          BY <4>1, <2>6, <3>5 DEF QueueHas
        <4>2. CASE x = id
          <5>1. id <= Newest(shown[s]) => id \in Elements(shown[s])
            BY <1>1, <2>4, <2>6, <4>2 DEF NoGaps, InFlight
          <5>2. last[s] \in Nat /\ last[s] <= Newest(shown[s])
            BY <2>6, QueueParts DEF NoGaps, SlipInv
          <5>3. ~(id <= Newest(shown[s])) => id > last[s]
            BY <2>1, <5>2
          <5> QED BY <4>2, <5>1, <5>3, <3>5
        <4> QED BY <2>4, <4>1, <4>2
      <3>7. \A j, k \in DOMAIN queue'[s] : j < k => Before(queue[s][j], queue[s][k])'
        BY <1>1, <3>4 DEF Before
      <3> QED BY <1>1, <2>1, <2>3, <2>6, <3>5, <3>6, <3>7 DEF QueueHas
    <2> QED BY <1>1, <2>1, <2>5, <2>6 DEF PageInv, Attached
  <1> QED BY <1>4, <1>5

\* One page moves: the others stay as they are, and owe no more.
LEMMA SlipMoves ==
    ASSUME SlipInv, FeedInv', NEW s \in Pages, UNCHANGED <<trace, steering>>,
           \A p \in Pages \ {s} :
               /\ conn'[p] = conn[p] /\ after'[p] = after[p] /\ last'[p] = last[p]
               /\ queue'[p] = queue[p] /\ shown'[p] = shown[p]
               /\ joined'[p] = joined[p] /\ full'[p] = full[p],
           conn' \in [Pages -> {"closed", "off", "attached", "live"}],
           joined' \in [Pages -> Nat], full' \in [Pages -> BOOLEAN],
           joined'[s] <= Len(log), PageInv(s)'
    PROVE  SlipInv'
  <1>1. UNCHANGED <<stored, gone, stage, own, log>>
    BY DEF trace, table
  <1>2. ConnTyped'
    BY <1>1 DEF SlipInv, ConnTyped
  <1>3. ASSUME NEW p \in Pages \ {s}
        PROVE  PageInv(p)'
    <2>1. Since(p)' = Since(p) /\ Owed(p)' = Owed(p) /\ Attached(p)' = Attached(p)
      BY <1>1 DEF Since, Owed, Published, Attached
    <2>2. NoGaps(p) => NoGaps(p)'
      BY <1>1, <2>1 DEF NoGaps, InFlight, Inserted, Committed, Known, Given
    <2>3. QueueHas(p) => QueueHas(p)'
      BY <1>1, <2>1 DEF QueueHas, Before
    <2>4. PageInv(p)
      BY DEF SlipInv
    <2> QED BY <2>1, <2>2, <2>3, <2>4 DEF PageInv
  <1> QED BY <1>2, <1>3 DEF SlipInv

\* The ids in flight, but for those that were given back.
FlyingIds == {own[v] : v \in {w \in Writers : InFlight(w)}} \ gone

\* What a page has after it takes in rows: no gaps.
LEMMA TakesIn ==
    ASSUME SlipInv, FeedInv', NEW s \in Pages, UNCHANGED <<trace, steering>>,
           NEW id \in Nat, NEW to \in Nat, to \in Known,
           shown'[s] = Absorb(shown[s], id, to), after'[s] <= Newest(shown'[s]),
           conn'[s] = "attached" => last'[s] = after'[s],
           conn'[s] = "live" => last'[s] <= Newest(shown'[s]),
           \* nothing owed or in flight lies between what the page has and `id'
           \A x \in Owed(s)' \cup FlyingIds :
               /\ x <= Newest(shown[s]) => x \in Elements(shown[s])
               /\ Newest(shown[s]) < x /\ x <= to => id < x \/ x \in Elements(shown[s]),
           Newest(shown[s]) \in Known
    PROVE  NoGaps(s)'
  <1> PICK new \in Nat : new = Newest(shown[s])
    BY QueueParts, NewestIsNat DEF SlipInv
  <1> PICK top \in Nat : top = Newest(shown'[s])
    <2>1. shown'[s] \in Seq(Nat)
      BY DEF FeedInv, PageTyped
    <2> QED BY <2>1, NewestIsNat
  <1>1. /\ UNCHANGED <<stored, gone, stage, own, log>> /\ stored \in Nat
        /\ \A v \in Writers : own[v] \in Nat /\ (InFlight(v)' <=> InFlight(v))
    BY DEF trace, table, InFlight, Inserted, Committed, SlipInv, FeedInv, TraceInv, TraceTyped
  <1>2. /\ Elements(shown[s]) \subseteq Elements(shown'[s]) /\ new <= top
        /\ top \in {new, to}
        /\ \A n \in Nat : n <= top /\ n > new /\ n > id => n \in Elements(shown'[s])
    <2>1. shown[s] \in Seq(Nat)
      BY QueueParts DEF SlipInv
    <2> DEFINE now == Absorb(shown[s], id, to)
    <2>2. /\ Elements(shown[s]) \subseteq Elements(now)
          /\ Newest(shown[s]) <= Newest(now)
          /\ Newest(now) \in {Newest(shown[s]), to}
          /\ \A n \in Nat : n <= Newest(now) /\ n > Newest(shown[s]) /\ n > id
                                => n \in Elements(now)
      <3> HIDE DEF now
      <3>1. now = Absorb(shown[s], id, to)
        BY DEF now
      <3> QED BY ONLY <2>1, <3>1, AbsorbFacts, id \in Nat, to \in Nat
    <2>3. shown'[s] = now
      OBVIOUS
    <2> HIDE DEF now
    <2>4. /\ Elements(shown'[s]) = Elements(now)
          /\ new = Newest(shown[s]) /\ top = Newest(now)
      BY ONLY <2>3, new = Newest(shown[s]), top = Newest(shown'[s]) DEF Elements, Newest
    <2> QED BY ONLY <2>2, <2>4
  <1>3. \A x \in Owed(s)' : x \in Nat
    <2>1. log \in Seq(Nat) /\ log' = log
      BY <1>1 DEF SlipInv, FeedInv, TraceInv, TraceTyped
    <2>2. \A k \in DOMAIN log : log[k] \in Nat
      BY <2>1, LenProperties, ElementOfSeq
    <2> QED BY <2>1, <2>2 DEF Owed, Published
  <1>4. ASSUME NEW x \in Owed(s)' \cup FlyingIds,
               x <= top
        PROVE  x \in Elements(shown'[s])
    <2>1. x \in Nat
      BY <1>1, <1>3 DEF FlyingIds
    <2>2. CASE x <= new
      BY <2>2, <1>2
    <2>3. CASE ~(x <= new)
      <3>1. x > new /\ x <= to
        BY <1>2, <1>4, <2>1, <2>3
      <3>2. CASE id < x
        BY <1>2, <1>4, <2>1, <3>1, <3>2
      <3>3. CASE x \in Elements(shown[s])
        BY <1>2, <3>3
      <3> QED BY <3>1, <3>2, <3>3
    <2> QED BY <2>2, <2>3
  <1>5. top \in Known'
    BY <1>1, <1>2 DEF Known, Given
  <1>6. \A v \in Writers : InFlight(v)' /\ own'[v] \notin gone' /\ own'[v] <= top
                            => own'[v] \in Elements(shown'[s])
    BY <1>1, <1>4 DEF FlyingIds
  <1> QED BY <1>4, <1>5, <1>6 DEF NoGaps

\* What a page owed, and what is in flight, before it moves.
LEMMA HadNoGaps ==
    ASSUME SlipInv, NEW s \in Pages, conn[s] # "closed"
    PROVE  /\ NoGaps(s) /\ Newest(shown[s]) \in Nat
           /\ \A x \in Owed(s) \cup FlyingIds :
                 x <= Newest(shown[s]) => x \in Elements(shown[s])
  <1>1. NoGaps(s) /\ Newest(shown[s]) \in Nat
    BY QueueParts, NewestIsNat DEF SlipInv, PageInv
  <1> QED BY <1>1 DEF NoGaps, FlyingIds, Owed

LEMMA StoredFromOne ==
    ASSUME FeedInv
    PROVE  /\ \A v \in Writers : InFlight(v) => own[v] \in Nat /\ 0 < own[v]
           /\ \A k \in DOMAIN log : log[k] \in Nat /\ 0 < log[k]
  <1>1. log \in Seq(Nat) /\ own \in [Writers -> Nat]
    BY DEF FeedInv, TraceInv, TraceTyped
  <1>2. \A k \in DOMAIN log : log[k] \in Nat
    BY <1>1, LenProperties, ElementOfSeq
  <1> QED BY <1>1, <1>2 DEF FeedInv, TraceInv, LogBehind

LEMMA SlipOpen ==
    ASSUME SlipInv, FeedInv', NEW s \in Pages, OpenPage(s)
    PROVE  SlipInv'
  <1>1. stored \in Nat /\ shown[s] = <<>> /\ conn[s] = "closed"
    BY QueueParts DEF OpenPage, SlipInv, PageInv
  <1> PICK t \in Nat : t = LastListed(0) /\ t \in Known
    BY <1>1, LastListedIsKnown DEF Known
  <1>2. /\ conn' = [conn EXCEPT ![s] = "off"]
        /\ shown' = [shown EXCEPT ![s] = Absorb(@, 0, t)]
        /\ after' = [after EXCEPT ![s] = t]
        /\ full' = [full EXCEPT ![s] = (t = ReplayLimit)]
        /\ UNCHANGED <<last, queue, joined, connects, trace, steering>>
    BY DEF OpenPage
  <1>3. /\ shown'[s] = Absorb(shown[s], 0, t) /\ after'[s] = t /\ conn'[s] = "off"
        /\ joined'[s] <= Len(log)
        /\ conn' \in [Pages -> {"closed", "off", "attached", "live"}]
        /\ joined' \in [Pages -> Nat] /\ full' \in [Pages -> BOOLEAN]
        /\ \A p \in Pages \ {s} :
               /\ conn'[p] = conn[p] /\ after'[p] = after[p] /\ last'[p] = last[p]
               /\ queue'[p] = queue[p] /\ shown'[p] = shown[p]
               /\ joined'[p] = joined[p] /\ full'[p] = full[p]
    BY <1>2 DEF SlipInv, FeedInv, PageTyped, ConnTyped
  <1>4. Newest(shown[s]) = 0
    BY <1>1 DEF Newest
  <1>5. t <= Newest(shown'[s])
    <2>1. shown[s] \in Seq(Nat)
      BY QueueParts DEF SlipInv
    <2>2. 0 < t \/ t <= Newest(shown[s])
      BY <1>4
    <2> QED BY <1>3, <2>1, <2>2, AbsorbFacts
  <1>6. \A v \in Writers : InFlight(v) => own[v] \in Nat /\ 0 < own[v]
    BY StoredFromOne DEF SlipInv
  <1>7. \A x \in Owed(s)' : x \in Nat /\ 0 < x
    <2>1. log' = log
      BY <1>2 DEF trace
    <2> QED BY <2>1, StoredFromOne DEF SlipInv, Owed, Published
  <1>8. NoGaps(s)'
    <2>1. \A x \in Owed(s)' \cup FlyingIds :
              /\ x <= Newest(shown[s]) => x \in Elements(shown[s])
              /\ Newest(shown[s]) < x /\ x <= t => 0 < x \/ x \in Elements(shown[s])
      BY <1>4, <1>6, <1>7 DEF FlyingIds
    <2>2. after'[s] <= Newest(shown'[s]) /\ Newest(shown[s]) \in Known
      BY <1>1, <1>3, <1>4, <1>5 DEF Known
    <2>3. conn'[s] # "attached" /\ conn'[s] # "live"
      BY <1>3
    <2> QED BY <1>2, <1>3, <2>1, <2>2, <2>3, TakesIn
  <1>9. PageInv(s)'
    BY <1>3, <1>8 DEF PageInv, Attached
  <1> QED BY <1>2, <1>3, <1>9, SlipMoves

LEMMA SlipAttach ==
    ASSUME SlipInv, FeedInv', NEW s \in Pages, Attach(s) \/ Disconnect(s)
    PROVE  SlipInv'
  <1> PICK n \in Nat : n = Len(log) /\ DOMAIN log = 1..n
    BY LenProperties DEF SlipInv, FeedInv, TraceInv, TraceTyped
  <1>1. /\ UNCHANGED <<after, shown, full, trace, steering>>
        /\ queue' = [queue EXCEPT ![s] = <<>>]
        /\ conn[s] # "closed"
        /\ \/ /\ conn' = [conn EXCEPT ![s] = "attached"]
              /\ last' = [last EXCEPT ![s] = after[s]]
              /\ joined' = [joined EXCEPT ![s] = n]
           \/ /\ conn' = [conn EXCEPT ![s] = "off"]
              /\ last' = last /\ joined' = joined
    BY DEF Attach, Disconnect, Attached
  <1>2. UNCHANGED <<stored, gone, stage, own, log>>
    BY <1>1 DEF trace, table
  <1>3. /\ queue'[s] = <<>>
        /\ joined'[s] \in Nat /\ joined'[s] <= Len(log)
        /\ \/ conn'[s] = "attached" /\ last'[s] = after[s] /\ joined'[s] = n
           \/ conn'[s] = "off"
        /\ conn' \in [Pages -> {"closed", "off", "attached", "live"}]
        /\ joined' \in [Pages -> Nat]
        /\ \A p \in Pages \ {s} :
               /\ conn'[p] = conn[p] /\ last'[p] = last[p] /\ queue'[p] = queue[p]
               /\ joined'[p] = joined[p]
    <2>1. /\ conn \in [Pages -> {"closed", "off", "attached", "live"}]
          /\ joined \in [Pages -> Nat] /\ joined[s] <= Len(log)
          /\ queue \in [Pages -> Seq(Nat)] /\ last \in [Pages -> Nat]
      BY DEF SlipInv, FeedInv, PageTyped, ConnTyped
    <2>2. CASE /\ conn' = [conn EXCEPT ![s] = "attached"]
               /\ last' = [last EXCEPT ![s] = after[s]]
               /\ joined' = [joined EXCEPT ![s] = n]
      BY <1>1, <2>1, <2>2
    <2>3. CASE conn' = [conn EXCEPT ![s] = "off"] /\ last' = last /\ joined' = joined
      BY <1>1, <2>1, <2>3
    <2> QED BY <1>1, <2>2, <2>3
  <1>4. conn'[s] = "attached" => Since(s)' = {}
    <2> SUFFICES ASSUME conn'[s] = "attached" PROVE Since(s)' = {}
      OBVIOUS
    <2>1. \A k \in 1..n : ~(k > n)
      OBVIOUS
    <2> QED BY <1>2, <1>3, <2>1 DEF Since
  <1>5. Owed(s)' \subseteq Owed(s)
    BY <1>1, <1>2, <1>3, <1>4 DEF Owed, Published, Attached
  <1>6. NoGaps(s)'
    <2>1. NoGaps(s)
      BY <1>1, HadNoGaps
    <2> QED BY <1>1, <1>2, <1>3, <1>5, <2>1
            DEF NoGaps, InFlight, Inserted, Committed, Known, Given
  <1>7. conn'[s] = "attached" => QueueHas(s)'
    <2>1. DOMAIN queue'[s] = {}
      BY <1>3, EmptySeq
    <2> QED BY <1>4, <2>1 DEF QueueHas, Elements
  <1>8. PageInv(s)'
    BY <1>3, <1>6, <1>7 DEF PageInv, Attached
  <1>9. full' \in [Pages -> BOOLEAN]
    BY <1>1 DEF SlipInv, ConnTyped
  <1> QED BY <1>1, <1>3, <1>8, <1>9, SlipMoves

\* A replay that is not a full page reaches the end of the table; what the page is
\* owed beyond a full one was published since it attached, and is in the queue.
LEMMA SlipReplay ==
    ASSUME SlipInv, FeedInv', NEW s \in Pages, Replay(s)
    PROVE  SlipInv'
  <1> PICK l \in Nat : l = last[s] /\ l \in Known
    BY QueueParts DEF SlipInv, FeedInv, PageTyped
  <1>1. stored \in Nat /\ conn[s] = "attached" /\ shown[s] \in Seq(Nat)
    BY QueueParts DEF Replay, SlipInv
  <1> PICK t \in Nat : /\ t = LastListed(l) /\ t \in Known
                       /\ stored <= t \/ t = l + ReplayLimit
    BY <1>1, LastListedIsKnown
  <1>2. /\ conn' = [conn EXCEPT ![s] = "live"]
        /\ last' = [last EXCEPT ![s] = t]
        /\ shown' = [shown EXCEPT ![s] = Absorb(@, l, t)]
        /\ full' = [full EXCEPT ![s] = @ \/ t = l + ReplayLimit]
        /\ UNCHANGED <<after, queue, joined, connects, trace, steering>>
    BY DEF Replay
  <1>3. /\ shown'[s] = Absorb(shown[s], l, t) /\ last'[s] = t /\ conn'[s] = "live"
        /\ joined'[s] <= Len(log) /\ full'[s] = (full[s] \/ t = l + ReplayLimit)
        /\ conn' \in [Pages -> {"closed", "off", "attached", "live"}]
        /\ joined' \in [Pages -> Nat] /\ full' \in [Pages -> BOOLEAN]
        /\ \A p \in Pages \ {s} :
               /\ conn'[p] = conn[p] /\ after'[p] = after[p] /\ last'[p] = last[p]
               /\ queue'[p] = queue[p] /\ shown'[p] = shown[p]
               /\ joined'[p] = joined[p] /\ full'[p] = full[p]
    BY <1>2 DEF SlipInv, FeedInv, PageTyped, ConnTyped
  <1>4. /\ NoGaps(s) /\ Newest(shown[s]) \in Nat
        /\ \A x \in Owed(s) \cup FlyingIds :
              x <= Newest(shown[s]) => x \in Elements(shown[s])
    BY <1>1, HadNoGaps
  <1>5. l <= Newest(shown[s]) /\ after[s] <= Newest(shown[s]) /\ after[s] \in Nat
    BY <1>1, <1>4, QueueParts DEF NoGaps, SlipInv
  <1>6. UNCHANGED <<log, stage, own, stored, gone>>
    BY <1>2 DEF trace, table
  <1>7. Owed(s)' \subseteq Owed(s) /\ Since(s)' = Since(s)
    <2>1. Since(s)' = Since(s) /\ Published' = Published
      BY <1>2, <1>6 DEF Since, Published
    <2>2. Attached(s) /\ ~full'[s] => ~full[s]
      BY <1>1, <1>3 DEF Attached
    <2> QED BY <1>1, <1>6, <2>1, <2>2 DEF Owed, Attached
  <1>8. /\ Newest(shown[s]) <= Newest(shown'[s]) /\ t <= Newest(shown'[s])
        /\ Newest(shown'[s]) \in Nat
    <2>1. shown'[s] \in Seq(Nat)
      BY DEF FeedInv, PageTyped
    <2>2. l < t \/ t <= Newest(shown[s])
      BY <1>4, <1>5
    <2> QED BY <1>1, <1>3, <2>1, <2>2, AbsorbFacts, NewestIsNat
  <1>9. NoGaps(s)'
    <2>1. ASSUME NEW x \in Owed(s)' \cup FlyingIds
          PROVE  /\ x <= Newest(shown[s]) => x \in Elements(shown[s])
                 /\ Newest(shown[s]) < x /\ x <= t => l < x \/ x \in Elements(shown[s])
      <3>1. x <= Newest(shown[s]) => x \in Elements(shown[s])
        BY <1>4, <1>7
      <3>2. x \in Nat
        BY StoredFromOne, <1>6 DEF SlipInv, Owed, Published, FlyingIds
      <3> QED BY <1>4, <1>5, <3>1, <3>2
    <2>2. after'[s] <= Newest(shown'[s]) /\ Newest(shown[s]) \in Known
      BY <1>2, <1>4, <1>5, <1>8 DEF NoGaps
    <2>3. conn'[s] # "attached" /\ last'[s] <= Newest(shown'[s])
      BY <1>3, <1>8
    <2> QED BY <1>2, <1>3, <2>1, <2>2, <2>3, TakesIn
  <1>10. QueueHas(s)'
    <2>1. QueueHas(s)
      BY <1>1 DEF SlipInv, PageInv, Attached
    <2>2. ASSUME NEW x \in Owed(s)'
          PROVE  x \in Elements(shown'[s]) \/ (x \in Elements(queue'[s]) /\ x > last'[s])
      <3>1. x \in Nat /\ x <= stored
        BY StoredFromOne, <1>6
           DEF SlipInv, FeedInv, TraceInv, LogBehind, Owed, Published, Given
      <3>2. x <= Newest(shown'[s]) => x \in Elements(shown'[s])
        BY <1>9 DEF NoGaps
      <3>3. CASE x <= t
        BY <1>8, <3>1, <3>2, <3>3
      <3>4. CASE ~(x <= t)
        <4>1. ~(stored <= t)
          BY <3>1, <3>4, <1>1
        <4>2. t = l + ReplayLimit
          BY <4>1
        <4>3. x \in Since(s)
          BY <1>3, <1>7, <4>2 DEF Owed
        <4> QED BY <1>1, <1>2, <1>3, <2>1, <3>1, <3>4, <4>3 DEF QueueHas
      <3> QED BY <3>3, <3>4
    <2> QED BY <1>2, <1>3, <1>6, <1>7, <2>1, <2>2 DEF QueueHas, Before
  <1>11. PageInv(s)'
    BY <1>3, <1>9, <1>10 DEF PageInv
  <1> QED BY <1>2, <1>3, <1>11, SlipMoves

LEMMA SlipServe ==
    ASSUME SlipInv, FeedInv', NEW s \in Pages, Serve(s)
    PROVE  SlipInv'
  <1>1. /\ stored \in Nat /\ conn[s] = "live" /\ shown[s] \in Seq(Nat) /\ last[s] \in Nat
        /\ queue[s] \in Seq(Nat) /\ queue[s] # <<>>
        /\ after[s] \in Nat
    BY QueueParts DEF Serve, SlipInv
  <1> PICK m \in Nat : m + 1 = Len(queue[s])
    <2>1. Len(queue[s]) \in Nat /\ Len(queue[s]) # 0
      BY <1>1, EmptySeq
    <2>2. Len(queue[s]) - 1 \in Nat /\ (Len(queue[s]) - 1) + 1 = Len(queue[s])
      BY <2>1
    <2> QED BY <2>2
  <1>2. /\ DOMAIN queue[s] = 1..(m + 1) /\ 1 \in 1..(m + 1)
        /\ Head(queue[s]) = queue[s][1]
        /\ \A k \in 1..(m + 1) : queue[s][k] \in Nat /\ queue[s][k] \in Given
        /\ DOMAIN Tail(queue[s]) = 1..m
        /\ \A k \in 1..m : Tail(queue[s])[k] = queue[s][k + 1] /\ k + 1 \in 1..(m + 1)
        /\ \A k \in 1..(m + 1) : k = 1 \/ (k - 1 \in 1..m /\ (k - 1) + 1 = k)
    <2>1. 1 \in 1..(m + 1) /\ DOMAIN queue[s] = 1..(m + 1)
      BY <1>1, LenProperties
    <2>2. /\ Tail(queue[s]) \in Seq(Nat) /\ Len(Tail(queue[s])) = m
          /\ \A k \in 1..m : Tail(queue[s])[k] = queue[s][k + 1]
      BY <1>1, HeadTailProperties
    <2>3. DOMAIN Tail(queue[s]) = 1..m
      BY <2>2, LenProperties
    <2>4. \A k \in 1..(m + 1) : queue[s][k] \in Nat /\ queue[s][k] \in Given
      BY QueueParts DEF SlipInv
    <2>5. Head(queue[s]) = queue[s][1]
      BY <1>1, HeadTailProperties
    <2> QED BY <2>1, <2>2, <2>3, <2>4, <2>5
  <1> PICK id \in Nat : id = queue[s][1] /\ id \in Known
    BY <1>2 DEF Known
  <1>3. /\ queue' = [queue EXCEPT ![s] = Tail(@)]
        /\ IF Sends(s, id)
           THEN /\ last' = [last EXCEPT ![s] = id]
                /\ shown' = [shown EXCEPT ![s] = Absorb(@, id - 1, id)]
           ELSE UNCHANGED <<last, shown>>
        /\ UNCHANGED <<conn, after, joined, full, connects, trace, steering>>
    BY <1>2 DEF Serve
  <1>4. /\ queue'[s] = Tail(queue[s]) /\ joined'[s] <= Len(log)
        /\ IF id > last[s]
           THEN last'[s] = id /\ shown'[s] = Absorb(shown[s], id - 1, id)
           ELSE last'[s] = last[s] /\ shown'[s] = shown[s]
        /\ conn' \in [Pages -> {"closed", "off", "attached", "live"}]
        /\ joined' \in [Pages -> Nat] /\ full' \in [Pages -> BOOLEAN]
        /\ \A p \in Pages \ {s} :
               /\ last'[p] = last[p] /\ queue'[p] = queue[p] /\ shown'[p] = shown[p]
    BY <1>3 DEF SlipInv, FeedInv, PageTyped, ConnTyped, Sends
  <1>5. /\ NoGaps(s) /\ Newest(shown[s]) \in Nat
        /\ \A x \in Owed(s) \cup FlyingIds :
              x <= Newest(shown[s]) => x \in Elements(shown[s])
    BY <1>1, HadNoGaps
  <1>6. QueueHas(s)
    BY <1>1 DEF SlipInv, PageInv, Attached
  <1>7. UNCHANGED <<log, stage, own, stored, gone>>
    BY <1>3 DEF trace, table
  <1>8. Owed(s)' = Owed(s) /\ Since(s)' = Since(s)
    BY <1>3, <1>7 DEF Owed, Published, Since, Attached
  <1>9. \A x \in Owed(s) : x \in Nat /\ x \notin gone
    BY StoredFromOne DEF SlipInv, Owed, Published
  \* the head of the queue is the oldest that waits
  <1>10. \A k \in 1..(m + 1) : k = 1 \/ Before(id, queue[s][k])
    <2>1. \A k \in 1..(m + 1) : k = 1 \/ 1 < k
      OBVIOUS
    <2> QED BY <2>1, <1>2, <1>6 DEF QueueHas
  <1>11. \A x \in Elements(queue[s]) :
            x = id \/ (x \in Elements(queue'[s]) /\ (id < x \/ x \in gone))
    <2> SUFFICES ASSUME NEW k \in 1..(m + 1)
                 PROVE  queue[s][k] = id
                        \/ /\ queue[s][k] \in Elements(queue'[s])
                           /\ id < queue[s][k] \/ queue[s][k] \in gone
      BY <1>2 DEF Elements
    <2>1. CASE k = 1
      BY <2>1
    <2>2. CASE k # 1
      <3>1. k - 1 \in DOMAIN queue'[s] /\ queue'[s][k - 1] = queue[s][k]
        <4>1. k - 1 \in 1..m /\ (k - 1) + 1 = k
          BY <2>2
        <4> PICK j \in 1..m : j = k - 1
          BY <4>1
        <4>2. j \in DOMAIN Tail(queue[s]) /\ Tail(queue[s])[j] = queue[s][j + 1]
          BY <1>2
        <4> QED BY <4>1, <4>2, <1>4
      <3> QED BY <1>10, <2>2, <3>1 DEF Elements, Before
    <2> QED BY <2>1, <2>2
  \* what is in flight is newer than what is published
  <1>12. \A v \in Writers : InFlight(v) /\ own[v] \notin gone => id < own[v]
    <2>1. id \in Since(s)
      BY <1>2, <1>6 DEF QueueHas, Elements
    <2> QED BY <2>1 DEF Since, SlipInv, FeedInv, TraceInv, LogBehind, Before
  <1>13. NoGaps(s)' /\ (id > last[s] => id <= Newest(shown'[s]))
         /\ Elements(shown[s]) \subseteq Elements(shown'[s])
    <2>1. CASE ~(id > last[s])
      <3>1. last'[s] = last[s] /\ shown'[s] = shown[s]
        BY <1>4, <2>1
      <3> QED BY <1>3, <1>5, <1>7, <1>8, <2>1, <3>1
              DEF NoGaps, InFlight, Inserted, Committed, Known, Given
    <2>2. CASE id > last[s]
      <3> PICK j \in Nat : j = id - 1
        BY <1>1, <2>2
      <3>1. last'[s] = id /\ shown'[s] = Absorb(shown[s], j, id)
        BY <1>4, <2>2
      <3>2. /\ Newest(shown[s]) <= Newest(shown'[s]) /\ id <= Newest(shown'[s])
            /\ Newest(shown'[s]) \in Nat /\ Elements(shown[s]) \subseteq Elements(shown'[s])
        <4>1. shown'[s] \in Seq(Nat)
          BY DEF FeedInv, PageTyped
        <4>2. j < id
          OBVIOUS
        <4>3. /\ Newest(shown[s]) <= Newest(Absorb(shown[s], j, id))
              /\ id <= Newest(Absorb(shown[s], j, id))
              /\ Elements(shown[s]) \subseteq Elements(Absorb(shown[s], j, id))
          BY <1>1, <4>2, AbsorbFacts
        <4>4. Newest(shown'[s]) \in Nat
          BY <4>1, NewestIsNat
        <4> QED BY <3>1, <4>3, <4>4
      <3>3. ASSUME NEW x \in Owed(s)' \cup FlyingIds
            PROVE  /\ x <= Newest(shown[s]) => x \in Elements(shown[s])
                   /\ Newest(shown[s]) < x /\ x <= id => j < x \/ x \in Elements(shown[s])
        <4>1. x <= Newest(shown[s]) => x \in Elements(shown[s])
          BY <1>5, <1>8
        <4>2. x <= id => x = id \/ x \in Elements(shown[s])
          <5>1. CASE x \in Owed(s)
            <6>1. x \in Elements(shown[s]) \/ x \in Elements(queue[s])
              BY <1>1, <1>6, <5>1 DEF QueueHas
            <6> QED BY <1>9, <1>11, <5>1, <6>1
          <5>2. CASE \E v \in Writers : InFlight(v) /\ x = own[v] /\ x \notin gone
            <6>1. id < x /\ x \in Nat
              BY <1>12, <5>2, StoredFromOne DEF SlipInv
            <6> QED BY <6>1
          <5> QED BY <1>8, <5>1, <5>2 DEF FlyingIds
        <4> QED BY <4>1, <4>2
      <3>4. after'[s] <= Newest(shown'[s]) /\ Newest(shown[s]) \in Known
        <4>1. after[s] <= Newest(shown[s]) /\ Newest(shown[s]) \in Known
          BY <1>5 DEF NoGaps
        <4>2. after'[s] = after[s]
          BY <1>3
        <4>3. Newest(shown[s]) \in Nat
          BY <1>5
        <4>4. after[s] \in Nat
          BY <1>1
        <4> QED BY <3>2, <4>1, <4>2, <4>3, <4>4
      <3>5. conn'[s] # "attached" /\ last'[s] <= Newest(shown'[s])
        BY <1>1, <1>3, <3>1, <3>2
      <3>6. NoGaps(s)'
        BY <1>3, <3>1, <3>3, <3>4, <3>5, TakesIn
      <3> QED BY <3>2, <3>6
    <2> QED BY <2>1, <2>2
  <1>14. QueueHas(s)'
    <2>1. \A j, k \in DOMAIN queue'[s] : j < k => Before(queue[s][j], queue[s][k])'
      <3>1. DOMAIN queue'[s] = 1..m
        BY <1>2, <1>4
      <3> SUFFICES ASSUME NEW j \in 1..m, NEW k \in 1..m, j < k
                   PROVE  Before(queue[s][j], queue[s][k])'
        BY <3>1
      <3>4. j + 1 < k + 1 /\ j + 1 \in 1..(m + 1) /\ k + 1 \in 1..(m + 1)
        OBVIOUS
      <3>2. j + 1 < k + 1 /\ j + 1 \in DOMAIN queue[s] /\ k + 1 \in DOMAIN queue[s]
        BY <1>2, <3>4
      <3>3. queue'[s][j] = queue[s][j + 1] /\ queue'[s][k] = queue[s][k + 1]
        BY <1>2, <1>4
      <3> QED BY <3>2, <3>3, <1>6, <1>7 DEF QueueHas, Before
    <2>2. Elements(queue'[s]) \subseteq Elements(queue[s])
      <3>1. \A k \in 1..m : k \in DOMAIN queue'[s] /\ queue'[s][k] = queue[s][k + 1]
                             /\ k + 1 \in DOMAIN queue[s]
        BY <1>2, <1>4
      <3>2. DOMAIN queue'[s] = 1..m
        BY <1>2, <1>4
      <3> QED BY <3>1, <3>2 DEF Elements
    <2>3. ASSUME NEW x \in Owed(s)
          PROVE  x \in Elements(shown'[s]) \/ (x \in Elements(queue'[s]) /\ x > last'[s])
      <3>1. CASE x \in Elements(shown[s])
        BY <1>13, <3>1
      <3>2. CASE x \in Elements(queue[s]) /\ x > last[s] /\ x = id
        <4>1. id <= Newest(shown'[s])
          BY <1>13, <3>2
        <4> QED BY <1>8, <1>13, <3>2, <4>1 DEF NoGaps
      <3>3. CASE x \in Elements(queue[s]) /\ x > last[s] /\ x # id
        <4>1. x \in Elements(queue'[s]) /\ id < x
          BY <1>9, <1>11, <3>3
        <4>2. last'[s] = id \/ last'[s] = last[s]
          BY <1>4
        <4> QED BY <1>9, <3>3, <4>1, <4>2
      <3> QED BY <1>1, <1>6, <3>1, <3>2, <3>3 DEF QueueHas
    <2> QED BY <1>1, <1>3, <1>6, <1>8, <2>1, <2>2, <2>3 DEF QueueHas
  <1>15. PageInv(s)'
    BY <1>1, <1>3, <1>13, <1>14 DEF PageInv
  <1> QED BY <1>3, <1>4, <1>15, SlipMoves

LEMMA SlipStep == SlipInv /\ [Next]_vars => SlipInv'
  <1> SUFFICES ASSUME SlipInv, [Next]_vars PROVE SlipInv'
    OBVIOUS
  <1>1. FeedInv' /\ TraceInv' /\ stored \in Nat
    BY FeedStep DEF SlipInv, FeedInv, TraceInv, TraceTyped
  <1>2. \A w \in Writers : own[w] \in Nat
    BY DEF SlipInv, FeedInv, TraceInv, TraceTyped
  <1>3. ASSUME NEW w \in Writers, Insert(w), UNCHANGED streams
        PROVE  SlipInv'
    <2>1. UNCHANGED <<streams, log, gone>> /\ Given \subseteq Given'
      BY <1>1, <1>3 DEF Insert, Given
    <2>2. /\ own'[w] = stored + 1
          /\ \A v \in Writers \ {w} : own'[v] = own[v] /\ (InFlight(v)' => InFlight(v))
      BY <1>3 DEF Insert, InFlight, Inserted, Committed, SlipInv, FeedInv, TraceInv,
                  TraceTyped
    <2> QED BY <1>1, <2>1, <2>2, SlipSame DEF SlipInv
  <1>4. ASSUME NEW w \in Writers, Commit(w) \/ Abandon(w) \/ SteerAnswered(w)
        PROVE  SlipInv'
    <2>1. UNCHANGED <<stored, gone, own, log, streams>> /\ Given' = Given
      BY <1>1, <1>4 DEF Commit, Abandon, SteerAnswered, table, Given
    <2>2. \A v \in Writers : InFlight(v)' => InFlight(v) /\ own'[v] = own[v]
      BY <1>4, <2>1 DEF Commit, Abandon, SteerAnswered, LeaveLine, InFlight, Inserted,
                        Committed, SlipInv, FeedInv, TraceInv, TraceTyped
    <2> QED BY <1>1, <2>1, <2>2, SlipSame DEF SlipInv
  <1>5. ASSUME NEW w \in Writers, Publish(w)
        PROVE  SlipInv'
    BY <1>1, <1>5, SlipPublish DEF SlipInv
  <1>6. ASSUME NEW s \in Pages,
               OpenPage(s) \/ Attach(s) \/ Replay(s) \/ Serve(s) \/ Disconnect(s)
        PROVE  SlipInv'
    BY <1>1, <1>6, SlipOpen, SlipAttach, SlipReplay, SlipServe
  <1>7. CASE StartRun \/ CheckMessages \/ EndRun \/ UNCHANGED vars
    <2>1. UNCHANGED <<trace, streams>>
      BY <1>7 DEF StartRun, CheckMessages, EndRun, vars
    <2>2. /\ UNCHANGED <<streams, log, gone>> /\ Given' = Given
          /\ \A v \in Writers : InFlight(v)' => InFlight(v) /\ own'[v] = own[v]
      BY <1>1, <2>1 DEF trace, table, Given, InFlight, Inserted, Committed
    <2> QED BY <1>1, <2>2, SlipSame DEF SlipInv
  <1>8. CASE CommitElsewhere \/ Rollback
    <2>1. UNCHANGED <<streams, log, own, stage>>
      BY <1>8 DEF CommitElsewhere, Rollback
    <2>2. Given \subseteq Given' /\ gone \subseteq gone'
      BY <1>8, GivenStays DEF SlipInv, FeedInv
    <2>3. \A v \in Writers : InFlight(v)' => InFlight(v) /\ own'[v] = own[v]
      BY <2>1 DEF InFlight, Inserted, Committed
    <2> QED BY <1>1, <2>1, <2>2, <2>3, SlipSame DEF SlipInv
  <1> QED
    BY <1>3, <1>4, <1>5, <1>6, <1>7, <1>8 DEF Next, Emit, Steer, Writers

LEMMA SlipInit == Init => SlipInv
  <1> SUFFICES ASSUME Init PROVE SlipInv
    OBVIOUS
  <1>1. FeedInv
    BY FeedInit
  <1>2. Len(log) = 0
    BY EmptySeq DEF Init
  <1> QED BY <1>1, <1>2 DEF Init, SlipInv, ConnTyped, PageInv, Attached

(* What is published once a page is attached, and stays in the table, is shown *)
(* there or will be served, and so is every earlier event unless a page of     *)
(* rows came back full: attaching before the replay, and serving only newer    *)
(* ids, loses nothing but ids that a rollback gave back.                       *)
THEOREM NothingIsMissed == Spec => []NothingSlips
  <1>1. SlipInv /\ [Next]_vars => SlipInv'
    BY SlipStep
  <1> QED BY <1>1, SlipInit, SlipInvGives, PTL DEF Spec
-----------------------------------------------------------------------------
(* Types and bounds *)

Ids == 1..MaxEvents

LEMMA RowsAreIds ==
    ASSUME NEW from \in Nat \ {0}, NEW to \in 0..MaxEvents
    PROVE  Rows(from, to) \in Seq(Ids)
  <1>0. MaxEvents \in Nat
    BY FeedAssumption
  <1>1. CASE from > to
    <2>1. Rows(from, to) = <<>>
      BY <1>0, <1>1, RowsAreSeq
    <2> QED
      BY <2>1, EmptySeq
  <1>2. CASE from <= to
    <2> DEFINE n == to - from + 1
    <2>1. n \in Nat /\ \A k \in 1..n : from + k - 1 \in Ids
      BY <1>0, <1>2 DEF Ids
    <2>2. Rows(from, to) \in [1..n -> Ids]
      BY <2>1 DEF Rows
    <2> QED
      BY <2>1, <2>2, SeqDef
  <1> QED
    BY <1>0, <1>1, <1>2

LEMMA AbsorbsIds ==
    ASSUME NEW seq \in Seq(Ids), NEW id \in Nat, NEW to \in 0..MaxEvents
    PROVE  Absorb(seq, id, to) \in Seq(Ids)
  <1>1. Newest(seq) \in Nat
    <2>1. seq \in Seq(Nat)
      <3>1. Ids \subseteq Nat
        BY DEF Ids
      <3> QED
        BY <3>1, SeqMonotonic
    <2> QED
      BY <2>1, NewestIsNat
  <1>2. Newest(seq) + 1 \in Nat \ {0} /\ id + 1 \in Nat \ {0}
    BY <1>1
  <1>3. Rows(Newest(seq) + 1, to) \in Seq(Ids) /\ Rows(id + 1, to) \in Seq(Ids)
    BY <1>2, RowsAreIds
  <1>4. \A r \in Seq(Ids) : seq \o r \in Seq(Ids)
    BY ConcatProperties
  <1> QED
    BY <1>3, <1>4 DEF Absorb

LEMMA ListsIds ==
    ASSUME TypeOK, NEW id \in 0..MaxEvents
    PROVE  LastListed(id) \in 0..MaxEvents
  BY FeedAssumption DEF TypeOK, LastListed, Lesser

LEMMA WriterTypes ==
    ASSUME TypeOK, TraceInv, NEW w \in Writers,
           \/ Emit(w) \/ Commit(w) \/ Publish(w) \/ Abandon(w)
           \/ Steer(w) \/ SteerAnswered(w)
    PROVE  TypeOK'
  <1> USE FeedAssumption DEF trace, table, streams, steering
  <1>0. ASSUME Insert(w)
        PROVE  /\ issued' \in 0..MaxEvents /\ stored' \in 0..issued'
               /\ saved' \in 0..stored' /\ UNCHANGED <<gone, bound>>
               /\ own' \in [Writers -> 0..MaxEvents]
    <2>1. bound.events \in 0..MaxEvents
      BY DEF TypeOK
    <2> QED
      BY <1>0, <2>1 DEF TypeOK, Insert
  <1>1. CASE Emit(w)
    <2>1. /\ line' \in Nat /\ place' \in [Writers -> Nat]
          /\ stage' \in [Writers -> {"idle", "inserted", "committed"}]
      BY <1>1 DEF TypeOK, Emit, Insert
    <2>2. Insert(w) /\ UNCHANGED <<log, streams, steering>>
      BY <1>1 DEF Emit, Insert
    <2> QED
      BY <1>0, <2>1, <2>2 DEF TypeOK
  <1>2. CASE Commit(w)
    <2>1. Without(w) \in [Writers -> Nat]
      BY <1>2, WithoutKeeps DEF TraceInv, Commit, InFlight, Inserted
    <2>2. /\ line' \in Nat /\ place' \in [Writers -> Nat]
          /\ stage' \in [Writers -> {"idle", "inserted", "committed"}]
      BY <1>2, <2>1 DEF TypeOK, Commit
    <2>3. saved' \in 0..stored'
      BY <1>2 DEF TypeOK, Commit
    <2>4. UNCHANGED <<stored, gone, bound, issued, own, log, streams, steering>>
      BY <1>2 DEF Commit
    <2> QED
      BY <2>2, <2>3, <2>4 DEF TypeOK
  <1>3. ASSUME LeaveLine(w), stage[w] # "idle"
        PROVE  /\ stage' \in [Writers -> {"idle", "inserted", "committed"}]
               /\ place' \in [Writers -> Nat] /\ line' \in Nat
    <2>1. InFlight(w)
      BY <1>3 DEF TypeOK, InFlight, Inserted, Committed
    <2> QED
      BY <1>3, <2>1, WithoutKeeps DEF TraceInv, LeaveLine, TypeOK
  <1>4. CASE Abandon(w) \/ SteerAnswered(w)
    <2>1. LeaveLine(w) /\ stage[w] # "idle"
      BY <1>4 DEF Abandon, SteerAnswered
    <2> QED
      BY <1>3, <1>4, <2>1 DEF TypeOK, Abandon, SteerAnswered
  <1>5. CASE Publish(w)
    <2>1. LeaveLine(w) /\ stage[w] = "committed"
      BY <1>5 DEF Publish
    <2>2. own[w] \in Ids
      BY <2>1 DEF TraceInv, LogBehind, InFlight, Inserted, Committed, TypeOK, Ids
    <2>3. log' \in Seq(Ids)
      <3>1. log \in Seq(Ids) /\ log' = Append(log, own[w])
        BY <1>5 DEF TypeOK, Publish, Ids
      <3> QED
        BY <2>2, <3>1, AppendProperties
    <2>4. queue' \in [Pages -> Seq(Ids)]
      <3>1. \A s \in Pages : queue[s] \in Seq(Ids)
        BY DEF TypeOK, Ids
      <3>2. \A s \in Pages : Append(queue[s], own[w]) \in Seq(Ids)
        BY <2>2, <3>1, AppendProperties
      <3> QED
        BY <1>5, <3>1, <3>2 DEF Publish
    <2> QED
      BY <1>3, <1>5, <2>1, <2>3, <2>4 DEF TypeOK, Publish, Ids
  <1>6. CASE Steer(w)
    <2>1. w \in Steers /\ box' = Append(box, w) /\ box \in Seq(Steers)
      BY <1>6 DEF Steer, TypeOK
    <2>2. box' \in Seq(Steers)
      BY <2>1, AppendProperties
    <2>3. accepted' \in [Steers -> 0..MaxRuns]
      BY <1>6 DEF TypeOK, Steer
    <2>4. /\ line' \in Nat
          /\ stage' \in [Writers -> {"idle", "inserted", "committed"}]
          /\ place' \in [Writers -> Nat]
      BY <1>6 DEF TypeOK, Steer, Insert
    <2>5. UNCHANGED <<log, conn, after, last, queue, shown, joined, full, connects,
                      run, runs, heard>>
      BY <1>6 DEF Steer, Insert
    <2> QED
      BY <1>0, <1>6, <2>2, <2>3, <2>4, <2>5 DEF TypeOK, Steer
  <1> QED
    BY <1>1, <1>2, <1>4, <1>5, <1>6

LEMMA TableTypes ==
    ASSUME TypeOK, CommitElsewhere \/ Rollback
    PROVE  TypeOK'
  <1>1. /\ UNCHANGED <<bound, issued, stage, own, place, line, log, streams, steering>>
        /\ \/ saved' = stored /\ UNCHANGED <<stored, gone>>
           \/ /\ stored' = saved /\ saved' = saved
              /\ gone' = gone \cup (saved + 1)..stored
    BY DEF CommitElsewhere, Rollback
  <1>2. /\ issued \in 0..MaxEvents /\ stored \in 0..issued /\ saved \in 0..stored
        /\ gone \subseteq 1..MaxEvents /\ MaxEvents \in Nat
    BY FeedAssumption DEF TypeOK
  <1>3. (saved + 1)..stored \subseteq 1..MaxEvents
    BY <1>2
  <1>4. stored' \in 0..issued' /\ saved' \in 0..stored' /\ gone' \subseteq 1..MaxEvents
    <2>1. CASE saved' = stored /\ UNCHANGED <<stored, gone>>
      BY <1>1, <1>2, <2>1
    <2>2. CASE /\ stored' = saved /\ saved' = saved
               /\ gone' = gone \cup (saved + 1)..stored
      <3>1. stored' \in 0..issued' /\ saved' \in 0..stored'
        BY <1>1, <1>2, <2>2
      <3> QED
        BY <1>2, <1>3, <2>2, <3>1
    <2> QED
      BY <1>1, <2>1, <2>2
  <1> QED
    BY <1>1, <1>4 DEF TypeOK, streams, steering

LEMMA PageTypes ==
    ASSUME TypeOK, NEW s \in Pages,
           OpenPage(s) \/ Attach(s) \/ Replay(s) \/ Serve(s) \/ Disconnect(s)
    PROVE  TypeOK'
  <1> USE FeedAssumption DEF trace, table, steering
  <1>0. /\ shown[s] \in Seq(Ids) /\ queue[s] \in Seq(Ids) /\ <<>> \in Seq(Ids)
        /\ last[s] \in 0..MaxEvents /\ 0 \in 0..MaxEvents
    BY EmptySeq DEF TypeOK, Ids
  <1>1. CASE OpenPage(s)
    <2>1. LastListed(0) \in 0..MaxEvents
      BY <1>0, ListsIds
    <2>2. Absorb(shown[s], 0, LastListed(0)) \in Seq(Ids)
      BY <1>0, <2>1, AbsorbsIds
    <2> QED
      BY <1>1, <2>1, <2>2 DEF TypeOK, OpenPage, Ids
  <1>2. CASE Attach(s)
    <2>1. Len(log) \in Nat
      BY LenProperties DEF TypeOK
    <2>2. connects' \in [Pages -> 0..MaxConnects]
      <3>2. bound.connects \in 0..MaxConnects
        BY DEF TypeOK
      <3>1. connects[s] + 1 \in 0..MaxConnects
        BY <1>2, <3>2 DEF TypeOK, Attach
      <3> QED
        BY <1>2, <3>1 DEF TypeOK, Attach
    <2>3. /\ conn' \in [Pages -> {"closed", "off", "attached", "live"}]
          /\ last' \in [Pages -> 0..MaxEvents] /\ joined' \in [Pages -> Nat]
      BY <1>2, <2>1 DEF TypeOK, Attach
    <2>4. queue' \in [Pages -> Seq(Ids)]
      BY <1>0, <1>2 DEF TypeOK, Attach, Ids
    <2>5. UNCHANGED <<after, shown, full, trace, steering>>
      BY <1>2 DEF Attach
    <2> QED
      BY <2>2, <2>3, <2>4, <2>5 DEF TypeOK, Ids
  <1>3. CASE Replay(s)
    <2>1. LastListed(last[s]) \in 0..MaxEvents /\ last[s] \in Nat
      BY <1>0, ListsIds
    <2>2. Absorb(shown[s], last[s], LastListed(last[s])) \in Seq(Ids)
      BY <1>0, <2>1, AbsorbsIds
    <2> QED
      BY <1>3, <2>1, <2>2 DEF TypeOK, Replay, Ids
  <1>4. CASE Serve(s)
    <2>1. Head(queue[s]) \in Ids /\ Tail(queue[s]) \in Seq(Ids)
      BY <1>0, <1>4, HeadTailProperties DEF Serve
    <2> DEFINE id == Head(queue[s])
    <2>2. id \in 0..MaxEvents /\ id - 1 \in Nat
      BY <2>1 DEF Ids
    <2> HIDE DEF id
    <2>3. Absorb(shown[s], id - 1, id) \in Seq(Ids)
      BY <1>0, <2>2, AbsorbsIds
    <2>4. /\ queue' = [queue EXCEPT ![s] = Tail(queue[s])]
          /\ \/ /\ last' = [last EXCEPT ![s] = id]
                /\ shown' = [shown EXCEPT ![s] = Absorb(shown[s], id - 1, id)]
             \/ UNCHANGED <<last, shown>>
          /\ UNCHANGED <<conn, after, joined, full, connects, trace, steering>>
      BY <1>4 DEF Serve, id
    <2>7. /\ queue \in [Pages -> Seq(Ids)] /\ shown \in [Pages -> Seq(Ids)]
          /\ last \in [Pages -> 0..MaxEvents]
      BY DEF TypeOK, Ids
    <2>5. /\ queue' \in [Pages -> Seq(Ids)] /\ shown' \in [Pages -> Seq(Ids)]
          /\ last' \in [Pages -> 0..MaxEvents]
      <3> HIDE DEF Ids
      <3> QED
        BY <2>1, <2>2, <2>3, <2>4, <2>7
    <2>6. UNCHANGED <<conn, after, joined, full, connects, trace, steering>>
      BY <2>4
    <2> QED
      BY <2>5, <2>6 DEF TypeOK, Ids
  <1>5. CASE Disconnect(s)
    BY <1>0, <1>5 DEF TypeOK, Disconnect, Ids
  <1> QED
    BY <1>1, <1>2, <1>3, <1>4, <1>5

LEMMA MailboxTypes ==
    ASSUME TypeOK, StartRun \/ CheckMessages \/ EndRun
    PROVE  TypeOK'
  <1> USE FeedAssumption DEF trace, table, streams
  <1>1. CASE StartRun \/ EndRun
    <2>1. box' \in Seq(Steers)
      BY <1>1, EmptySeq DEF StartRun, EndRun
    <2>4. bound.runs \in 0..MaxRuns
      BY DEF TypeOK
    <2>2. run' \in 0..MaxRuns /\ runs' \in 0..MaxRuns
      BY <1>1, <2>4 DEF TypeOK, StartRun, EndRun
    <2>3. UNCHANGED <<accepted, heard, trace, streams>>
      BY <1>1 DEF StartRun, EndRun
    <2> QED
      BY <2>1, <2>2, <2>3 DEF TypeOK
  <1>2. CASE CheckMessages
    <2> DEFINE Hears == [msg : Steers, by : 1..MaxRuns]
               said == [k \in 1..Len(box) |-> [msg |-> box[k], by |-> run]]
    <2>1. Len(box) \in Nat /\ \A k \in 1..Len(box) : box[k] \in Steers
      BY LenProperties, ElementOfSeq DEF TypeOK
    <2>2. run \in 1..MaxRuns
      BY <1>2 DEF TypeOK, CheckMessages
    <2>3. said \in Seq(Hears)
      BY <2>1, <2>2, SeqDef
    <2>4. heard \in Seq(Hears) /\ heard' = heard \o said
      BY <1>2 DEF TypeOK, CheckMessages
    <2> HIDE DEF said, Hears
    <2>5. heard' \in Seq(Hears)
      BY <2>3, <2>4, ConcatProperties
    <2> QED
      BY <1>2, <2>5, EmptySeq DEF TypeOK, CheckMessages, Hears
  <1> QED
    BY <1>1, <1>2

(* The ids in the log, in the queues and on the pages are ids of stored      *)
(* events, and every variable keeps its type and its bound (TypeOK).         *)
THEOREM FeedTypeCorrect == Spec => []TypeOK
  <1>1. Init => TypeOK
    <2> SUFFICES ASSUME Init PROVE TypeOK
      OBVIOUS
    <2>1. /\ \A S : <<>> \in Seq(S)
          /\ 0 \in 0..MaxEvents /\ 0 \in 0..MaxConnects /\ 0 \in 0..MaxRuns
      BY EmptySeq, FeedAssumption
    <2> QED
      BY <2>1 DEF Init, TypeOK
  <1>2. TypeOK /\ TraceInv /\ [Next]_vars => TypeOK'
    <2> SUFFICES ASSUME TypeOK, TraceInv, [Next]_vars PROVE TypeOK'
      OBVIOUS
    <2>1. CASE UNCHANGED vars
      BY <2>1 DEF TypeOK, vars, trace, table, streams, steering
    <2>2. \A m \in Steers : m \in Writers
      BY DEF Writers
    <2> QED
      BY <2>1, <2>2, WriterTypes, PageTypes, MailboxTypes, TableTypes DEF Next
  <1> QED
    BY <1>1, <1>2, TraceInvariant, PTL DEF Spec
=============================================================================
