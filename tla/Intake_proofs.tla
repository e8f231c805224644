--------------------------- MODULE Intake_proofs ---------------------------
(***************************************************************************)
(* Theorems about Intake: for any number of sources, messages, handlers and *)
(* faults, a key has one row, and what a source will not repeat is not       *)
(* forgotten.                                                              *)
(* At the end, the types of the three modules that MCIntake puts together.   *)
(***************************************************************************)
EXTENDS MCIntake, ReviewIntake_proofs, ChatSessions_proofs, TLAPS

Inserting(h) == at[h] = "insert" /\ outcome[h] = "ok"

\* h was told that the row of its key exists.
Losing(h) == \/ at[h] = "select" /\ outcome[h] = "found"
             \/ at[h] = "insert" /\ outcome[h] = "conflict"

\* The line to resume: no two have the same place.
Line ==
    /\ \A h \in Handlers : turn[h] <= waiting
    /\ \A g, h \in Handlers : g # h /\ turn[g] > 0 => turn[g] # turn[h]

\* Whoever inserted the row that h lost to stands before h, and commits first.
HandlerPart(h) ==
    /\ at[h] # "idle" => key[h] \in Keys
    /\ at[h] = "ack" => key[h] \in SlackMsgs
    /\ at[h] \in {"select", "insert"} => turn[h] > 0
    /\ Inserting(h) => Exists(key[h]) \/ key[h] \in excused
    /\ Losing(h) => \/ Safe(key[h])
                    \/ \E g \in Handlers : /\ Inserting(g) /\ key[g] = key[h]
                                           /\ turn[g] < turn[h]
    /\ at[h] \in {"commit", "rollback"} => Safe(key[h])

\* A row that is not committed waits for its creator, or its commit failed.
PendingIsInserted ==
    \A k \in Keys : pending[k] > 0 =>
        k \in excused \/ \E g \in Handlers : Inserting(g) /\ key[g] = k

Working(h, k) == at[h] \notin {"idle", "ack"} /\ key[h] = k

\* What a source will not deliver again is safe, or in hand.
Delivered ==
    /\ \A k \in Updates : k <= tgAcked => Safe(k)
    /\ \A k \in Updates : k <= tgSeen => Safe(k) \/ Working(Poller, k)
    /\ \A m \in slackAcked : Safe(m) \/ \E h \in SlackHandlers : Working(h, m)
    /\ \A k \in answered \cup returned \cup turnedAway : Safe(k)

IntakeInv ==
    /\ IntakeTypeOK /\ OneTaskPerKey /\ Line
    /\ \A h \in Handlers : HandlerPart(h)
    /\ PendingIsInserted /\ Delivered

-----------------------------------------------------------------------------
(* The line *)

Controls == {"idle", "ack", "select", "insert", "commit", "rollback"}
Outcomes == {"ok", "found", "conflict", "error"}

\* The coroutines other than h are where they were, in the same order.
OthersStay(h) ==
    \A g \in Handlers \ {h} :
        /\ at'[g] = at[g] /\ key'[g] = key[g] /\ outcome'[g] = outcome[g]
        /\ turn[g] > 0 => turn'[g] > 0
        /\ \A f \in Handlers \ {h} : turn[f] < turn[g] /\ turn[f] > 0 => turn'[f] < turn'[g]

CoroutinesTyped ==
    /\ at \in [Handlers -> Controls] /\ key \in [Handlers -> Keys \cup Handlers]
    /\ outcome \in [Handlers -> Outcomes]
    /\ turn \in [Handlers -> Nat] /\ waiting \in Nat

(* Who issues a statement is last in line, behind all others.                 *)
LEMMA IssueLine ==
    ASSUME CoroutinesTyped, Line, NEW h \in Handlers, NEW s \in Controls,
           NEW k \in Keys, NEW o \in Outcomes, Issue(h, s, k, o)
    PROVE  /\ CoroutinesTyped' /\ Line' /\ OthersStay(h)
           /\ at'[h] = s /\ key'[h] = k /\ outcome'[h] = o /\ turn'[h] > 0
           /\ \A g \in Handlers \ {h} : turn'[g] < turn'[h]
  <1> DEFINE last == IF turn[h] > 0 THEN waiting ELSE waiting + 1
  <1>1. /\ turn \in [Handlers -> Nat] /\ waiting \in Nat
        /\ \A g \in Handlers : turn[g] \in Nat /\ turn[g] <= waiting
        /\ \A f, g \in Handlers : f # g /\ turn[f] > 0 => turn[f] # turn[g]
    BY DEF CoroutinesTyped, Line
  <1>2. /\ at' = [at EXCEPT ![h] = s] /\ key' = [key EXCEPT ![h] = k]
        /\ outcome' = [outcome EXCEPT ![h] = o]
        /\ waiting' = last
        /\ turn' = [g \in Handlers |->
                      IF g = h THEN last
                      ELSE IF turn[h] > 0 /\ turn[g] > turn[h] THEN turn[g] - 1
                      ELSE turn[g]]
    BY DEF Issue, WithoutTurn
  <1>3. last \in Nat /\ last > 0 /\ waiting' \in Nat
    BY <1>1, <1>2
  <1>4. /\ turn'[h] = last
        /\ \A g \in Handlers \ {h} :
              turn'[g] = IF turn[h] > 0 /\ turn[g] > turn[h] THEN turn[g] - 1 ELSE turn[g]
    BY <1>2
  <1>5. \A g \in Handlers \ {h} :
          /\ turn'[g] \in Nat /\ turn'[g] < last
          /\ turn[g] > 0 => turn'[g] > 0
          /\ turn'[g] > 0 => turn[g] > 0
    BY <1>1, <1>4
  <1>6. \A f, g \in Handlers \ {h} :
          turn[f] < turn[g] /\ turn[f] > 0 => turn'[f] < turn'[g]
    BY <1>1, <1>4
  <1>7. turn' \in [Handlers -> Nat]
    BY <1>2, <1>3, <1>4, <1>5
  <1>8. CoroutinesTyped'
    BY <1>2, <1>3, <1>7 DEF CoroutinesTyped
  <1>9. Line'
    <2>1. \A g \in Handlers : turn'[g] <= waiting'
      BY <1>2, <1>3, <1>4, <1>5
    <2>2. \A f, g \in Handlers \ {h} : f # g /\ turn'[f] > 0 => turn'[f] # turn'[g]
      BY <1>1, <1>4
    <2>3. \A g \in Handlers \ {h} : turn'[g] # turn'[h]
      BY <1>3, <1>4, <1>5
    <2> QED BY <2>1, <2>2, <2>3 DEF Line
  <1> QED
    BY <1>2, <1>3, <1>4, <1>5, <1>6, <1>8, <1>9 DEF OthersStay, CoroutinesTyped

LEMMA FinishLine ==
    ASSUME CoroutinesTyped, Line, NEW h \in Handlers, Finish(h)
    PROVE  CoroutinesTyped' /\ Line' /\ OthersStay(h) /\ at'[h] = "idle"
  <1>1. /\ turn \in [Handlers -> Nat] /\ waiting \in Nat
        /\ \A g \in Handlers : turn[g] \in Nat /\ turn[g] <= waiting
        /\ \A f, g \in Handlers : f # g /\ turn[f] > 0 => turn[f] # turn[g]
    BY DEF CoroutinesTyped, Line
  <1>2. /\ at' = [at EXCEPT ![h] = "idle"] /\ key' = [key EXCEPT ![h] = h]
        /\ outcome' = [outcome EXCEPT ![h] = "ok"]
        /\ waiting' = IF turn[h] > 0 THEN waiting - 1 ELSE waiting
        /\ turn' = [g \in Handlers |->
                      IF g = h THEN 0
                      ELSE IF turn[h] > 0 /\ turn[g] > turn[h] THEN turn[g] - 1
                      ELSE turn[g]]
    BY DEF Finish, WithoutTurn
  <1>3. waiting' \in Nat
    BY <1>1, <1>2
  <1>4. /\ turn'[h] = 0
        /\ \A g \in Handlers \ {h} :
              turn'[g] = IF turn[h] > 0 /\ turn[g] > turn[h] THEN turn[g] - 1 ELSE turn[g]
    BY <1>2
  <1>5. \A g \in Handlers \ {h} :
          /\ turn'[g] \in Nat /\ turn'[g] <= waiting'
          /\ turn[g] > 0 => turn'[g] > 0
          /\ turn'[g] > 0 => turn[g] > 0
    BY <1>1, <1>2, <1>4
  <1>6. \A f, g \in Handlers \ {h} :
          turn[f] < turn[g] /\ turn[f] > 0 => turn'[f] < turn'[g]
    BY <1>1, <1>4
  <1>7. turn' \in [Handlers -> Nat]
    BY <1>2, <1>4, <1>5
  <1>8. CoroutinesTyped'
    BY <1>2, <1>3, <1>7 DEF CoroutinesTyped, Controls, Outcomes
  <1>9. Line'
    <2>1. \A g \in Handlers : turn'[g] <= waiting'
      BY <1>3, <1>4, <1>5
    <2>2. \A f, g \in Handlers \ {h} : f # g /\ turn'[f] > 0 => turn'[f] # turn'[g]
      BY <1>1, <1>4
    <2>3. \A g \in Handlers \ {h} : turn'[g] > 0 => turn'[g] # turn'[h]
      BY <1>4
    <2> QED BY <1>4, <2>1, <2>2, <2>3 DEF Line
  <1> QED
    BY <1>2, <1>5, <1>6, <1>8, <1>9 DEF OthersStay, CoroutinesTyped

-----------------------------------------------------------------------------
(* What a step of one coroutine leaves to the others *)

(* What is safe stays safe and what has a row keeps it, so the others need     *)
(* only that h leaves an insert that succeeded with its row safe.             *)
LEMMA OthersKeep ==
    ASSUME IntakeInv, NEW h \in Handlers, OthersStay(h),
           \A k \in Keys : Safe(k) => Safe(k)',
           \A k \in Keys : Exists(k) \/ k \in excused => Exists(k)' \/ k \in excused',
           \A k \in Keys : Inserting(h) /\ key[h] = k => Safe(k)'
    PROVE  \A g \in Handlers \ {h} : HandlerPart(g)'
  <1> SUFFICES ASSUME NEW g \in Handlers \ {h} PROVE HandlerPart(g)'
    OBVIOUS
  <1>1. /\ at'[g] = at[g] /\ key'[g] = key[g] /\ outcome'[g] = outcome[g]
        /\ turn[g] > 0 => turn'[g] > 0
        /\ HandlerPart(g)
    BY DEF OthersStay, IntakeInv
  <1>2. at[g] # "idle" => key[g] \in Keys
    BY <1>1 DEF HandlerPart
  <1>3. Inserting(g)' => Exists(key[g])' \/ key'[g] \in excused'
    <2> PICK k : k = key[g] OBVIOUS
    <2>1. CASE Inserting(g)
      <3>1. k \in Keys /\ (Exists(k) \/ k \in excused)
        BY <1>1, <2>1 DEF HandlerPart, Inserting
      <3>2. Exists(k)' \/ k \in excused'
        BY <3>1
      <3> QED BY <3>2, <1>1 DEF Exists
    <2>2. CASE ~Inserting(g)
      BY <2>2, <1>1 DEF Inserting
    <2> QED BY <2>1, <2>2
  <1>4. ASSUME at[g] \in {"commit", "rollback"} PROVE Safe(key[g])'
    <2> PICK k : k = key[g] OBVIOUS
    <2>1. k \in Keys /\ Safe(k)
      BY <1>1, <1>2, <1>4 DEF HandlerPart
    <2>2. Safe(k)'
      BY <2>1
    <2> QED BY <2>2, <1>1 DEF Safe
  <1>5. ASSUME Losing(g)
        PROVE  \/ Safe(key[g])'
               \/ \E f \in Handlers : Inserting(f)' /\ key'[f] = key'[g] /\ turn'[f] < turn'[g]
    <2> PICK k : k = key[g] OBVIOUS
    <2>1. k \in Keys
      BY <1>1, <1>5 DEF HandlerPart, Losing
    <2>2. CASE Safe(k)
      <3>1. Safe(k)'
        BY <2>1, <2>2
      <3> QED BY <3>1, <1>1 DEF Safe
    <2>3. CASE ~Safe(k)
      <3>1. PICK f \in Handlers : Inserting(f) /\ key[f] = k /\ turn[f] < turn[g]
        BY <1>1, <1>5, <2>3 DEF HandlerPart
      <3>2. CASE f = h
        <4>1. Safe(k)'
          BY <2>1, <3>1, <3>2
        <4> QED BY <4>1, <1>1 DEF Safe
      <3>3. CASE f # h
        <4>1. turn[f] > 0
          BY <3>1 DEF IntakeInv, HandlerPart, Inserting
        <4>2. /\ at'[f] = at[f] /\ key'[f] = key[f] /\ outcome'[f] = outcome[f]
              /\ turn'[f] < turn'[g]
          BY <3>1, <3>3, <4>1 DEF OthersStay
        <4> QED BY <3>1, <4>2, <1>1 DEF Inserting
      <3> QED BY <3>2, <3>3
    <2> QED BY <2>2, <2>3
  <1> QED
    BY <1>1, <1>2, <1>3, <1>4, <1>5 DEF HandlerPart, Inserting, Losing

LEMMA PendingKept ==
    ASSUME IntakeInv, NEW h \in Handlers, OthersStay(h),
           \A k \in Keys : pending'[k] > 0 =>
               \/ pending[k] > 0 /\ ~(Inserting(h) /\ key[h] = k)
               \/ at'[h] = "insert" /\ outcome'[h] = "ok" /\ key'[h] = k,
           excused \subseteq excused'
    PROVE  PendingIsInserted'
  <1> SUFFICES ASSUME NEW k \in Keys, pending'[k] > 0
               PROVE  k \in excused' \/ \E g \in Handlers : Inserting(g)' /\ key'[g] = k
    BY DEF PendingIsInserted
  <1>1. CASE k \notin excused /\ pending[k] > 0 /\ ~(Inserting(h) /\ key[h] = k)
    <2>1. PICK g \in Handlers : Inserting(g) /\ key[g] = k
      BY <1>1 DEF IntakeInv, PendingIsInserted
    <2>2. at'[g] = at[g] /\ key'[g] = key[g] /\ outcome'[g] = outcome[g]
      BY <1>1, <2>1 DEF OthersStay
    <2> QED BY <2>1, <2>2 DEF Inserting
  <1>2. CASE at'[h] = "insert" /\ outcome'[h] = "ok" /\ key'[h] = k
    BY <1>2 DEF Inserting
  <1>3. CASE k \in excused
    BY <1>3
  <1> QED BY <1>1, <1>2, <1>3

(* A key that h worked on is safe when h leaves it.                           *)
LEMMA DeliveredKept ==
    ASSUME IntakeInv, NEW h \in Handlers, OthersStay(h),
           \A k \in Keys : Safe(k) => Safe(k)',
           UNCHANGED <<tgAcked, tgSeen, slackAcked>>,
           \A k \in Keys : Working(h, k) => Safe(k)' \/ Working(h, k)',
           \A k \in answered' \cup returned' \cup turnedAway' :
               k \in answered \cup returned \cup turnedAway \/ Safe(k)'
    PROVE  Delivered'
  <1>1. /\ answered \cup returned \cup turnedAway \subseteq Keys
        /\ slackAcked \subseteq Keys /\ Updates \subseteq Keys
        /\ Poller \in Handlers /\ SlackHandlers \subseteq Handlers
    BY DEF IntakeInv, IntakeTypeOK, Keys, Handlers
  <1>2. ASSUME NEW g \in Handlers, NEW k \in Keys, Working(g, k)
        PROVE  Safe(k)' \/ Working(g, k)'
    <2>1. CASE g = h
      BY <1>2, <2>1
    <2>2. CASE g # h
      BY <1>2, <2>2 DEF OthersStay, Working
    <2> QED BY <2>1, <2>2
  <1>3. \A k \in Updates : k <= tgAcked' => Safe(k)'
    BY <1>1 DEF IntakeInv, Delivered
  <1>4. \A k \in Updates : k <= tgSeen' => Safe(k)' \/ Working(Poller, k)'
    BY <1>1, <1>2 DEF IntakeInv, Delivered
  <1>5. \A m \in slackAcked' : Safe(m)' \/ \E g \in SlackHandlers : Working(g, m)'
    BY <1>1, <1>2 DEF IntakeInv, Delivered
  <1>6. \A k \in answered' \cup returned' \cup turnedAway' : Safe(k)'
    BY <1>1 DEF IntakeInv, Delivered
  <1> QED BY <1>3, <1>4, <1>5, <1>6 DEF Delivered

-----------------------------------------------------------------------------
(* The statements *)

LEMMA TypedParts ==
    ASSUME IntakeTypeOK
    PROVE  /\ CoroutinesTyped
           /\ \A k \in Keys : durable[k] \in 0..1 /\ pending[k] \in 0..1
           /\ \A h \in Handlers : turn[h] \in Nat
  BY DEF IntakeTypeOK, CoroutinesTyped, Controls, Outcomes

(* Told that the row exists: it is durable, or its creator stands before h.   *)
LEMMA LoserQueues ==
    ASSUME IntakeInv, NEW h \in Handlers, OthersStay(h), ~Inserting(h),
           NEW k \in Keys, Exists(k), UNCHANGED <<table, excused>>,
           \A g \in Handlers \ {h} : turn'[g] < turn'[h]
    PROVE  \/ Safe(k)'
           \/ \E g \in Handlers : Inserting(g)' /\ key'[g] = k /\ turn'[g] < turn'[h]
  <1>1. durable[k] \in 0..1 /\ pending[k] \in 0..1
    BY TypedParts DEF IntakeInv
  <1>2. CASE durable[k] = 1
    BY <1>2 DEF Safe, table
  <1>3. CASE k \in excused
    BY <1>3 DEF Safe
  <1>4. CASE durable[k] # 1 /\ k \notin excused
    <2>1. pending[k] > 0
      BY <1>1, <1>4 DEF Exists
    <2>2. PICK g \in Handlers : Inserting(g) /\ key[g] = k
      BY <2>1, <1>4 DEF IntakeInv, PendingIsInserted
    <2>3. g \in Handlers \ {h}
      BY <2>2
    <2>4. at'[g] = at[g] /\ key'[g] = key[g] /\ outcome'[g] = outcome[g]
      BY <2>3 DEF OthersStay
    <2> QED BY <2>2, <2>3, <2>4 DEF Inserting
  <1> QED BY <1>2, <1>3, <1>4

(* A coroutine that is not at an insert issues the select of key k.           *)
LEMMA SelectKeeps ==
    ASSUME IntakeInv, NEW h \in Handlers, ~Inserting(h), NEW k \in Keys,
           Select(h, k), UNCHANGED <<table, excused>>
    PROVE  /\ CoroutinesTyped' /\ Line' /\ OthersStay(h) /\ Working(h, k)'
           /\ \A g \in Handlers : HandlerPart(g)'
           /\ PendingIsInserted'
  <1> PICK o \in Outcomes : Issue(h, "select", k, o) /\ (o = "found" => Exists(k))
    BY DEF Select, Outcomes
  <1>1. CoroutinesTyped /\ Line
    BY TypedParts DEF IntakeInv
  <1>2. /\ CoroutinesTyped' /\ Line' /\ OthersStay(h)
        /\ at'[h] = "select" /\ key'[h] = k /\ outcome'[h] = o /\ turn'[h] > 0
        /\ \A g \in Handlers \ {h} : turn'[g] < turn'[h]
    BY <1>1, IssueLine DEF Controls
  <1>3. /\ \A j \in Keys : Safe(j) => Safe(j)'
        /\ \A j \in Keys : Exists(j) \/ j \in excused => Exists(j)' \/ j \in excused'
    BY DEF Safe, Exists, table
  <1>4. \A g \in Handlers \ {h} : HandlerPart(g)'
    BY <1>2, <1>3, OthersKeep
  <1>5. HandlerPart(h)'
    <2>1. Losing(h)' => Exists(k)
      BY <1>2 DEF Losing
    <2>2. Losing(h)' =>
            \/ Safe(k)'
            \/ \E g \in Handlers : Inserting(g)' /\ key'[g] = k /\ turn'[g] < turn'[h]
      BY <2>1, <1>2, LoserQueues
    <2>3. Safe(k)' => Safe(key[h])'
      BY <1>2 DEF Safe
    <2> QED BY <1>2, <2>2, <2>3 DEF HandlerPart, Inserting
  <1>6. PendingIsInserted'
    BY <1>2, PendingKept DEF table
  <1> QED BY <1>2, <1>4, <1>5, <1>6 DEF Working

LEMMA InsertInv ==
    ASSUME IntakeInv, NEW h \in Handlers, NEW k \in Keys, ~Inserting(h),
           at[h] = "idle" \/ key[h] = k,
           Insert(h, k), UNCHANGED <<enabled, sources, verdicts>>
    PROVE  IntakeInv'
  <1> USE DEF Conflicts
  <1>1. /\ CoroutinesTyped /\ Line
        /\ \A j \in Keys : durable[j] \in 0..1 /\ pending[j] \in 0..1
    BY TypedParts DEF IntakeInv
  <1> PICK o \in Outcomes :
        /\ Issue(h, "insert", k, o)
        /\ \/ o = "conflict" /\ Exists(k) /\ UNCHANGED <<table, intakeFaults>>
           \/ /\ o = "ok" /\ ~Exists(k) /\ pending' = [pending EXCEPT ![k] = @ + 1]
              /\ UNCHANGED <<durable, intakeFaults>>
           \/ o = "error" /\ IntakeFault /\ UNCHANGED table
    BY DEF Insert, Outcomes
  <1>2. /\ CoroutinesTyped' /\ Line' /\ OthersStay(h)
        /\ at'[h] = "insert" /\ key'[h] = k /\ outcome'[h] = o /\ turn'[h] > 0
        /\ \A g \in Handlers \ {h} : turn'[g] < turn'[h]
    BY <1>1, IssueLine DEF Controls
  <1>3. /\ \A j \in Keys : durable'[j] = durable[j] /\ pending'[j] \in 0..1
        /\ \A j \in Keys : pending'[j] + durable'[j] <= 1
        /\ \A j \in Keys : Exists(j) => Exists(j)'
        /\ \A j \in Keys : pending'[j] > 0 => pending[j] > 0 \/ (j = k /\ o = "ok")
        /\ o = "ok" => Exists(k)'
        /\ pending' \in [Keys -> 0..1] /\ durable' = durable
    <2>1. CASE UNCHANGED table /\ o # "ok"
      BY <2>1, <1>1 DEF table, Exists, IntakeInv, OneTaskPerKey, IntakeTypeOK
    <2>2. CASE o = "ok"
      <3>1. pending[k] = 0 /\ durable[k] = 0
        BY <2>2, <1>1 DEF Exists
      <3>2. /\ pending' = [pending EXCEPT ![k] = 1] /\ durable' = durable
            /\ pending \in [Keys -> 0..1]
        BY <2>2, <3>1 DEF IntakeInv, IntakeTypeOK
      <3>3. \A j \in Keys : pending'[j] = IF j = k THEN 1 ELSE pending[j]
        BY <3>2
      <3> QED BY <2>2, <3>1, <3>2, <3>3, <1>1 DEF Exists, IntakeInv, OneTaskPerKey
    <2> QED BY <2>1, <2>2
  <1>4. /\ excused' = excused
        /\ \A j \in Keys : Safe(j) => Safe(j)'
        /\ \A j \in Keys : Exists(j) \/ j \in excused => Exists(j)' \/ j \in excused'
    BY <1>3 DEF Safe, verdicts
  <1>5. \A g \in Handlers \ {h} : HandlerPart(g)'
    BY <1>2, <1>4, OthersKeep
  <1>6. HandlerPart(h)'
    <2>1. Losing(h)' => Exists(k) /\ UNCHANGED <<table, excused>>
      BY <1>2, <1>4 DEF Losing
    <2>2. Losing(h)' =>
            \/ Safe(k)'
            \/ \E g \in Handlers : Inserting(g)' /\ key'[g] = k /\ turn'[g] < turn'[h]
      BY <2>1, <1>2, LoserQueues
    <2>3. Safe(k)' => Safe(key[h])'
      BY <1>2 DEF Safe
    <2>4. Exists(k)' => Exists(key[h])'
      BY <1>2 DEF Exists
    <2> QED BY <1>2, <1>3, <2>2, <2>3, <2>4 DEF HandlerPart, Inserting
  <1>7. PendingIsInserted'
    BY <1>2, <1>3, <1>4, PendingKept
  <1>8. Delivered'
    <2>1. \A j \in Keys : Working(h, j) => Working(h, j)'
      BY <1>2 DEF Working
    <2> QED
      BY <1>2, <1>4, <2>1, DeliveredKept DEF sources, telegram, linear, verdicts
  <1>9. IntakeTypeOK'
    <2>1. intakeFaults' \in 0..MaxIntakeFaults
      BY IntakeAssumption DEF IntakeFault, IntakeInv, IntakeTypeOK
    <2> QED
      BY <1>2, <1>3, <2>1 DEF IntakeInv, IntakeTypeOK, CoroutinesTyped, Controls, Outcomes,
                              sources, telegram, linear, verdicts
  <1>10. OneTaskPerKey'
    BY <1>3 DEF OneTaskPerKey
  <1> QED BY <1>2, <1>5, <1>6, <1>7, <1>8, <1>9, <1>10 DEF IntakeInv

LEMMA FinishKeeps ==
    ASSUME IntakeInv, NEW h \in Handlers, ~Inserting(h), Finish(h),
           UNCHANGED table, excused \subseteq excused'
    PROVE  /\ CoroutinesTyped' /\ Line' /\ OthersStay(h) /\ at'[h] = "idle"
           /\ \A g \in Handlers : HandlerPart(g)'
           /\ PendingIsInserted'
           /\ \A k \in Keys : Safe(k) => Safe(k)'
  <1>1. CoroutinesTyped' /\ Line' /\ OthersStay(h) /\ at'[h] = "idle"
    BY TypedParts, FinishLine DEF IntakeInv
  <1>2. /\ \A j \in Keys : Safe(j) => Safe(j)'
        /\ \A j \in Keys : Exists(j) \/ j \in excused => Exists(j)' \/ j \in excused'
    BY DEF Safe, Exists, table
  <1>3. \A g \in Handlers \ {h} : HandlerPart(g)'
    BY <1>1, <1>2, OthersKeep
  <1>4. HandlerPart(h)'
    BY <1>1 DEF HandlerPart, Inserting, Losing
  <1>5. PendingIsInserted'
    BY <1>1, PendingKept DEF table
  <1> QED BY <1>1, <1>2, <1>3, <1>4, <1>5

(* A finished coroutine whose key is safe: it may be told to the creator, the  *)
(* source or the webhook.                                                    *)
LEMMA FinishInv ==
    ASSUME IntakeInv, NEW h \in Handlers, ~Inserting(h), at[h] \notin {"idle", "ack"},
           Finish(h), UNCHANGED <<table, enabled, sent, tgAcked, tgSeen, slackAcked,
                                  labelled, delegated, intakeFaults>>,
           tgTo' \in 0..MaxUpdates, batch' \subseteq Issues,
           excused \subseteq excused', excused' \subseteq Keys,
           \A k \in Keys : k = key[h] => Safe(k)',
           returned' \subseteq returned \cup {key[h]},
           turnedAway' \subseteq turnedAway \cup {key[h]},
           answered' \subseteq answered \cup {key[h]}, answered' \subseteq Sessions
    PROVE  IntakeInv'
  <1>1. key[h] \in Keys
    BY DEF IntakeInv, HandlerPart
  <1>2. /\ CoroutinesTyped' /\ Line' /\ OthersStay(h) /\ at'[h] = "idle"
        /\ \A g \in Handlers : HandlerPart(g)'
        /\ PendingIsInserted'
        /\ \A k \in Keys : Safe(k) => Safe(k)'
    BY FinishKeeps
  <1>3. Delivered'
    <2>1. \A k \in Keys : Working(h, k) => Safe(k)'
      BY DEF Working
    <2>2. \A k \in answered' \cup returned' \cup turnedAway' :
             k \in answered \cup returned \cup turnedAway \/ Safe(k)'
      BY <1>1
    <2> QED BY <1>2, <2>1, <2>2, DeliveredKept
  <1>4. IntakeTypeOK'
    BY <1>1, <1>2 DEF IntakeInv, IntakeTypeOK, CoroutinesTyped, Controls, Outcomes, table
  <1>5. OneTaskPerKey'
    BY DEF IntakeInv, OneTaskPerKey, table
  <1> QED BY <1>2, <1>3, <1>4, <1>5 DEF IntakeInv

LEMMA FirstInLine ==
    ASSUME IntakeInv, NEW h \in Handlers, turn[h] = 1, Losing(h)
    PROVE  Safe(key[h])
  <1>1. HandlerPart(h) /\ \A g \in Handlers : HandlerPart(g) /\ turn[g] \in Nat
    BY TypedParts DEF IntakeInv
  <1>2. ASSUME NEW g \in Handlers, Inserting(g), turn[g] < turn[h] PROVE FALSE
    <2>1. turn[g] > 0
      BY <1>1, <1>2 DEF HandlerPart, Inserting
    <2> QED BY <2>1, <1>1, <1>2
  <1> QED BY <1>1, <1>2 DEF HandlerPart

LEMMA SelectedInv ==
    ASSUME IntakeInv, UNCHANGED enabled, NEW h \in Handlers, Selected(h)
    PROVE  IntakeInv'
  <1>1. /\ at[h] = "select" /\ turn[h] = 1 /\ ~Inserting(h)
        /\ key[h] \in Keys
    BY DEF Selected, MayResume, Inserting, IntakeInv, HandlerPart
  <1> PICK k \in Keys : k = key[h]
    BY <1>1
  <1>2. CASE outcome[h] = "found"
    <2>1. /\ Finish(h) /\ UNCHANGED <<table, intakeFaults, returned, excused, sent,
                                      tgAcked, tgSeen, tgTo, slackAcked, labelled,
                                      batch, delegated>>
          /\ turnedAway' = turnedAway \cup {k}
          /\ answered' = answered \cup ({k} \cap Sessions)
      BY <1>2 DEF Selected, TurnAway, AnswerSession, telegram
    <2>2. Safe(k)
      BY <1>1, <1>2, FirstInLine DEF Losing
    <2>3. Safe(k)'
      BY <2>1, <2>2 DEF Safe, table
    <2>4. /\ tgTo' \in 0..MaxUpdates /\ batch' \subseteq Issues
          /\ excused' \subseteq Keys /\ answered \subseteq Sessions
      BY <2>1 DEF IntakeInv, IntakeTypeOK
    <2> QED BY <1>1, <2>1, <2>3, <2>4, FinishInv
  <1>3. CASE outcome[h] # "found"
    <2>1. Insert(h, k) /\ UNCHANGED <<enabled, sources, verdicts>>
      BY <1>3 DEF Selected, sources, linear
    <2> QED BY <1>1, <2>1, InsertInv
  <1> QED BY <1>2, <1>3

(* Whatever was pending is gone and excused; the loser's own key was safe.    *)
LEMMA RollbackInv ==
    ASSUME IntakeInv, UNCHANGED enabled, NEW h \in Handlers, Rollback(h)
    PROVE  IntakeInv'
  <1>1. /\ at[h] = "insert" /\ turn[h] = 1 /\ Losing(h) /\ ~Inserting(h)
        /\ key[h] \in Keys
    BY DEF Rollback, MayResume, Duplicate, Losing, Inserting, IntakeInv, HandlerPart
  <1> PICK k \in Keys : k = key[h]
    BY <1>1
  <1>2. /\ Issue(h, "rollback", k, "ok")
        /\ pending' = [j \in Keys |-> 0]
        /\ excused' = excused \cup {j \in Keys : pending[j] > 0}
        /\ UNCHANGED <<durable, returned, turnedAway, sources, intakeFaults>>
    BY DEF Rollback
  <1>3. /\ CoroutinesTyped' /\ Line' /\ OthersStay(h)
        /\ at'[h] = "rollback" /\ key'[h] = k
    <2>1. CoroutinesTyped /\ Line
      BY TypedParts DEF IntakeInv
    <2> QED BY <1>2, <2>1, IssueLine DEF Controls, Outcomes
  <1>4. \A j \in Keys : durable[j] \in 0..1 /\ pending[j] \in 0..1
    BY TypedParts DEF IntakeInv
  <1>5. /\ \A j \in Keys : Safe(j) => Safe(j)'
        /\ \A j \in Keys : Exists(j) \/ j \in excused => Exists(j)' \/ j \in excused'
    BY <1>2, <1>4 DEF Safe, Exists
  <1>6. \A g \in Handlers \ {h} : HandlerPart(g)'
    BY <1>1, <1>3, <1>5, OthersKeep
  <1>7. HandlerPart(h)'
    <2>1. Safe(k)
      BY <1>1, FirstInLine
    <2>2. Safe(key[h])'
      BY <1>3, <1>2, <2>1 DEF Safe
    <2> QED BY <1>3, <2>2 DEF HandlerPart, Inserting, Losing
  <1>8. PendingIsInserted'
    BY <1>2 DEF PendingIsInserted
  <1>9. Delivered'
    <2>1. \A j \in Keys : Working(h, j) => Working(h, j)'
      BY <1>3 DEF Working
    <2> QED BY <1>2, <1>3, <1>5, <2>1, DeliveredKept DEF sources, telegram, linear
  <1>10. IntakeTypeOK'
    BY <1>2, <1>3 DEF IntakeInv, IntakeTypeOK, CoroutinesTyped, Controls, Outcomes,
                      sources, telegram, linear
  <1>11. OneTaskPerKey'
    BY <1>2, <1>4 DEF OneTaskPerKey
  <1> QED BY <1>3, <1>6, <1>7, <1>8, <1>9, <1>10, <1>11 DEF IntakeInv

(* A commit makes every pending row durable, its own among them.              *)
LEMMA CommitInv ==
    ASSUME IntakeInv, UNCHANGED enabled, NEW h \in Handlers, Commit(h)
    PROVE  IntakeInv'
  <1>1. /\ at[h] = "insert" /\ Inserting(h) /\ key[h] \in Keys
        /\ Exists(key[h]) \/ key[h] \in excused
    BY DEF Commit, Inserting, IntakeInv, HandlerPart
  <1> PICK k \in Keys : k = key[h]
    BY <1>1
  <1>2. /\ Issue(h, "commit", k, "ok")
        /\ durable' = [j \in Keys |-> durable[j] + pending[j]]
        /\ pending' = [j \in Keys |-> 0]
        /\ UNCHANGED <<sources, verdicts, intakeFaults>>
    BY DEF Commit
  <1>3. /\ CoroutinesTyped' /\ Line' /\ OthersStay(h)
        /\ at'[h] = "commit" /\ key'[h] = k
    <2>1. CoroutinesTyped /\ Line
      BY TypedParts DEF IntakeInv
    <2> QED BY <1>2, <2>1, IssueLine DEF Controls, Outcomes
  <1>4. \A j \in Keys : /\ durable[j] \in 0..1 /\ pending[j] \in 0..1
                        /\ pending[j] + durable[j] <= 1
    BY TypedParts DEF IntakeInv, OneTaskPerKey
  <1>5. \A j \in Keys : /\ durable'[j] \in 0..1 /\ pending'[j] = 0
                        /\ durable[j] = 1 => durable'[j] = 1
                        /\ Exists(j) => durable'[j] = 1
    BY <1>2, <1>4 DEF Exists
  <1>6. /\ \A j \in Keys : Safe(j) => Safe(j)'
        /\ \A j \in Keys : Exists(j) \/ j \in excused => Exists(j)' \/ j \in excused'
        /\ Safe(k)'
    BY <1>1, <1>2, <1>5 DEF Safe, Exists, verdicts
  <1>7. \A g \in Handlers \ {h} : HandlerPart(g)'
    BY <1>3, <1>6, OthersKeep
  <1>8. HandlerPart(h)'
    <2>1. Safe(key[h])'
      BY <1>3, <1>6 DEF Safe
    <2> QED BY <1>3, <2>1 DEF HandlerPart, Inserting, Losing
  <1>9. PendingIsInserted'
    BY <1>5 DEF PendingIsInserted
  <1>10. Delivered'
    <2>1. \A j \in Keys : Working(h, j) => Working(h, j)'
      BY <1>3 DEF Working
    <2> QED BY <1>2, <1>3, <1>6, <2>1, DeliveredKept DEF sources, telegram, linear, verdicts
  <1>11. IntakeTypeOK'
    <2>1. pending' \in [Keys -> 0..1] /\ durable' \in [Keys -> 0..1]
      BY <1>2, <1>5
    <2> QED
      BY <1>2, <1>3, <2>1 DEF IntakeInv, IntakeTypeOK, CoroutinesTyped, Controls, Outcomes,
                              sources, telegram, linear, verdicts
  <1>12. OneTaskPerKey'
    BY <1>5 DEF OneTaskPerKey
  <1> QED BY <1>3, <1>7, <1>8, <1>9, <1>10, <1>11, <1>12 DEF IntakeInv

(* A commit that fails: its row waits for another's commit, or SQLite has     *)
(* rolled the transaction back.                                              *)
LEMMA CommitFailsInv ==
    ASSUME IntakeInv, UNCHANGED enabled, NEW h \in Handlers, CommitFails(h)
    PROVE  IntakeInv'
  <1>1. at[h] = "insert" /\ Inserting(h) /\ key[h] \in Keys
    BY DEF CommitFails, Inserting, IntakeInv, HandlerPart
  <1> PICK k \in Keys : k = key[h]
    BY <1>1
  <1>2. /\ Issue(h, "commit", k, "error") /\ IntakeFault
        /\ UNCHANGED <<sources, returned, turnedAway>>
        /\ \/ UNCHANGED table /\ excused' = excused \cup {k}
           \/ /\ pending' = [j \in Keys |-> 0] /\ durable' = durable
              /\ excused' = excused \cup {k} \cup {j \in Keys : pending[j] > 0}
    BY DEF CommitFails
  <1>3. /\ CoroutinesTyped' /\ Line' /\ OthersStay(h)
        /\ at'[h] = "commit" /\ key'[h] = k
    <2>1. CoroutinesTyped /\ Line
      BY TypedParts DEF IntakeInv
    <2> QED BY <1>2, <2>1, IssueLine DEF Controls, Outcomes
  <1>4. \A j \in Keys : /\ durable[j] \in 0..1 /\ pending[j] \in 0..1
                        /\ pending[j] + durable[j] <= 1
    BY TypedParts DEF IntakeInv, OneTaskPerKey
  <1>5. /\ pending' \in [Keys -> 0..1] /\ durable' = durable
        /\ \A j \in Keys : pending'[j] > 0 => pending[j] > 0
        /\ \A j \in Keys : pending'[j] + durable'[j] <= 1
        /\ excused \subseteq excused' /\ k \in excused' /\ excused' \subseteq Keys
    BY <1>2, <1>4 DEF table, IntakeInv, IntakeTypeOK
  <1>6. /\ \A j \in Keys : Safe(j) => Safe(j)'
        /\ \A j \in Keys : Exists(j) \/ j \in excused => Exists(j)' \/ j \in excused'
        /\ Safe(k)'
    BY <1>2, <1>4, <1>5 DEF Safe, Exists, table
  <1>7. \A g \in Handlers \ {h} : HandlerPart(g)'
    BY <1>3, <1>6, OthersKeep
  <1>8. HandlerPart(h)'
    <2>1. Safe(key[h])'
      BY <1>3, <1>6 DEF Safe
    <2> QED BY <1>3, <2>1 DEF HandlerPart, Inserting, Losing
  <1>9. PendingIsInserted'
    <2> SUFFICES ASSUME NEW j \in Keys, pending'[j] > 0, j \notin excused'
                 PROVE  \E g \in Handlers : Inserting(g)' /\ key'[g] = j
      BY DEF PendingIsInserted
    <2>1. PICK g \in Handlers : Inserting(g) /\ key[g] = j
      BY <1>5 DEF IntakeInv, PendingIsInserted
    <2>2. g # h
      BY <2>1, <1>5
    <2> QED BY <2>1, <2>2, <1>3 DEF OthersStay, Inserting
  <1>10. Delivered'
    <2>1. \A j \in Keys : Working(h, j) => Working(h, j)'
      BY <1>3 DEF Working
    <2> QED BY <1>2, <1>3, <1>6, <2>1, DeliveredKept DEF sources, telegram, linear
  <1>11. IntakeTypeOK'
    <2>1. intakeFaults' \in 0..MaxIntakeFaults
      BY <1>2, IntakeAssumption DEF IntakeFault, IntakeInv, IntakeTypeOK
    <2> QED
      BY <1>2, <1>3, <1>5, <2>1 DEF IntakeInv, IntakeTypeOK, CoroutinesTyped, Controls,
                                    Outcomes, sources, telegram, linear
  <1>12. OneTaskPerKey'
    BY <1>5 DEF OneTaskPerKey
  <1> QED BY <1>3, <1>7, <1>8, <1>9, <1>10, <1>11, <1>12 DEF IntakeInv

LEMMA ReturnsInv ==
    ASSUME IntakeInv, UNCHANGED enabled, NEW h \in Handlers,
           Raise(h) \/ Created(h) \/ TurnedAway(h)
    PROVE  IntakeInv'
  <1>1. at[h] \notin {"idle", "ack"} /\ ~Inserting(h) /\ key[h] \in Keys
    BY DEF Raise, Created, TurnedAway, Inserting, IntakeInv, HandlerPart
  <1> PICK k \in Keys : k = key[h]
    BY <1>1
  <1>2. /\ tgTo \in 0..MaxUpdates /\ tgSeen \in 0..MaxUpdates
        /\ excused \subseteq Keys /\ answered \subseteq Sessions /\ batch \subseteq Issues
    BY DEF IntakeInv, IntakeTypeOK
  <1>3. CASE Raise(h)
    <2>1. /\ Finish(h) /\ excused' = excused \cup {k}
          /\ tgTo' \in 0..MaxUpdates /\ batch' \subseteq Issues
          /\ UNCHANGED <<table, sent, tgAcked, tgSeen, slackAcked, labelled, delegated,
                         answered, returned, turnedAway, intakeFaults>>
      BY <1>2, <1>3 DEF Raise, AfterError, linear
    <2>2. Safe(k)'
      BY <2>1 DEF Safe
    <2> QED BY <1>1, <1>2, <2>1, <2>2, FinishInv
  <1>4. CASE Created(h)
    <2>1. /\ Finish(h) /\ returned' = returned \cup {k}
          /\ tgTo' \in 0..MaxUpdates /\ batch' \subseteq Issues
          /\ answered' = answered \cup ({k} \cap Sessions)
          /\ UNCHANGED <<table, sent, tgAcked, tgSeen, slackAcked, labelled, delegated,
                         turnedAway, excused, intakeFaults>>
      BY <1>2, <1>4 DEF Created, AnswerSession
    <2>2. Safe(k)
      BY <1>4 DEF Created, IntakeInv, HandlerPart
    <2>3. Safe(k)'
      BY <2>1, <2>2 DEF Safe, table
    <2> QED BY <1>1, <1>2, <2>1, <2>3, FinishInv
  <1>5. CASE TurnedAway(h)
    <2>1. /\ Finish(h) /\ turnedAway' = turnedAway \cup {k}
          /\ tgTo' \in 0..MaxUpdates /\ batch' \subseteq Issues
          /\ answered' = answered \cup ({k} \cap Sessions)
          /\ UNCHANGED <<table, sent, tgAcked, tgSeen, slackAcked, labelled, delegated,
                         returned, excused, intakeFaults>>
      BY <1>2, <1>5 DEF TurnedAway, TurnAway, AnswerSession, telegram
    <2>2. Safe(k)
      BY <1>5 DEF TurnedAway, IntakeInv, HandlerPart
    <2>3. Safe(k)'
      BY <2>1, <2>2 DEF Safe, table
    <2> QED BY <1>1, <1>2, <2>1, <2>3, FinishInv
  <1> QED BY <1>3, <1>4, <1>5

-----------------------------------------------------------------------------
(* The sources *)

\* What h records of its source as it selects key k: nothing, or that Telegram's
\* offset passes it after all before it, or that Slack's event is acknowledged.
Records(h, k) ==
    /\ UNCHANGED <<enabled, table, verdicts, sent, tgAcked, tgTo, labelled, delegated,
                   answered>>
    /\ batch' \subseteq Issues
    /\ \/ tgSeen' = tgSeen
       \/ /\ tgSeen' \in 0..MaxUpdates /\ h = Poller /\ at[h] = "idle"
          /\ tgSeen' = k /\ \A j \in Updates : j < k => j <= tgSeen \/ j <= tgAcked
    /\ \/ slackAcked' = slackAcked
       \/ slackAcked' = slackAcked \cup {k} /\ k \in SlackMsgs /\ h \in SlackHandlers

(* A handler that was idle or acknowledging selects: only the sources' own     *)
(* records remain to be looked at.                                           *)
LEMMA SelectInv ==
    ASSUME IntakeInv, NEW h \in Handlers, at[h] \in {"idle", "ack"}, NEW k \in Keys,
           Select(h, k), Records(h, k)
    PROVE  IntakeInv'
  <1> USE DEF Records
  <1>1. ~Inserting(h) /\ excused' = excused
    BY DEF Inserting, verdicts
  <1>2. /\ CoroutinesTyped' /\ Line' /\ OthersStay(h) /\ Working(h, k)'
        /\ \A g \in Handlers : HandlerPart(g)'
        /\ PendingIsInserted'
    BY <1>1, SelectKeeps
  <1>3. \A j \in Keys : Safe(j)' <=> Safe(j)
    BY <1>1 DEF Safe, table
  <1>4. /\ answered \cup returned \cup turnedAway \subseteq Keys
        /\ slackAcked \subseteq Keys /\ Updates \subseteq Keys
        /\ Poller \in Handlers /\ SlackHandlers \subseteq Handlers
    BY DEF IntakeInv, IntakeTypeOK, Keys, Handlers
  <1>5. \A g \in Handlers, j \in Keys : Working(g, j) => Working(g, j)'
    <2> SUFFICES ASSUME NEW g \in Handlers, NEW j \in Keys, Working(g, j)
                 PROVE  Working(g, j)'
      OBVIOUS
    <2>1. g # h
      BY DEF Working
    <2> QED BY <2>1, <1>2 DEF OthersStay, Working
  <1>6. Delivered'
    <2>1. \A j \in Updates : j <= tgAcked' => Safe(j)'
      BY <1>3, <1>4 DEF IntakeInv, Delivered
    <2>2. \A j \in Updates : j <= tgSeen' => Safe(j)' \/ Working(Poller, j)'
      <3> SUFFICES ASSUME NEW j \in Updates, j <= tgSeen'
                   PROVE  Safe(j)' \/ Working(Poller, j)'
        OBVIOUS
      <3>1. CASE tgSeen' = tgSeen
        BY <3>1, <1>3, <1>4, <1>5 DEF IntakeInv, Delivered
      <3>2. CASE /\ h = Poller /\ at[h] = "idle" /\ tgSeen' = k
                 /\ tgSeen' \in 0..MaxUpdates
                 /\ \A i \in Updates : i < k => i <= tgSeen \/ i <= tgAcked
        <4>1. CASE j = k
          BY <4>1, <3>2, <1>2
        <4>2. CASE j # k
          <5>1. j < k
            BY <4>2, <3>2, IntakeAssumption DEF Updates
          <5>2. Safe(j) \/ Working(Poller, j)
            BY <5>1, <3>2 DEF IntakeInv, Delivered
          <5> QED BY <5>2, <3>2, <1>3, <1>4 DEF Working
        <4> QED BY <4>1, <4>2
      <3> QED BY <3>1, <3>2
    <2>3. \A m \in slackAcked' : Safe(m)' \/ \E g \in SlackHandlers : Working(g, m)'
      BY <1>2, <1>3, <1>4, <1>5 DEF IntakeInv, Delivered
    <2>4. \A j \in answered' \cup returned' \cup turnedAway' : Safe(j)'
      BY <1>3, <1>4 DEF IntakeInv, Delivered, verdicts
    <2> QED BY <2>1, <2>2, <2>3, <2>4 DEF Delivered
  <1>7. IntakeTypeOK'
    <2>1. intakeFaults' \in 0..MaxIntakeFaults
      BY IntakeAssumption DEF Select, IntakeFault, IntakeInv, IntakeTypeOK
    <2> QED
      BY <1>2, <2>1
      DEF IntakeInv, IntakeTypeOK, CoroutinesTyped, Controls, Outcomes, table, verdicts
  <1>8. OneTaskPerKey'
    BY DEF IntakeInv, OneTaskPerKey, table
  <1> QED BY <1>2, <1>6, <1>7, <1>8 DEF IntakeInv

(* A step that moves a coroutine between idle and acknowledging, or none.     *)
LEMMA AsideInv ==
    ASSUME IntakeInv, NEW h \in Handlers, at[h] \in {"idle", "ack"},
           CoroutinesTyped', Line', OthersStay(h),
           at'[h] \in {"idle", "ack"},
           at'[h] = "ack" => key'[h] \in SlackMsgs /\ key'[h] \in Keys,
           UNCHANGED <<enabled, table, verdicts, slackAcked, tgSeen, answered>>,
           \/ tgAcked' = tgAcked
           \/ /\ at[Poller] = "idle"
              /\ \A k \in Updates : k <= tgAcked' => k <= tgSeen \/ k <= tgAcked,
           IntakeTypeOK'
    PROVE  IntakeInv'
  <1>1. ~Inserting(h) /\ \A k \in Keys : ~Working(h, k)
    BY DEF Inserting, Working
  <1>2. /\ \A k \in Keys : Safe(k) <=> Safe(k)'
        /\ \A k \in Keys : Exists(k) \/ k \in excused => Exists(k)' \/ k \in excused'
    BY DEF Safe, Exists, table, verdicts
  <1>3. \A g \in Handlers \ {h} : HandlerPart(g)'
    BY <1>1, <1>2, OthersKeep
  <1>4. HandlerPart(h)'
    BY DEF HandlerPart, Inserting, Losing
  <1>5. PendingIsInserted'
    BY <1>1, PendingKept DEF table, verdicts
  <1>6. Delivered'
    <2>1. /\ answered \cup returned \cup turnedAway \subseteq Keys
          /\ slackAcked \subseteq Keys /\ Updates \subseteq Keys
          /\ Poller \in Handlers /\ SlackHandlers \subseteq Handlers
      BY DEF IntakeInv, IntakeTypeOK, Keys, Handlers
    <2>2. \A g \in Handlers, j \in Keys : Working(g, j) => Working(g, j)'
      BY <1>1 DEF OthersStay, Working
    <2>3. \A k \in Updates : k <= tgAcked' => Safe(k)'
      BY <1>2, <2>1 DEF IntakeInv, Delivered, Working
    <2>4. \A k \in Updates : k <= tgSeen' => Safe(k)' \/ Working(Poller, k)'
      BY <1>2, <2>1, <2>2 DEF IntakeInv, Delivered
    <2>5. \A m \in slackAcked' : Safe(m)' \/ \E g \in SlackHandlers : Working(g, m)'
      BY <1>2, <2>1, <2>2 DEF IntakeInv, Delivered
    <2>6. \A k \in answered' \cup returned' \cup turnedAway' : Safe(k)'
      BY <1>2, <2>1 DEF IntakeInv, Delivered, verdicts
    <2> QED BY <2>3, <2>4, <2>5, <2>6 DEF Delivered
  <1>7. OneTaskPerKey'
    BY DEF IntakeInv, OneTaskPerKey, table
  <1> QED BY <1>3, <1>4, <1>5, <1>6, <1>7 DEF IntakeInv

(* Nothing but the sources' own records changes.                              *)
LEMMA SourceOnlyInv ==
    ASSUME IntakeInv, UNCHANGED <<enabled, table, coroutines, verdicts, slackAcked, tgSeen,
                                  answered>>,
           \/ tgAcked' = tgAcked
           \/ /\ at[Poller] = "idle"
              /\ \A k \in Updates : k <= tgAcked' => k <= tgSeen \/ k <= tgAcked,
           IntakeTypeOK'
    PROVE  IntakeInv'
  <1>1. /\ UNCHANGED <<pending, durable, at, key, outcome, turn, waiting, returned,
                       turnedAway, excused>>
    BY DEF table, coroutines, verdicts
  <1>2. /\ \A k : Safe(k) <=> Safe(k)'
        /\ \A h, k : Working(h, k) <=> Working(h, k)'
        /\ \A h : Inserting(h) <=> Inserting(h)'
        /\ \A h : Losing(h) <=> Losing(h)'
    BY <1>1 DEF Safe, Working, Inserting, Losing
  <1>3. Line' /\ PendingIsInserted' /\ OneTaskPerKey'
    BY <1>1, <1>2 DEF IntakeInv, Line, PendingIsInserted, OneTaskPerKey
  <1>4. ASSUME NEW h \in Handlers PROVE HandlerPart(h)'
    <2>1. HandlerPart(h)
      BY DEF IntakeInv
    <2> QED BY <2>1, <1>1, <1>2 DEF HandlerPart, Exists, Safe
  <1>5. Delivered'
    <2>1. Poller \in Handlers
      BY DEF Handlers
    <2>2. \A k \in Updates : k <= tgAcked' => Safe(k)'
      BY <1>2 DEF IntakeInv, Delivered, Working
    <2> QED BY <1>1, <1>2, <2>2 DEF IntakeInv, Delivered
  <1> QED BY <1>3, <1>4, <1>5 DEF IntakeInv

LEMMA TelegramInv ==
    ASSUME IntakeInv, UNCHANGED enabled, TelegramStep
    PROVE  IntakeInv'
  <1>1. /\ sent \in 0..MaxUpdates /\ tgAcked \in 0..MaxUpdates /\ tgSeen \in 0..MaxUpdates
        /\ tgTo \in 0..MaxUpdates /\ MaxUpdates \in Nat
    BY IntakeAssumption DEF IntakeInv, IntakeTypeOK
  <1>2. CASE SendUpdate
    <2>1. IntakeTypeOK'
      BY <1>1, <1>2 DEF SendUpdate, IntakeInv, IntakeTypeOK, table, coroutines, linear, verdicts
    <2> QED BY <1>2, <2>1, SourceOnlyInv DEF SendUpdate, linear
  <1>3. CASE GetUpdates
    <2>1. /\ tgAcked' \in 0..MaxUpdates
          /\ \A k \in Updates : k <= tgAcked' => k <= tgSeen \/ k <= tgAcked
      BY <1>1, <1>3 DEF GetUpdates, Greater
    <2>2. IntakeTypeOK'
      BY <1>1, <1>3, <2>1
      DEF GetUpdates, IntakeInv, IntakeTypeOK, table, coroutines, linear, verdicts
    <2> QED BY <1>3, <2>1, <2>2, SourceOnlyInv DEF GetUpdates, BatchDone, linear
  <1>4. CASE HandleUpdate
    <2>1. NextUpdate \in 1..MaxUpdates
          /\ \A j \in Updates : j < NextUpdate => j <= tgSeen \/ j <= tgAcked
      BY <1>1, <1>4 DEF HandleUpdate, NextUpdate, Greater, Updates
    <2> PICK k \in 1..MaxUpdates : k = NextUpdate
      BY <2>1
    <2>2. k \in Keys /\ k \in 0..MaxUpdates /\ Poller \in Handlers
      BY <1>1 DEF Keys, Updates, Handlers
    <2>3. /\ at[Poller] = "idle" /\ Select(Poller, k) /\ tgSeen' = k
          /\ UNCHANGED <<table, verdicts, sent, tgAcked, tgTo, labelled, batch,
                         delegated, answered, slackAcked>>
          /\ batch \subseteq Issues
      BY <1>4 DEF HandleUpdate, linear, IntakeInv, IntakeTypeOK
    <2>4. Records(Poller, k)
      BY <2>1, <2>2, <2>3 DEF Records
    <2> QED BY <2>2, <2>3, <2>4, SelectInv
  <1> QED BY <1>2, <1>3, <1>4 DEF TelegramStep

LEMMA SlackInv ==
    ASSUME IntakeInv, UNCHANGED enabled, SlackStep
    PROVE  IntakeInv'
  <1>1. CoroutinesTyped /\ Line
    BY TypedParts DEF IntakeInv
  <1>2. PICK h \in SlackHandlers : \/ AckSlack(h) \/ AckFails(h)
                                  \/ \E m \in SlackMsgs : DeliverSlack(h, m)
    BY DEF SlackStep
  <1>3. h \in Handlers
    BY DEF Handlers
  <1>4. CASE AckSlack(h)
    <2>1. at[h] = "ack" /\ key[h] \in SlackMsgs /\ key[h] \in Keys
      BY <1>3, <1>4 DEF AckSlack, IntakeInv, HandlerPart
    <2> PICK k \in Keys : k = key[h]
      BY <2>1
    <2>2. Select(h, k) /\ Records(h, k)
      BY <1>2, <1>4, <2>1 DEF AckSlack, telegram, linear, Records, IntakeInv, IntakeTypeOK
    <2> QED BY <1>3, <2>1, <2>2, SelectInv
  <1>5. CASE AckFails(h)
    <2>1. /\ at[h] = "ack" /\ Finish(h)
          /\ UNCHANGED <<table, sources, verdicts, intakeFaults>>
      BY <1>5 DEF AckFails
    <2>2. CoroutinesTyped' /\ Line' /\ OthersStay(h) /\ at'[h] = "idle"
      BY <1>1, <1>3, <2>1, FinishLine
    <2>3. IntakeTypeOK'
      BY <2>1, <2>2 DEF IntakeInv, IntakeTypeOK, CoroutinesTyped, Controls, Outcomes,
                        table, sources, telegram, linear, verdicts
    <2> QED
      BY <1>3, <2>1, <2>2, <2>3, AsideInv DEF sources, telegram, linear
  <1>6. ASSUME NEW m \in SlackMsgs, DeliverSlack(h, m) PROVE IntakeInv'
    <2>1. /\ at[h] = "idle" /\ m \in Keys
          /\ at' = [at EXCEPT ![h] = "ack"] /\ key' = [key EXCEPT ![h] = m]
          /\ UNCHANGED <<table, outcome, turn, waiting, sources, verdicts, intakeFaults>>
      BY <1>6 DEF DeliverSlack, Keys
    <2>2. /\ at'[h] = "ack" /\ key'[h] = m
          /\ \A g \in Handlers \ {h} : at'[g] = at[g] /\ key'[g] = key[g]
      BY <1>1, <1>3, <2>1 DEF CoroutinesTyped
    <2>3. CoroutinesTyped'
      BY <1>1, <2>1 DEF CoroutinesTyped, Controls
    <2>4. Line' /\ OthersStay(h)
      BY <1>1, <2>1, <2>2 DEF Line, OthersStay
    <2>5. IntakeTypeOK'
      BY <2>1, <2>3 DEF IntakeInv, IntakeTypeOK, CoroutinesTyped, Controls, Outcomes,
                        table, sources, telegram, linear, verdicts
    <2> QED
      BY <1>3, <2>1, <2>2, <2>3, <2>4, <2>5, AsideInv DEF sources, telegram, linear
  <1> QED BY <1>2, <1>4, <1>5, <1>6

LEMMA LinearInv ==
    ASSUME IntakeInv, UNCHANGED enabled, LinearStep \/ LinearHookStep \/ SessionStep
    PROVE  IntakeInv'
  <1> USE DEF IntakeInv, IntakeTypeOK
  <1>6. ASSUME NEW i \in Issues, IngestNext(i) PROVE IntakeInv'
    <2>1. /\ at[LinearPoll] = "idle" /\ Select(LinearPoll, i) /\ i \in Keys
          /\ Records(LinearPoll, i) /\ LinearPoll \in Handlers
      BY <1>6 DEF IngestNext, telegram, Keys, Handlers, Records
    <2> HIDE DEF IntakeInv, IntakeTypeOK
    <2> QED BY <2>1, SelectInv
  <1>1. ASSUME NEW h \in Handlers, NEW i \in Issues, HookIssue(h, i) PROVE IntakeInv'
    <2>1. /\ at[h] = "idle" /\ Select(h, i) /\ i \in Keys
          /\ Records(h, i)
      BY <1>1 DEF HookIssue, sources, telegram, linear, Keys, Records
    <2> HIDE DEF IntakeInv, IntakeTypeOK
    <2> QED BY <2>1, SelectInv
  <1>2. ASSUME NEW h \in Handlers, NEW s \in Sessions, HandleSession(h, s) PROVE IntakeInv'
    <2>1. /\ at[h] = "idle" /\ Select(h, s) /\ s \in Keys
          /\ Records(h, s)
      BY <1>2 DEF HandleSession, sources, telegram, linear, Keys, Records
    <2> HIDE DEF IntakeInv, IntakeTypeOK
    <2> QED BY <2>1, SelectInv
  <1> HIDE DEF IntakeInv, IntakeTypeOK
  <1>7. CASE PollLinear
    <2>1. batch' \subseteq Issues
      BY <1>7 DEF PollLinear, Pages, IntakeInv, IntakeTypeOK
    <2>2. IntakeTypeOK'
      BY <1>7, <2>1
      DEF PollLinear, IntakeInv, IntakeTypeOK, table, coroutines, telegram, verdicts
    <2>3. /\ UNCHANGED <<enabled, table, coroutines, verdicts, slackAcked, tgSeen, answered>>
          /\ tgAcked' = tgAcked
      BY <1>7 DEF PollLinear, telegram
    <2> QED BY <2>2, <2>3, SourceOnlyInv
  <1>3. ASSUME NEW i \in Issues, LabelIssue(i) PROVE IntakeInv'
    <2>1. IntakeTypeOK'
      BY <1>3 DEF LabelIssue, IntakeInv, IntakeTypeOK, table, coroutines, telegram, verdicts
    <2>2. /\ UNCHANGED <<enabled, table, coroutines, verdicts, slackAcked, tgSeen, answered>>
          /\ tgAcked' = tgAcked
      BY <1>3 DEF LabelIssue, telegram
    <2> QED BY <2>1, <2>2, SourceOnlyInv
  <1>4. ASSUME NEW s \in Sessions, DelegateIssue(s) PROVE IntakeInv'
    <2>1. IntakeTypeOK'
      BY <1>4 DEF DelegateIssue, IntakeInv, IntakeTypeOK, table, coroutines, telegram, verdicts
    <2>2. /\ UNCHANGED <<enabled, table, coroutines, verdicts, slackAcked, tgSeen, answered>>
          /\ tgAcked' = tgAcked
      BY <1>4 DEF DelegateIssue, telegram
    <2> QED BY <2>1, <2>2, SourceOnlyInv
  <1>5. IssueHooks \subseteq Handlers /\ SessionHooks \subseteq Handlers
    BY DEF Handlers, LinearHooks
  <1> QED
    BY <1>1, <1>2, <1>3, <1>4, <1>5, <1>6, <1>7
    DEF LinearStep, LinearHookStep, SessionStep

LEMMA WriteInv ==
    ASSUME IntakeInv, UNCHANGED enabled, NEW w \in Writers, Write(w)
    PROVE  IntakeInv'
  <1>1. /\ at[w] = "idle" /\ ~Inserting(w) /\ Insert(w, w)
        /\ UNCHANGED <<enabled, sources, verdicts>>
        /\ w \in Handlers /\ w \in Keys
    BY DEF Write, Inserting, Handlers, Keys
  <1> QED BY <1>1, InsertInv

LEMMA CrashInv ==
    ASSUME IntakeInv, UNCHANGED enabled, CrashIntake
    PROVE  IntakeInv'
  <1>1. /\ pending' = [k \in Keys |-> 0] /\ durable' = durable
        /\ at' = [h \in Handlers |-> "idle"] /\ key' = [h \in Handlers |-> h]
        /\ outcome' = [h \in Handlers |-> "ok"]
        /\ turn' = [h \in Handlers |-> 0] /\ waiting' = 0
        /\ tgSeen' = 0 /\ tgTo' = 0
        /\ excused' = excused \cup {m \in slackAcked : durable[m] = 0}
        /\ turnedAway' = {k \in turnedAway : durable[k] > 0}
        /\ batch' = {}
        /\ UNCHANGED <<sent, tgAcked, slackAcked, labelled, delegated, answered, returned>>
    BY DEF CrashIntake
  <1>2. /\ \A k \in Keys : durable[k] \in 0..1
        /\ slackAcked \subseteq Keys /\ turnedAway \subseteq Keys
        /\ answered \cup returned \cup turnedAway \subseteq Keys /\ Updates \subseteq Keys
    BY DEF IntakeInv, IntakeTypeOK, Keys
  <1>3. \A k \in Keys : Safe(k) => Safe(k)'
    BY <1>1 DEF Safe
  <1>4. IntakeTypeOK'
    <2>1. intakeFaults' \in 0..MaxIntakeFaults
      BY IntakeAssumption DEF CrashIntake, IntakeFault, IntakeInv, IntakeTypeOK
    <2>2. 0 \in 0..MaxUpdates /\ 0 \in 0..1 /\ 0 \in Nat
      BY IntakeAssumption
    <2> QED BY <1>1, <1>2, <2>1, <2>2 DEF IntakeInv, IntakeTypeOK
  <1>5. Line' /\ PendingIsInserted'
    BY <1>1 DEF Line, PendingIsInserted
  <1>6. \A h \in Handlers : HandlerPart(h)'
    BY <1>1 DEF HandlerPart, Inserting, Losing
  <1>7. OneTaskPerKey'
    BY <1>1, <1>2 DEF OneTaskPerKey
  <1>8. Delivered'
    <2>1. \A k \in Updates : k <= tgAcked' => Safe(k)'
      BY <1>1, <1>2, <1>3 DEF IntakeInv, Delivered
    <2>2. \A k \in Updates : ~(k <= tgSeen')
      BY <1>1, IntakeAssumption DEF Updates
    <2>3. \A m \in slackAcked' : Safe(m)'
      BY <1>1, <1>2 DEF Safe
    <2>4. \A k \in answered' \cup returned' \cup turnedAway' : Safe(k)'
      BY <1>1, <1>2, <1>3 DEF IntakeInv, Delivered
    <2> QED BY <2>1, <2>2, <2>3, <2>4 DEF Delivered
  <1> QED BY <1>4, <1>5, <1>6, <1>7, <1>8 DEF IntakeInv

-----------------------------------------------------------------------------
(* The invariant *)

LEMMA IntakeInitInv == IntakeInit => IntakeInv
  <1> SUFFICES ASSUME IntakeInit PROVE IntakeInv
    OBVIOUS
  <1>1. 0 \in 0..MaxUpdates /\ 0 \in 0..1 /\ 0 \in Nat /\ 0 \in 0..MaxIntakeFaults
    BY IntakeAssumption
  <1>2. IntakeTypeOK
    BY <1>1 DEF IntakeInit, IntakeTypeOK
  <1>3. OneTaskPerKey /\ Line /\ PendingIsInserted
    BY DEF IntakeInit, OneTaskPerKey, Line, PendingIsInserted
  <1>4. \A h \in Handlers : HandlerPart(h)
    BY DEF IntakeInit, HandlerPart, Inserting, Losing
  <1>5. Delivered
    <2>1. \A k \in Updates : ~(k <= 0)
      BY IntakeAssumption DEF Updates
    <2> QED BY <2>1 DEF IntakeInit, Delivered
  <1> QED BY <1>2, <1>3, <1>4, <1>5 DEF IntakeInv

LEMMA IntakeStep == IntakeInv /\ [IntakeNext]_intakeVars => IntakeInv'
  <1> SUFFICES ASSUME IntakeInv, [IntakeNext]_intakeVars
               PROVE  IntakeInv'
    OBVIOUS
  <1>1. CASE IntakeNext
    <2>1. UNCHANGED enabled
      BY <1>1 DEF IntakeNext
    <2>2. ASSUME NEW h \in Handlers, Resume(h) PROVE IntakeInv'
      BY <2>1, <2>2, SelectedInv, RollbackInv, CommitInv, CommitFailsInv,
         ReturnsInv DEF Resume
    <2>3. ASSUME NEW w \in Writers, Write(w) PROVE IntakeInv'
      BY <2>1, <2>3, WriteInv
    <2> QED
      BY <1>1, <2>1, <2>2, <2>3, TelegramInv, SlackInv, LinearInv, CrashInv DEF IntakeNext
  <1>2. CASE UNCHANGED intakeVars
    <2>1. UNCHANGED <<enabled, table, coroutines, verdicts, slackAcked, tgSeen, answered,
                      sent, tgAcked, tgTo, labelled, batch, delegated,
                      intakeFaults>>
      BY <1>2 DEF intakeVars, sources, telegram, linear
    <2>2. IntakeTypeOK'
      BY <2>1 DEF IntakeInv, IntakeTypeOK, table, coroutines, verdicts
    <2> QED BY <2>1, <2>2, SourceOnlyInv
  <1> QED BY <1>1, <1>2

THEOREM IntakeInvariant == IntakeSpec => []IntakeInv
  <1> QED BY IntakeInitInv, IntakeStep, PTL DEF IntakeSpec

-----------------------------------------------------------------------------

(* Every coroutine stands at a statement of its handler, with a place in the  *)
(* line of its own, and what is promised to a source is a key it sent.       *)
THEOREM IntakeTypeCorrect == IntakeSpec => []IntakeTypeOK
  <1>1. IntakeInv => IntakeTypeOK
    BY DEF IntakeInv
  <1> QED BY <1>1, IntakeInvariant, PTL

(* Whatever is redelivered, retried or raced: at most one row of a key.       *)
THEOREM OneTask == IntakeSpec => []OneTaskPerKey
  <1>1. IntakeInv => OneTaskPerKey
    BY DEF IntakeInv
  <1> QED BY <1>1, IntakeInvariant, PTL

(* A source that will not repeat a message has its task or a handler on it,    *)
(* and nobody is told of a row that is not durable or excused.               *)
THEOREM NothingIsForgotten == IntakeSpec => []NothingForgotten
  <1>1. IntakeInv => NothingForgotten
    BY DEF IntakeInv, Delivered, NothingForgotten, Working
  <1> QED BY <1>1, IntakeInvariant, PTL

-----------------------------------------------------------------------------
(* Messages, reviews and chat side by side *)

LEMMA EachPartHasItsSteps == Spec => IntakeSpec /\ ReviewSpec /\ ChatSpec
  <1>1. Init => IntakeInit /\ ReviewInit /\ ChatInit
    BY DEF Init
  <1>2. [Next]_vars => [IntakeNext]_intakeVars /\ [ReviewNext]_reviewVars /\ [ChatNext]_chatVars
    BY DEF Next, Messages, Reviews, Chat, vars
  <1> QED
    BY <1>1, <1>2, PTL DEF Spec, IntakeSpec, ReviewSpec, ChatSpec

(* Every state of the intakes, of the poll and of a chat session is one the  *)
(* code's locals, rows and lists can be in.                                  *)
THEOREM IntakesTypeCorrect == Spec => []TypeOK
  <1>1. IntakeTypeOK /\ ReviewTypeOK /\ ChatTypeOK => TypeOK
    BY DEF TypeOK
  <1> QED
    BY <1>1, EachPartHasItsSteps, IntakeTypeCorrect, ReviewTypeCorrect, ChatTypesHold, PTL
=============================================================================
