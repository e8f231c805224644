---------------------------- MODULE TaskContract ----------------------------
(***************************************************************************)
(* What the orchestrator promises about task rows, with no dispatcher,     *)
(* coroutine, checkpoint or disk: a row is submitted once, at most         *)
(* MaxConcurrent rows run, a running row ends, parks back into the queue   *)
(* or is held for an operator, a held row is decided once, a restart takes *)
(* every running row back to the queue (or fails it), and a row that has   *)
(* ended never changes again.                                              *)
(***************************************************************************)
EXTENDS Naturals, FiniteSets

CONSTANTS Task, MaxConcurrent

VARIABLE status

Rows(s) == {t \in Task : status[t] = s}
Becomes(t, s) == status' = [status EXCEPT ![t] = s]

Init == status = [t \in Task |-> "absent"]

Submit(t) == status[t] = "absent" /\ Becomes(t, "queued")

Start(t) ==
    /\ status[t] = "queued"
    /\ Cardinality(Rows("running")) < MaxConcurrent
    /\ Becomes(t, "running")

Finish(t) ==
    /\ status[t] = "running"
    /\ \E s \in {"completed", "failed", "queued", "awaiting_approval"} :
           Becomes(t, s)

Decide(t) ==
    /\ status[t] = "awaiting_approval"
    /\ \E s \in {"completed", "cancelled"} : Becomes(t, s)

Restart ==
    \E s \in {"queued", "failed"} :
        status' = [t \in Task |-> IF status[t] = "running" THEN s
                                                           ELSE status[t]]

Next ==
    \/ \E t \in Task : Submit(t) \/ Start(t) \/ Finish(t) \/ Decide(t)
    \/ Restart

Spec == Init /\ [][Next]_status
=============================================================================
