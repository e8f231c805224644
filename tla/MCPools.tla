------------------------------- MODULE MCPools -------------------------------
(* SandboxPool and RefClones, which share no state: a behaviour runs one of  *)
(* the two, and the other keeps its initial state.                           *)
EXTENDS SandboxPool, RefClones

CONSTANTS j1, j2, r1, r2

MCJobs == {j1, j2}
MCReads == {r1, r2}

VARIABLE part

vars == <<part, poolVars, cloneVars>>

Init == part \in {"sandbox", "clones"} /\ PoolInit /\ CloneInit

Next == \/ part = "sandbox" /\ PoolNext /\ UNCHANGED <<part, cloneVars>>
        \/ part = "clones" /\ CloneNext /\ UNCHANGED <<part, poolVars>>

\* The reaper's loop goes on and time passes; git commands end, at the latest
\* by their timeout, and an asyncio.Lock wakes its waiters in turn.
Fairness ==
    /\ WF_vars(part = "sandbox" /\ ReaperStep /\ UNCHANGED <<part, cloneVars>>)
    /\ WF_vars(part = "sandbox" /\ Tick /\ UNCHANGED <<part, cloneVars>>)
    /\ \A r \in Reads :
          /\ WF_vars(part = "clones" /\ GitStep(r) /\ UNCHANGED <<part, poolVars>>)
          /\ SF_vars(part = "clones" /\ EnterClone(r) /\ UNCHANGED <<part, poolVars>>)

Spec == Init /\ [][Next]_vars /\ Fairness

TypeOK == PoolTypeOK /\ CloneTypeOK
=============================================================================
