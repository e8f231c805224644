----------------------------- MODULE SandboxPool -----------------------------
(***************************************************************************)
(* The sandbox container of one repository: tasks reuse, start or recreate *)
(* it from worker threads, one docker command after the other with no lock  *)
(* between them; the reaper removes it when its last-use stamp is older     *)
(* than the TTL.  The stamp lives in a file that mark_used and the reaper   *)
(* rewrite under _STATE_LOCK.                                               *)
(***************************************************************************)
EXTENDS Naturals

CONSTANTS Jobs,        \* tasks of the repository that run sandboxed
          MaxPolicy,   \* bound: settings of image, network and limits, numbered
          IdleTTL,     \* ticks a container may stay idle
          TaskTicks,   \* ticks a task meets while it uses the container
          MaxBoxFaults \* bound: crashes, failed docker commands, losses

\* SANDBOX_IDLE_HOURS must be no less than the longest task, which the code
\* does not enforce: its defaults are 168 hours and one hour of agent time.
ASSUME PoolAssumption ==
    /\ IdleTTL \in Nat \ {0} /\ MaxPolicy \in Nat \ {0} /\ MaxBoxFaults \in Nat
    /\ TaskTicks \in Nat /\ TaskTicks <= IdleTTL

VARIABLES
    box,       \* the container docker holds under the name
    step,      \* where each task's ensure_container stands
    want,      \* the policy each task read when it began
    current,   \* ghost: what the task saw of the container still holds
    gone,      \* the task was cancelled while its thread runs on
    crossed,   \* ticks since the task stamped the container it uses
    policy,    \* the repository's policy
    mixed,     \* ghost: a task of another policy ran beside this one
    stamp,     \* ticks since the recorded last use, or Unstamped
    touched,   \* ghost: ticks since a task last marked the container
    sweep,     \* where the reaper's pass stands
    listed,    \* docker ps showed the container
    loaded,    \* the stamp the pass read from the file
    boxFaults

poolVars == <<box, step, want, current, gone, crossed, policy, mixed, stamp,
              touched, sweep, listed, loaded, boxFaults>>

NoBox == [cfg |-> 0, running |-> FALSE, mount |-> FALSE]

\* Mutant: the container is created without its configuration label.
BoxUnlabelled(p) == [cfg |-> MaxPolicy + 1, running |-> TRUE, mount |-> TRUE]

Box(p) == [cfg |-> p, running |-> TRUE, mount |-> TRUE]

\* A container the state file does not name.
Unstamped == IdleTTL + 2
Threaded == {"inspect", "start", "probe", "remove", "create", "recheck"}

PoolTypeOK ==
    /\ box \in [cfg : 0..MaxPolicy, running : BOOLEAN, mount : BOOLEAN]
    /\ step \in [Jobs -> {"out", "mark", "use"} \cup Threaded]
    /\ want \in [Jobs -> 0..MaxPolicy] /\ policy \in 1..MaxPolicy
    /\ current \in [Jobs -> BOOLEAN] /\ gone \in [Jobs -> BOOLEAN]
    /\ crossed \in [Jobs -> 0..TaskTicks] /\ mixed \in [Jobs -> BOOLEAN]
    /\ stamp \in 0..Unstamped /\ touched \in 0..(IdleTTL + 1)
    /\ loaded \in 0..Unstamped /\ listed \in BOOLEAN
    /\ sweep \in {"idle", "listed", "loaded", "doomed"}
    /\ boxFaults \in 0..MaxBoxFaults

PoolInit ==
    /\ box = NoBox /\ stamp = Unstamped /\ touched = 0
    /\ policy = 1 /\ want = [t \in Jobs |-> 0]
    /\ step = [t \in Jobs |-> "out"]
    /\ current = [t \in Jobs |-> FALSE] /\ gone = [t \in Jobs |-> FALSE]
    /\ crossed = [t \in Jobs |-> 0] /\ mixed = [t \in Jobs |-> FALSE]
    /\ sweep = "idle" /\ listed = FALSE /\ loaded = Unstamped
    /\ boxFaults = 0

Active(t) == step[t] # "out"
Using(t) == step[t] = "use"
GoOn(t, s) == step' = [step EXCEPT ![t] = s]
BoxFault == boxFaults < MaxBoxFaults /\ boxFaults' = boxFaults + 1

\* What the threads know of the container stops being true.
Outdate == current' = [t \in Jobs |-> FALSE]
Forget(t) == current' = [current EXCEPT ![t] = FALSE]

Leave(t) == /\ GoOn(t, "out")
            /\ want' = [want EXCEPT ![t] = 0]
            /\ gone' = [gone EXCEPT ![t] = FALSE]
            /\ mixed' = [mixed EXCEPT ![t] = FALSE]

marks == <<stamp, touched, crossed>>
reaping == <<sweep, listed, loaded>>
requests == <<want, gone, policy, mixed>>

-----------------------------------------------------------------------------
(* ensure_container, in a worker thread of the task *)

BeginJob(t) ==
    /\ step[t] = "out"
    /\ GoOn(t, "inspect")
    /\ want' = [want EXCEPT ![t] = policy]
    /\ mixed' = [u \in Jobs |->
                    IF u = t THEN \E v \in Jobs : Active(v) /\ want[v] # policy
                    ELSE mixed[u] \/ (Active(u) /\ want[u] # policy)]
    /\ UNCHANGED <<box, current, gone, policy, marks, reaping, boxFaults>>

\* Mutants: any container under the name will do, or none does.
MatchesAny(t) == box # NoBox
MatchesNone(t) == FALSE

Matches(t) == box # NoBox /\ box.cfg = want[t]

Inspect(t) ==
    /\ step[t] = "inspect"
    /\ GoOn(t, IF ~Matches(t) THEN "remove"
               ELSE IF box.running THEN "probe" ELSE "start")
    /\ current' = [current EXCEPT ![t] = TRUE]
    /\ UNCHANGED <<box, requests, marks, reaping, boxFaults>>

\* A docker command exceeds its timeout: subprocess raises TimeoutExpired out of
\* ensure_container, and the task fails before it marked anything.
Raise(t) == BoxFault /\ Leave(t)

\* docker start: it fails when the container is gone, may fail anyway, and one
\* that exceeds its timeout may have started the container.
StartBox(t) ==
    /\ step[t] = "start"
    /\ \/ /\ box # NoBox
          /\ box' = [box EXCEPT !.running = TRUE] /\ GoOn(t, "probe")
          /\ IF box.running THEN UNCHANGED current ELSE Outdate
          /\ UNCHANGED boxFaults
       \/ /\ IF box = NoBox THEN UNCHANGED boxFaults ELSE BoxFault
          /\ GoOn(t, "remove") /\ UNCHANGED <<box, current>>
    /\ UNCHANGED <<requests, marks, reaping>>

StartHangs(t) ==
    /\ step[t] = "start" /\ box # NoBox /\ Raise(t) /\ Outdate
    /\ box' \in {box, [box EXCEPT !.running = TRUE]}
    /\ UNCHANGED <<policy, marks, reaping>>

\* The thread of a cancelled task returns to nobody.
Return(t) == IF gone[t] THEN Leave(t)
             ELSE GoOn(t, "mark") /\ UNCHANGED <<want, gone, mixed>>

Probe(t) ==
    /\ step[t] = "probe"
    /\ IF box.running /\ box.mount
       THEN Return(t) /\ Forget(t)
       ELSE GoOn(t, "remove") /\ UNCHANGED <<want, gone, mixed, current>>
    /\ UNCHANGED <<box, policy, marks, reaping, boxFaults>>

ProbeHangs(t) ==
    /\ step[t] = "probe" /\ box # NoBox /\ Raise(t) /\ Forget(t)
    /\ UNCHANGED <<box, policy, marks, reaping>>

\* docker rm -f, whose exit code nobody reads.
RemoveBox(t) ==
    /\ step[t] = "remove" /\ GoOn(t, "create")
    /\ \/ /\ box' = NoBox /\ UNCHANGED boxFaults
          /\ IF box = NoBox THEN Forget(t) ELSE Outdate
       \/ box # NoBox /\ BoxFault /\ Forget(t) /\ UNCHANGED box
    /\ UNCHANGED <<requests, marks, reaping>>

\* docker run: it fails when the name is taken, and may fail anyway.
CreateBox(t) ==
    /\ step[t] = "create"
    /\ \/ /\ box = NoBox
          /\ box' = Box(want[t]) /\ Outdate /\ Return(t)
          /\ UNCHANGED boxFaults
       \/ /\ IF box # NoBox THEN UNCHANGED boxFaults ELSE BoxFault
          /\ GoOn(t, "recheck") /\ UNCHANGED <<box, current, want, gone, mixed>>
    /\ UNCHANGED <<policy, marks, reaping>>

\* The container of a docker run that exceeds its timeout may be up.
CreateHangs(t) ==
    /\ step[t] = "create" /\ box = NoBox /\ Raise(t) /\ Outdate
    /\ box' \in {NoBox, Box(want[t])}
    /\ UNCHANGED <<policy, marks, reaping>>

\* A concurrent task may have won the create race; otherwise the task fails.
Recheck(t) ==
    /\ step[t] = "recheck"
    /\ IF Matches(t) /\ box.running
       THEN Return(t) ELSE Leave(t)
    /\ UNCHANGED <<box, current, policy, marks, reaping, boxFaults>>

-----------------------------------------------------------------------------
(* The task: mark_used at both ends, commands by name in between *)

\* Mutant: mark_used does not take the lock.
MayTouchUnlocked == TRUE

\* mark_used waits for _STATE_LOCK, which a pass holds over its rewrite.
MayTouch == sweep # "loaded"

Touch == MayTouch /\ stamp' = 0 /\ touched' = 0

StartUse(t) ==
    /\ step[t] = "mark" /\ GoOn(t, "use")
    /\ Touch /\ crossed' = [crossed EXCEPT ![t] = 0]
    /\ UNCHANGED <<box, current, requests, reaping, boxFaults>>

\* The finally block marks the container however the run ends.
EndUse(t) ==
    /\ Using(t) /\ Leave(t)
    /\ Touch /\ crossed' = [crossed EXCEPT ![t] = 0]
    /\ UNCHANGED <<box, current, policy, reaping, boxFaults>>

\* Cancelling a coroutine does not stop its thread; one whose thread returned
\* ends before it marks the container.
CancelJob(t) ==
    /\ \/ /\ step[t] \in Threaded /\ ~gone[t]
          /\ gone' = [gone EXCEPT ![t] = TRUE] /\ UNCHANGED <<step, want, mixed>>
       \/ step[t] = "mark" /\ Leave(t)
    /\ UNCHANGED <<box, current, policy, marks, reaping, boxFaults>>

-----------------------------------------------------------------------------
(* reap_idle *)

ListBoxes ==
    /\ sweep = "idle" /\ sweep' = "listed"
    /\ listed' = (box # NoBox)
    /\ UNCHANGED <<box, step, current, requests, marks, loaded, boxFaults>>

LoadStamps ==
    /\ sweep = "listed" /\ sweep' = "loaded"
    /\ loaded' = stamp
    /\ UNCHANGED <<box, step, current, requests, marks, listed, boxFaults>>

Expired == listed /\ loaded # Unstamped /\ loaded > IdleTTL

\* Mutant: every pass restarts the clock of a container it keeps.
RestampedAlways == IF Expired THEN Unstamped ELSE 0

\* A container without a stamp gets a fresh clock; the stamp of one that is
\* reaped, or that was not listed, is dropped.
Restamped == IF ~listed \/ Expired THEN Unstamped
             ELSE IF loaded = Unstamped THEN 0 ELSE loaded

SaveStamps ==
    /\ sweep = "loaded" /\ sweep' = IF Expired THEN "doomed" ELSE "idle"
    /\ stamp' = Restamped
    /\ listed' = FALSE /\ loaded' = Unstamped
    /\ UNCHANGED <<box, step, current, requests, touched, crossed, boxFaults>>

\* docker rm -f, outside the lock and without a second look at the stamp; one
\* that fails leaves a container the next pass finds without a stamp.
Reap ==
    /\ sweep = "doomed" /\ sweep' = "idle"
    /\ \/ /\ box' = NoBox /\ UNCHANGED boxFaults
          /\ IF box = NoBox THEN UNCHANGED current ELSE Outdate
       \/ box # NoBox /\ BoxFault /\ UNCHANGED <<box, current>>
    /\ UNCHANGED <<step, requests, marks, listed, loaded>>

-----------------------------------------------------------------------------
(* Time, operators and faults *)

\* An age one tick later; past the TTL one more makes no difference.
Older(age) == IF age <= IdleTTL THEN age + 1 ELSE age

\* A task ends before it meets more than TaskTicks.
Tick ==
    /\ \A t \in Jobs : Using(t) => crossed[t] < TaskTicks
    /\ crossed' = [t \in Jobs |-> IF Using(t) THEN crossed[t] + 1 ELSE 0]
    /\ stamp' = Older(stamp) /\ loaded' = Older(loaded)
    /\ touched' = Older(touched)
    /\ UNCHANGED <<box, step, current, requests, sweep, listed, boxFaults>>

EditPolicy ==
    /\ policy < MaxPolicy /\ policy' = policy + 1
    /\ UNCHANGED <<box, step, current, want, gone, mixed, marks, reaping,
                   boxFaults>>

\* The daemon stops the container, its mounted directory is replaced, or an
\* operator removes it.
Disturb ==
    /\ BoxFault /\ box # NoBox
    /\ box' \in {[box EXCEPT !.running = FALSE], [box EXCEPT !.mount = FALSE],
                 NoBox}
    /\ Outdate
    /\ UNCHANGED <<step, requests, marks, reaping>>

LoseState ==
    /\ BoxFault /\ stamp' = Unstamped
    /\ UNCHANGED <<box, step, current, requests, touched, crossed, reaping>>

\* The server dies with its tasks, its threads and the reaper's pass.
CrashServer ==
    /\ BoxFault
    /\ step' = [t \in Jobs |-> "out"] /\ want' = [t \in Jobs |-> 0]
    /\ gone' = [t \in Jobs |-> FALSE] /\ mixed' = [t \in Jobs |-> FALSE]
    /\ crossed' = [t \in Jobs |-> 0] /\ Outdate
    /\ sweep' = "idle" /\ listed' = FALSE /\ loaded' = Unstamped
    /\ UNCHANGED <<box, policy, stamp, touched>>

JobStep(t) == \/ Inspect(t) \/ StartBox(t) \/ StartHangs(t) \/ Probe(t)
              \/ ProbeHangs(t) \/ RemoveBox(t) \/ CreateBox(t) \/ CreateHangs(t)
              \/ Recheck(t) \/ StartUse(t)

ReaperStep == ListBoxes \/ LoadStamps \/ SaveStamps \/ Reap

PoolNext ==
    \/ \E t \in Jobs : BeginJob(t) \/ JobStep(t) \/ EndUse(t) \/ CancelJob(t)
    \/ ReaperStep
    \/ Tick \/ EditPolicy \/ Disturb \/ LoseState \/ CrashServer

PoolSpec == PoolInit /\ [][PoolNext]_poolVars

-----------------------------------------------------------------------------
(* Properties *)

(* The reaper condemns the container only when no task marked it for longer *)
(* than the TTL and none is using it: no rewrite of the state file loses a   *)
(* stamp, whatever is lost or recreated in between.  The removal comes later  *)
(* and looks at nothing again.                                              *)
ReapsOnlyIdle ==
    [][sweep' = "doomed" /\ sweep # "doomed" =>
          touched > IdleTTL /\ \A t \in Jobs : ~Using(t)]_poolVars

(* The commands of a task run under the image, network and limits it asked   *)
(* for, through every reuse, recreation and lost create race, unless a task  *)
(* of another policy ran beside it.                                         *)
UsesOwnPolicy ==
    \A t \in Jobs : Using(t) /\ box # NoBox => box.cfg = want[t] \/ mixed[t]

(* A task removes the container another one is using only when it is of      *)
(* another policy, stopped or behind a dead mount, or when it was created    *)
(* or started after the remover looked: the race ensure_container admits.    *)
RemovesWithReason ==
    [][\A t \in Jobs :
          step[t] = "remove" /\ step'[t] = "create" /\ box # NoBox
              /\ box' = NoBox /\ (\E u \in Jobs \ {t} : Using(u))
          => \/ box.cfg # want[t] \/ ~box.running \/ ~box.mount
             \/ ~current[t]]_poolVars

(* A container nobody uses does not stay: the reaper removes it unless a     *)
(* task of the repository comes back to it.                                 *)
IdleIsReaped ==
    (box # NoBox /\ \A t \in Jobs : ~Active(t))
        ~> (box = NoBox \/ \E t \in Jobs : Active(t))
=============================================================================
