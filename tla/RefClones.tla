------------------------------ MODULE RefClones ------------------------------
(***************************************************************************)
(* The reference clone of one repository: chat reads clone it on first use, *)
(* refresh it when its last fetch is old, and read it after they released    *)
(* its lock, so that a reset another call starts rewrites files under the     *)
(* reader; the retention sweep deletes it, without the lock, when it was not  *)
(* read for long.  Git commands may fail half-way, time out or die with the   *)
(* server.                                                                  *)
(***************************************************************************)
EXTENDS Naturals

CONSTANTS Reads,        \* list, read and grep calls on the clone
          FetchTTL,     \* ticks after which a read refreshes
          Retention,    \* ticks without a read after which the sweep deletes
          MaxGitFaults  \* bound: timeouts and crashes

ASSUME CloneAssumption ==
    FetchTTL \in Nat \ {0} /\ Retention \in Nat /\ FetchTTL <= Retention
        /\ MaxGitFaults \in Nat

VARIABLES
    dir,       \* the clone's directory on disk
    lock,      \* the call that holds the clone's asyncio.Lock, in a set
    call,      \* where each call stands
    fetched,   \* ticks since the fetch stamp was touched; Never without one
    used,      \* ticks since the use stamp was touched; Never without one
    behind,    \* ticks since the files were those of the remote
    tried,     \* ghost: ticks since a refresh failed
    spoiled,   \* ghost: on disk are the remains of a reset that failed, of a
               \* command that was killed or of a deletion
    pruned,    \* ghost: the sweep took the clone since the call found it
    prune,     \* where the sweep stands
    gitFaults

cloneVars == <<dir, lock, call, fetched, used, behind, tried, spoiled,
               pruned, prune, gitFaults>>

Never == Retention + 2

\* What stands on disk: the work tree of one commit, a .git whose work tree is
\* missing or half rewritten, or files whose .git is gone.
Dirs == {"absent", "whole", "half", "debris"}

CloneTypeOK ==
    /\ dir \in Dirs /\ lock \subseteq Reads
    /\ call \in [Reads -> {"out", "waiting", "refreshing", "resetting", "cloning",
                       "reading"}]
    /\ fetched \in 0..Never /\ used \in 0..Never
    /\ behind \in 0..Never /\ tried \in 0..Never
    /\ spoiled \in BOOLEAN /\ pruned \in [Reads -> BOOLEAN]
    /\ prune \in {"idle", "chosen", "deleting"} /\ gitFaults \in 0..MaxGitFaults

CloneInit ==
    /\ dir = "absent" /\ lock = {}
    /\ call = [r \in Reads |-> "out"]
    /\ fetched = Never /\ used = Never /\ behind = 0 /\ tried = Never
    /\ spoiled = FALSE /\ pruned = [r \in Reads |-> FALSE]
    /\ prune = "idle" /\ gitFaults = 0

\* Mutant: every call makes a lock of its own.
AnyLock == TRUE

\* One lock for each clone directory, made once.
LockFree == lock = {}

\* (clone_dir / ".git").is_dir()
HasGit == dir \in {"whole", "half"}
CallGoes(r, c) == call' = [call EXCEPT ![r] = c]
GitFault == gitFaults < MaxGitFaults /\ gitFaults' = gitFaults + 1
stamps == <<fetched, used, behind, tried>>
ghosts == <<spoiled, pruned>>

-----------------------------------------------------------------------------
(* ensure_clone *)

AskClone(r) ==
    /\ call[r] = "out" /\ CallGoes(r, "waiting")
    /\ UNCHANGED <<dir, lock, stamps, ghosts, prune, gitFaults>>

\* Mutant: a clone that has a fetch stamp is never refreshed.
StaleUnstamped == fetched = Never

\* A clone whose fetch stamp is missing is as stale as an old one.
Stale == fetched >= FetchTTL

\* The call releases the lock and will read the directory it returns; the use
\* stamp can be touched only where .git still is.
Serve(r) ==
    /\ lock' = {} /\ CallGoes(r, "reading")
    /\ used' = IF HasGit THEN 0 ELSE used

Found(r) == pruned' = [pruned EXCEPT ![r] = (prune = "deleting")]

ServeFresh(r) ==
    /\ call[r] = "waiting" /\ LockFree /\ HasGit /\ ~Stale
    /\ Serve(r) /\ Found(r)
    /\ UNCHANGED <<dir, fetched, behind, tried, spoiled, prune, gitFaults>>

BeginRefresh(r) ==
    /\ call[r] = "waiting" /\ LockFree /\ HasGit /\ Stale
    /\ lock' = {r} /\ CallGoes(r, "refreshing") /\ Found(r)
    /\ UNCHANGED <<dir, stamps, spoiled, prune, gitFaults>>

\* git clone makes .git first and the work tree last.
BeginCloning(r) ==
    /\ call[r] = "waiting" /\ LockFree /\ ~HasGit
    /\ lock' = {r} /\ CallGoes(r, "cloning") /\ Found(r)
    /\ dir' = IF dir = "absent" THEN "half" ELSE dir
    /\ UNCHANGED <<stamps, spoiled, prune, gitFaults>>

\* A clone whose directory was deleted under it may still exit with success.
Cloned(r) ==
    /\ call[r] = "cloning" /\ dir # "debris"
    /\ dir' \in IF pruned[r] THEN {dir, "half"} ELSE {"whole"}
    /\ fetched' = IF HasGit THEN 0 ELSE Never
    /\ behind' = 0 /\ spoiled' = (dir' # "whole") /\ Serve(r)
    /\ UNCHANGED <<tried, pruned, prune, gitFaults>>

\* A failed clone is removed before its error is raised.
Remains == "absent"

CloneFails(r) ==
    /\ call[r] = "cloning"
    /\ dir' = Remains /\ fetched' = Never /\ used' = Never
    /\ spoiled' = FALSE
    /\ lock' = {} /\ CallGoes(r, "out")
    /\ UNCHANGED <<behind, tried, pruned, prune, gitFaults>>

\* git fetch succeeded, and git reset --hard fails at once or begins to rewrite
\* the work tree file by file.
BeginReset(r) ==
    /\ call[r] = "refreshing" /\ HasGit /\ CallGoes(r, "resetting")
    /\ dir' \in {dir, "half"}
    /\ UNCHANGED <<lock, stamps, ghosts, prune, gitFaults>>

Refreshed(r) ==
    /\ call[r] = "resetting" /\ HasGit
    /\ dir' = "whole" /\ fetched' = 0 /\ behind' = 0 /\ spoiled' = FALSE
    /\ Serve(r)
    /\ UNCHANGED <<tried, pruned, prune, gitFaults>>

\* A failed fetch or reset serves what is there and advances the stamp: the old
\* files, or those a reset left that stopped half-way.
RefreshFails(r) ==
    /\ call[r] \in {"refreshing", "resetting"}
    /\ spoiled' = (spoiled \/ (call[r] = "resetting" /\ dir = "half"))
    /\ fetched' = IF HasGit THEN 0 ELSE fetched
    /\ tried' = 0 /\ Serve(r)
    /\ UNCHANGED <<dir, behind, pruned, prune, gitFaults>>

\* Mutant: the lock is not released when a command raises.
AfterTimeoutHeld == lock

AfterTimeout == {}

\* run_cmd kills the command and raises: neither handler cleans up after it.
GitTimesOut(r) ==
    /\ call[r] \in {"cloning", "refreshing", "resetting"} /\ GitFault
    /\ spoiled' = (spoiled \/ (call[r] # "refreshing" /\ dir # "absent"))
    /\ lock' = AfterTimeout /\ CallGoes(r, "out")
    /\ UNCHANGED <<dir, stamps, pruned, prune>>

ReadFiles(r) ==
    /\ call[r] = "reading" /\ CallGoes(r, "out")
    /\ UNCHANGED <<dir, lock, stamps, ghosts, prune, gitFaults>>

-----------------------------------------------------------------------------
(* prune_ref_clones, in a thread and without the lock *)

\* A clone without a use stamp counts as unread, the one being made included.
ChooseClone ==
    /\ prune = "idle" /\ HasGit /\ used > Retention
    /\ prune' = "chosen"
    /\ UNCHANGED <<dir, lock, call, stamps, ghosts, gitFaults>>

DeletePart ==
    /\ prune = "chosen" /\ prune' = "deleting"
    /\ IF dir = "absent" THEN UNCHANGED <<dir, fetched, spoiled>>
       ELSE /\ dir' \in {"half", "debris"} /\ spoiled' = TRUE
            /\ fetched' \in IF dir' = "half" THEN {fetched, Never} ELSE {Never}
    /\ pruned' = [r \in Reads |-> TRUE]
    /\ UNCHANGED <<lock, call, used, behind, tried, gitFaults>>

\* What a git command writes meanwhile outlives the deletion.
DeleteRest ==
    /\ prune = "deleting" /\ prune' = "idle"
    /\ dir' \in IF lock = {} THEN {"absent"} ELSE {"absent", "half", "debris"}
    /\ spoiled' = (dir' # "absent")
    /\ fetched' = Never /\ used' = Never
    /\ pruned' = [r \in Reads |-> TRUE]
    /\ UNCHANGED <<lock, call, behind, tried, gitFaults>>

-----------------------------------------------------------------------------
(* Time and crashes *)

Aged(n) == IF n < Never - 1 THEN n + 1 ELSE n

CloneTick ==
    /\ fetched' = Aged(fetched) /\ used' = Aged(used)
    /\ behind' = Aged(behind) /\ tried' = Aged(tried)
    /\ UNCHANGED <<dir, lock, call, ghosts, prune, gitFaults>>

CrashClones ==
    /\ GitFault
    /\ lock' = {} /\ call' = [r \in Reads |-> "out"] /\ prune' = "idle"
    /\ spoiled' = (dir \in {"half", "debris"})
    /\ UNCHANGED <<dir, stamps, pruned>>

EnterClone(r) == ServeFresh(r) \/ BeginRefresh(r) \/ BeginCloning(r)

GitStep(r) == \/ Cloned(r) \/ CloneFails(r) \/ BeginReset(r) \/ Refreshed(r)
              \/ RefreshFails(r) \/ GitTimesOut(r)

CloneNext ==
    \/ \E r \in Reads : AskClone(r) \/ EnterClone(r) \/ GitStep(r) \/ ReadFiles(r)
    \/ ChooseClone \/ DeletePart \/ DeleteRest
    \/ CloneTick \/ CrashClones

CloneSpec == CloneInit /\ [][CloneNext]_cloneVars

-----------------------------------------------------------------------------
(* Properties *)

(* "no half-clone behind": the directory a call is handed holds the work     *)
(* tree of one commit, through clones, resets and failures of the calls      *)
(* before it, unless a command that was killed, a reset that failed or the   *)
(* sweep broke it: those paths have no clean-up.  What happens to the tree    *)
(* after the call released the lock is up to the next call's reset.          *)
HandsOutWholeTree ==
    [][\A r \in Reads : call[r] # "reading" /\ call'[r] = "reading" =>
          dir' = "whole" \/ spoiled' \/ pruned'[r]]_cloneVars

(* A call is served files of the remote of less than the TTL ago, or a        *)
(* refresh failed within the TTL: the advanced stamp hides an unreachable     *)
(* remote for one TTL and no longer.                                        *)
ServesFreshFiles ==
    [][\A r \in Reads : call[r] # "reading" /\ call'[r] = "reading" =>
          behind' < FetchTTL \/ tried' < FetchTTL]_cloneVars

(* Every call gets its turn at the lock and returns: no failure, timeout or   *)
(* deletion leaves the lock of the clone held.                              *)
EveryReadReturns ==
    \A r \in Reads : call[r] = "waiting" ~> call[r] \in {"reading", "out"}
=============================================================================
