------------------------------ MODULE FileLock ------------------------------
(***************************************************************************)
(* withFileLock() (src/packages/server/src/storage/fileLock.ts): a lock    *)
(* file created exclusively, kept fresh by a heartbeat thread, removed by  *)
(* name by its owner, and taken from a dead owner under a second file,     *)
(* .reclaim, which nobody takes from anybody.                              *)
(***************************************************************************)
EXTENDS Naturals, FiniteSets

CONSTANTS Lockers,      \* processes that want the lock
          SameHost,     \* those on one machine; the others have one each
          Sleepers,     \* those whose machine may sleep longer than a lock takes to go stale
          Unowned

ASSUME LockConstants == SameHost \subseteq Lockers /\ Sleepers \subseteq Lockers /\ Unowned \notin Lockers

VARIABLES lockFile, reclaimFile, locker

lockVars == <<lockFile, reclaimFile, locker>>

NoFile == [by |-> Unowned, written |-> FALSE, fresh |-> FALSE]
Owns == {"holding", "releasing"}
Reclaims == {"reclaiming", "judged", "reclaimed"}

LockTypeOK ==
    /\ lockFile \in [by : Lockers \cup {Unowned}, written : BOOLEAN, fresh : BOOLEAN]
    /\ reclaimFile \in Lockers \cup {Unowned}
    /\ locker \in [Lockers -> {"idle", "wanting", "blocked", "created", "dead"} \cup Owns \cup Reclaims]

LockInit ==
    /\ lockFile = NoFile
    /\ reclaimFile = Unowned
    /\ locker = [p \in Lockers |-> "idle"]

----------------------------------------------------------------------------
Moves(p, from, to) == locker[p] = from /\ locker' = [locker EXCEPT ![p] = to]

Wants(p) == Moves(p, "idle", "wanting") /\ UNCHANGED <<lockFile, reclaimFile>>

\* The exclusive open succeeds; the owner is not yet written into the file.
CreateLock(p) ==
    /\ Moves(p, "wanting", "created")
    /\ lockFile = NoFile
    /\ lockFile' = [by |-> p, written |-> FALSE, fresh |-> TRUE]
    /\ UNCHANGED reclaimFile

\* The owner is written and the heartbeat runs.
WriteLock(p) ==
    /\ Moves(p, "created", "holding")
    /\ lockFile' = IF lockFile.by = p THEN [lockFile EXCEPT !.written = TRUE] ELSE lockFile
    /\ UNCHANGED reclaimFile

\* Writing failed: the file is removed by name.
WriteFails(p) ==
    /\ Moves(p, "created", "idle")
    /\ lockFile' = NoFile
    /\ UNCHANGED reclaimFile

\* The exclusive open fails because the file exists.
LockExists(p) ==
    /\ Moves(p, "wanting", "blocked")
    /\ lockFile # NoFile
    /\ UNCHANGED <<lockFile, reclaimFile>>

\* Somebody else reclaims: wait and try again.
Retry(p) ==
    /\ Moves(p, "blocked", "wanting")
    /\ reclaimFile # Unowned
    /\ UNCHANGED <<lockFile, reclaimFile>>

GivesUp(p) == Moves(p, "blocked", "idle") /\ UNCHANGED <<lockFile, reclaimFile>>

StartReclaim(p) ==
    /\ Moves(p, "blocked", "reclaiming")
    /\ reclaimFile = Unowned
    /\ reclaimFile' = p
    /\ UNCHANGED lockFile

Running(p) == locker[p] # "dead"
Together(p, q) == p = q \/ {p, q} \subseteq SameHost

\* canRemoveAbandonedLock(): on one machine the owner's process decides, the age
\* of the file otherwise, and also for a file without an owner yet.
CanRemove(p) ==
    /\ lockFile # NoFile
    /\ IF lockFile.written /\ Together(p, lockFile.by) THEN ~Running(lockFile.by) ELSE ~lockFile.fresh

\* Mutant: a file nobody touched lately is taken, whoever runs.
JudgeByAge(p) ==
    /\ locker[p] = "reclaiming"
    /\ locker' = [locker EXCEPT ![p] = IF lockFile # NoFile THEN "judged" ELSE "reclaimed"]
    /\ UNCHANGED <<lockFile, reclaimFile>>

Judge(p) ==
    /\ locker[p] = "reclaiming"
    /\ locker' = [locker EXCEPT ![p] = IF CanRemove(p) THEN "judged" ELSE "reclaimed"]
    /\ UNCHANGED <<lockFile, reclaimFile>>

RemoveAbandoned(p) ==
    /\ Moves(p, "judged", "reclaimed")
    /\ lockFile' = NoFile
    /\ UNCHANGED reclaimFile

EndReclaim(p) ==
    /\ Moves(p, "reclaimed", "wanting")
    /\ reclaimFile' = IF reclaimFile = p THEN Unowned ELSE reclaimFile
    /\ UNCHANGED lockFile

\* The callback returned: the token in the file is compared, then the file is
\* removed by name.
StartRelease(p) ==
    /\ locker[p] = "holding"
    /\ locker' = [locker EXCEPT ![p] = IF lockFile.written /\ lockFile.by = p THEN "releasing" ELSE "idle"]
    /\ UNCHANGED <<lockFile, reclaimFile>>

Release(p) ==
    /\ Moves(p, "releasing", "idle")
    /\ lockFile' = NoFile
    /\ UNCHANGED reclaimFile

\* The process dies where it is; a container starts again with the same pid.
Dies(p) ==
    /\ locker[p] \notin {"idle", "dead"}
    /\ locker' = [locker EXCEPT ![p] = "dead"]
    /\ UNCHANGED <<lockFile, reclaimFile>>

StartsAgain(p) == Moves(p, "dead", "idle") /\ UNCHANGED <<lockFile, reclaimFile>>

\* The file goes stale when nothing touches it: its owner has left it behind, or
\* sleeps with its heartbeat.
StaleLock ==
    LET p == lockFile.by IN
    /\ lockFile.fresh
    /\ p \in Sleepers \/ locker[p] \notin Owns \cup {"created"}
    /\ lockFile' = [lockFile EXCEPT !.fresh = FALSE]
    /\ UNCHANGED <<reclaimFile, locker>>

Acquiring(p) ==
    \/ CreateLock(p) \/ WriteLock(p) \/ WriteFails(p) \/ LockExists(p) \/ Retry(p) \/ GivesUp(p)
    \/ StartReclaim(p) \/ Judge(p) \/ RemoveAbandoned(p) \/ EndReclaim(p)

LockNext ==
    \/ \E p \in Lockers : \/ Wants(p) \/ Acquiring(p) \/ StartRelease(p) \/ Release(p)
                          \/ Dies(p) \/ StartsAgain(p)
    \/ StaleLock

LockSpec == LockInit /\ [][LockNext]_lockVars

----------------------------------------------------------------------------
\* No two processes hold the lock, and a holder's file is its own, although
\* files are removed by name and owners die anywhere.
OneHolder ==
    \A p \in Lockers : locker[p] \in Owns => lockFile.by = p /\ lockFile.written

\* Who runs under the lock, and the lock as those who take it see it: the files keep the
\* promise of LockPromise, where no machine sleeps while it holds the lock.
Holder ==
    IF \E p \in Lockers : locker[p] \in Owns THEN CHOOSE p \in Lockers : locker[p] \in Owns ELSE Unowned
FilesAsLock == INSTANCE LockPromise WITH Holders <- Lockers, Nobody <- Unowned, holder <- Holder
FilesAreALock == FilesAsLock!Spec
============================================================================
