------------------------- MODULE Deployment_proofs -------------------------
(***************************************************************************)
(* What an instance stands on: the lock of its store, the opening of the   *)
(* store under it, the key of its data, its settings, its log, and the     *)
(* publishing of the versions it is installed from.                        *)
(*                                                                         *)
(* The lock excludes, for any number of processes on any machines, as long *)
(* as no machine sleeps past the age at which a lock counts as abandoned.  *)
(* A held file is fresh and its holder's; so the one process that has the  *)
(* .reclaim file can only judge, and later remove, a file that nobody      *)
(* holds; and while it does nobody can come to hold the name, because the  *)
(* file is there.                                                          *)
(***************************************************************************)
EXTENDS FileLock, StoreOpening, DeploymentKey, InstanceSettings, ReleasePublishing, LocalLog,
        Mail_proofs      \* for the facts about lists in order

\* p's file, from its exclusive creation to its removal, is tended by p.
Tends(p) == locker[p] \in Owns \cup {"created"}

TendedIsFresh ==
    \A p \in Lockers : Tends(p) => lockFile.by = p /\ lockFile.fresh

\* A judged file stays abandoned until it is removed.
JudgedIsAbandoned ==
    \A p \in Lockers : locker[p] = "judged" => lockFile # NoFile /\ \A q \in Lockers : ~Tends(q)

ReclaimerHasFile ==
    \A p \in Lockers : locker[p] \in Reclaims => reclaimFile = p

\* A file has somebody who created it.
FileHasCreator == lockFile # NoFile => lockFile.by \in Lockers

LockInv ==
    LockTypeOK /\ FileHasCreator /\ TendedIsFresh /\ JudgedIsAbandoned /\ ReclaimerHasFile /\ OneHolder

----------------------------------------------------------------------------
\* A step of p alone that does not touch the lock file and makes p tend nothing new.
LEMMA QuietStep ==
    ASSUME LockInv, NEW p \in Lockers, NEW to, locker' = [locker EXCEPT ![p] = to], UNCHANGED lockFile,
           to \in {"idle", "wanting", "blocked", "reclaiming", "reclaimed", "dead"}
                  \cup (IF locker[p] = "holding" /\ lockFile.written THEN {"releasing"} ELSE {}),
           reclaimFile' \in Lockers \cup {Unowned}, ReclaimerHasFile'
    PROVE  LockInv'
<1> USE DEF LockInv, LockTypeOK, FileHasCreator
<1>1. LockTypeOK'
  BY DEF Owns, Reclaims
<1>2. \A q \in Lockers : Tends(q)' => Tends(q)
  BY DEF Tends, Owns
<1>3. TendedIsFresh'
  BY <1>2 DEF TendedIsFresh
<1>4. \A q \in Lockers : locker'[q] = "judged" => locker[q] = "judged"
  OBVIOUS
<1>5. JudgedIsAbandoned'
  BY <1>2, <1>4 DEF JudgedIsAbandoned, NoFile
<1>6. OneHolder'
  BY DEF OneHolder, Owns
<1> QED BY <1>1, <1>3, <1>5, <1>6

\* Removing a file that nobody but p tends, after which p tends nothing.
LEMMA RemovalStep ==
    ASSUME LockInv, NEW p \in Lockers, NEW to, locker' = [locker EXCEPT ![p] = to], lockFile' = NoFile,
           to \in {"idle", "reclaimed"}, UNCHANGED reclaimFile,
           \A q \in Lockers : Tends(q) => q = p,
           \A q \in Lockers : locker[q] = "judged" => q = p,
           to = "reclaimed" => locker[p] \in Reclaims
    PROVE  LockInv'
<1> USE DEF LockInv, LockTypeOK, FileHasCreator
<1>1. LockTypeOK'
  BY DEF NoFile, Reclaims, Owns
<1>2. \A q \in Lockers : ~Tends(q)'
  BY DEF Tends, Owns
<1>3. \A q \in Lockers : locker'[q] # "judged"
  OBVIOUS
<1>4. ReclaimerHasFile'
  BY DEF ReclaimerHasFile, Reclaims
<1> QED BY <1>1, <1>2, <1>3, <1>4 DEF TendedIsFresh, JudgedIsAbandoned, OneHolder, Tends

LEMMA LockStep ==
    ASSUME Sleepers = {}, LockInv, [LockNext]_lockVars PROVE LockInv'
<1> USE DEF LockInv, LockTypeOK, FileHasCreator, Moves
<1>u. Unowned \notin Lockers
  BY LockConstants
<1>1. ASSUME NEW p \in Lockers, Wants(p) \/ LockExists(p) \/ Retry(p) \/ GivesUp(p) \/ Dies(p) \/ StartsAgain(p)
      PROVE  LockInv'
  <2>1. \E to \in {"idle", "wanting", "blocked", "dead"} :
           locker' = [locker EXCEPT ![p] = to] /\ UNCHANGED <<lockFile, reclaimFile>>
    BY <1>1 DEF Wants, LockExists, Retry, GivesUp, Dies, StartsAgain
  <2>2. ReclaimerHasFile'
    BY <2>1 DEF ReclaimerHasFile, Reclaims
  <2> QED BY <2>1, <2>2, QuietStep
<1>2. ASSUME NEW p \in Lockers, CreateLock(p) PROVE LockInv'
  <2>1. \A q \in Lockers : ~Tends(q)
    BY <1>u, <1>2 DEF CreateLock, TendedIsFresh, NoFile
  <2>2. \A q \in Lockers : locker[q] # "judged"
    BY <1>2 DEF CreateLock, JudgedIsAbandoned
  <2>3. LockTypeOK' /\ ReclaimerHasFile'
    BY <1>2 DEF CreateLock, ReclaimerHasFile, Reclaims, Owns
  <2>4. \A q \in Lockers : Tends(q)' => q = p
    BY <1>2, <2>1 DEF CreateLock, Tends
  <2>5. \A q \in Lockers : locker'[q] \notin Owns /\ locker'[q] # "judged"
    BY <1>2, <2>1, <2>2 DEF CreateLock, Tends, Owns
  <2> QED BY <1>2, <2>3, <2>4, <2>5 DEF CreateLock, TendedIsFresh, JudgedIsAbandoned, OneHolder
<1>3. ASSUME NEW p \in Lockers, WriteLock(p) PROVE LockInv'
  <2>1. Tends(p) /\ lockFile.by = p /\ lockFile.fresh
    BY <1>3 DEF WriteLock, Tends, TendedIsFresh
  <2>2. lockFile' = [lockFile EXCEPT !.written = TRUE] /\ locker' = [locker EXCEPT ![p] = "holding"]
    BY <1>3, <2>1 DEF WriteLock
  <2>3. \A q \in Lockers : Tends(q)' => q = p
    BY <2>1, <2>2 DEF Tends, TendedIsFresh
  <2>4. lockFile'.by = p /\ lockFile'.fresh /\ lockFile'.written
    BY <2>1, <2>2
  <2>5. LockTypeOK' /\ ReclaimerHasFile'
    BY <1>3, <2>2 DEF WriteLock, ReclaimerHasFile, Reclaims, Owns
  <2>6. \A q \in Lockers : locker'[q] # "judged"
    BY <2>1, <2>2 DEF JudgedIsAbandoned
  <2> QED BY <2>3, <2>4, <2>5, <2>6 DEF TendedIsFresh, JudgedIsAbandoned, OneHolder, Tends
<1>4. ASSUME NEW p \in Lockers, WriteFails(p) \/ Release(p) PROVE LockInv'
  <2>1. Tends(p) /\ locker' = [locker EXCEPT ![p] = "idle"] /\ lockFile' = NoFile /\ UNCHANGED reclaimFile
    BY <1>4 DEF WriteFails, Release, Tends, Owns
  <2>2. \A q \in Lockers : Tends(q) => q = p
    BY <2>1 DEF TendedIsFresh
  <2>3. \A q \in Lockers : locker[q] # "judged"
    BY <2>1 DEF JudgedIsAbandoned
  <2> QED BY <2>1, <2>2, <2>3, RemovalStep
<1>5. ASSUME NEW p \in Lockers, StartReclaim(p) PROVE LockInv'
  <2>1. ReclaimerHasFile'
    BY <1>5, <1>u DEF StartReclaim, ReclaimerHasFile
  <2> QED BY <1>5, <2>1, QuietStep DEF StartReclaim
<1>6. ASSUME NEW p \in Lockers, Judge(p) PROVE LockInv'
  <2>1. ReclaimerHasFile'
    BY <1>6 DEF Judge, ReclaimerHasFile, Reclaims
  <2>2. CASE ~CanRemove(p)
    BY <1>6, <2>1, <2>2, QuietStep DEF Judge
  <2>3. CASE CanRemove(p)
    <3>1. lockFile # NoFile /\ \A q \in Lockers : ~Tends(q)
      BY <2>3 DEF CanRemove, TendedIsFresh, Running, Tends, Owns
    <3>2. locker' = [locker EXCEPT ![p] = "judged"] /\ UNCHANGED <<lockFile, reclaimFile>>
      BY <1>6, <2>3 DEF Judge
    <3>3. \A q \in Lockers : ~Tends(q)'
      BY <3>1, <3>2 DEF Tends, Owns
    <3>4. LockTypeOK'
      BY <3>2 DEF Reclaims
    <3> QED BY <2>1, <3>1, <3>2, <3>3, <3>4 DEF TendedIsFresh, JudgedIsAbandoned, OneHolder, Tends, NoFile
  <2> QED BY <2>2, <2>3
<1>7. ASSUME NEW p \in Lockers, RemoveAbandoned(p) PROVE LockInv'
  <2>1. \A q \in Lockers : ~Tends(q)
    BY <1>7 DEF RemoveAbandoned, JudgedIsAbandoned
  <2>2. \A q \in Lockers : locker[q] = "judged" => q = p
    BY <1>7 DEF RemoveAbandoned, ReclaimerHasFile, Reclaims
  <2> QED BY <1>7, <2>1, <2>2, RemovalStep DEF RemoveAbandoned, Reclaims
<1>8. ASSUME NEW p \in Lockers, EndReclaim(p) PROVE LockInv'
  <2>1. \A q \in Lockers : q # p => locker[q] \notin Reclaims
    BY <1>8 DEF EndReclaim, ReclaimerHasFile, Reclaims
  <2>2. ReclaimerHasFile'
    BY <1>8, <2>1 DEF EndReclaim, ReclaimerHasFile, Reclaims
  <2>3. reclaimFile' \in Lockers \cup {Unowned}
    BY <1>8 DEF EndReclaim
  <2> QED BY <1>8, <2>2, <2>3, QuietStep DEF EndReclaim
<1>9. ASSUME NEW p \in Lockers, StartRelease(p) PROVE LockInv'
  <2>1. ReclaimerHasFile'
    BY <1>9 DEF StartRelease, ReclaimerHasFile, Reclaims
  <2>2. CASE lockFile.written /\ lockFile.by = p
    BY <1>9, <2>1, <2>2, QuietStep DEF StartRelease
  <2>3. CASE ~(lockFile.written /\ lockFile.by = p)
    BY <1>9, <2>1, <2>3, QuietStep DEF StartRelease
  <2> QED BY <2>2, <2>3
<1>10. CASE StaleLock
  <2>1. /\ UNCHANGED <<reclaimFile, locker>> /\ lockFile' = [lockFile EXCEPT !.fresh = FALSE]
        /\ ~Tends(lockFile.by)
    BY <1>10, Sleepers = {} DEF StaleLock, Tends
  <2>2. \A q \in Lockers : ~Tends(q) /\ ~Tends(q)'
    BY <2>1 DEF TendedIsFresh, Tends
  <2>3. lockFile'.by = lockFile.by
    BY <2>1
  <2>4. lockFile # NoFile => lockFile' # NoFile
    BY <1>u, <2>3 DEF NoFile
  <2>5. LockTypeOK' /\ ReclaimerHasFile'
    BY <2>1 DEF ReclaimerHasFile
  <2>6. TendedIsFresh' /\ OneHolder'
    BY <2>2 DEF TendedIsFresh, OneHolder, Tends
  <2>7. JudgedIsAbandoned'
    BY <2>1, <2>2, <2>4 DEF JudgedIsAbandoned
  <2>8. lockFile # NoFile
    BY <1>10 DEF StaleLock, NoFile
  <2> QED BY <2>3, <2>5, <2>6, <2>7, <2>8
<1>11. CASE UNCHANGED lockVars
  BY <1>11 DEF lockVars, TendedIsFresh, JudgedIsAbandoned, ReclaimerHasFile, OneHolder, Tends, NoFile
<1> QED
  BY <1>1, <1>2, <1>3, <1>4, <1>5, <1>6, <1>7, <1>8, <1>9, <1>10, <1>11 DEF LockNext, Acquiring

LEMMA LockBegins == LockInit => LockInv
BY DEF LockInit, LockInv, LockTypeOK, FileHasCreator, TendedIsFresh, JudgedIsAbandoned, ReclaimerHasFile, OneHolder,
       Tends, Owns, Reclaims, NoFile

\* Held files are fresh, judged files abandoned, and one process reclaims at a time.
THEOREM LockInvariance == ASSUME Sleepers = {} PROVE LockSpec => []LockInv
BY LockBegins, LockStep, PTL DEF LockSpec

\* Two processes never hold the lock at once, and a holder's file is its own.
THEOREM LockExcludes == ASSUME Sleepers = {} PROVE LockSpec => []OneHolder
<1>1. LockInv => OneHolder
  BY DEF LockInv
<1> QED BY <1>1, LockInvariance, PTL

----------------------------------------------------------------------------
(* The files keep the promise of a lock.  Nobody comes to hold it but by   *)
(* writing a file of his own, and then nobody held it: the file would have *)
(* been the other's.                                                       *)

\* The holder is the one process that has the lock, and there is none when nobody has.
LEMMA HolderIs ==
    ASSUME OneHolder
    PROVE  /\ \A p \in Lockers : locker[p] \in Owns => Holder = p
           /\ (\A p \in Lockers : locker[p] \notin Owns) => Holder = Unowned
           /\ Holder \in Lockers => locker[Holder] \in Owns
           /\ Holder \in Lockers \cup {Unowned}
<1>1. ASSUME NEW p \in Lockers, locker[p] \in Owns PROVE Holder = p
  <2>1. \A q \in Lockers : locker[q] \in Owns => q = p
    BY <1>1 DEF OneHolder
  <2> QED BY <1>1, <2>1 DEF Holder
<1>2. ASSUME \A p \in Lockers : locker[p] \notin Owns PROVE Holder = Unowned
  BY <1>2 DEF Holder
<1>3. CASE \E p \in Lockers : locker[p] \in Owns
  BY <1>1, <1>3
<1>4. CASE \A p \in Lockers : locker[p] \notin Owns
  BY <1>2, <1>4, LockConstants
<1> QED BY <1>1, <1>2, <1>3, <1>4

\* The same of the next state.
LEMMA NextHolderIs ==
    ASSUME OneHolder'
    PROVE  /\ \A p \in Lockers : locker'[p] \in Owns => Holder' = p
           /\ (\A p \in Lockers : locker'[p] \notin Owns) => Holder' = Unowned
<1>1. ASSUME NEW p \in Lockers, locker'[p] \in Owns PROVE Holder' = p
  <2>1. \A q \in Lockers : locker'[q] \in Owns => q = p
    BY <1>1 DEF OneHolder
  <2> QED BY <1>1, <2>1 DEF Holder
<1> QED BY <1>1 DEF Holder

\* Where nobody's having the lock changes, the lock does not.
LEMMA SameOwnersSameHolder ==
    ASSUME OneHolder, OneHolder', \A p \in Lockers : locker'[p] \in Owns <=> locker[p] \in Owns
    PROVE  UNCHANGED Holder
<1>1. CASE \E p \in Lockers : locker[p] \in Owns
  BY <1>1, HolderIs, NextHolderIs
<1>2. CASE \A p \in Lockers : locker[p] \notin Owns
  BY <1>2, HolderIs, NextHolderIs
<1> QED BY <1>1, <1>2

LEMMA LockStepKeepsPromise ==
    ASSUME LockInv, LockInv', [LockNext]_lockVars
    PROVE  (\E p \in Lockers : \/ Holder = Unowned /\ Holder' = p
                               \/ Holder = p /\ Holder' = Unowned)
           \/ UNCHANGED Holder
<1>0. OneHolder /\ OneHolder' /\ LockTypeOK
  BY DEF LockInv
<1> USE DEF LockTypeOK, Moves
<1>1. ASSUME NEW p \in Lockers, WriteLock(p) PROVE Holder = Unowned /\ Holder' = p
  <2>1. lockFile.by = p /\ locker[p] = "created" /\ locker' = [locker EXCEPT ![p] = "holding"]
    BY <1>1 DEF WriteLock, LockInv, TendedIsFresh, Tends
  <2>2. \A q \in Lockers : locker[q] \notin Owns
    BY <1>0, <2>1 DEF OneHolder, Owns
  <2>3. locker'[p] \in Owns
    BY <1>0, <2>1 DEF Owns
  <2> QED BY <1>0, <2>2, <2>3, HolderIs, NextHolderIs
\* The others leave everybody but p as they were, and make p own nothing.
<1>2. ASSUME NEW p \in Lockers, NEW to, locker' = [locker EXCEPT ![p] = to],
             to \notin Owns, locker[p] \in Owns
      PROVE  Holder = p /\ Holder' = Unowned
  <2>1. \A q \in Lockers : locker[q] \in Owns => q = p
    BY <1>0, <1>2 DEF OneHolder
  <2>2. \A q \in Lockers : locker'[q] \notin Owns
    BY <1>0, <1>2, <2>1
  <2> QED BY <1>0, <1>2, <2>2, HolderIs, NextHolderIs
<1>3. ASSUME NEW p \in Lockers, NEW to, locker' = [locker EXCEPT ![p] = to],
             to \in Owns <=> locker[p] \in Owns
      PROVE  UNCHANGED Holder
  <2>1. \A q \in Lockers : locker'[q] \in Owns <=> locker[q] \in Owns
    BY <1>0, <1>3
  <2> QED BY <1>0, <2>1, SameOwnersSameHolder
<1>4. ASSUME NEW p \in Lockers,
             \/ Wants(p) \/ CreateLock(p) \/ WriteFails(p) \/ LockExists(p) \/ Retry(p) \/ GivesUp(p)
             \/ StartReclaim(p) \/ Judge(p) \/ RemoveAbandoned(p) \/ EndReclaim(p) \/ StartsAgain(p)
      PROVE  UNCHANGED Holder
  <2>1. \E to : locker' = [locker EXCEPT ![p] = to] /\ to \notin Owns /\ locker[p] \notin Owns
    BY <1>4 DEF Wants, CreateLock, WriteFails, LockExists, Retry, GivesUp, StartReclaim, Judge, RemoveAbandoned,
                EndReclaim, StartsAgain, Owns
  <2> QED BY <2>1, <1>3
<1>5. ASSUME NEW p \in Lockers, StartRelease(p) \/ Release(p) \/ Dies(p)
      PROVE  UNCHANGED Holder \/ (Holder = p /\ Holder' = Unowned)
  <2>1. \E to \in {"idle", "releasing", "dead"} :
           /\ locker' = [locker EXCEPT ![p] = to]
           /\ to = "releasing" => locker[p] \in Owns
    BY <1>5 DEF StartRelease, Release, Dies, Owns
  <2>2. PICK to \in {"idle", "releasing", "dead"} :
           /\ locker' = [locker EXCEPT ![p] = to]
           /\ to = "releasing" => locker[p] \in Owns
    BY <2>1
  <2>3. to \in Owns <=> to = "releasing"
    BY DEF Owns
  <2>4. CASE to \in Owns <=> locker[p] \in Owns
    BY <1>3, <2>2, <2>4
  <2>5. CASE to \notin Owns /\ locker[p] \in Owns
    BY <1>2, <2>2, <2>5
  <2> QED BY <2>2, <2>3, <2>4, <2>5
<1>6. CASE StaleLock \/ UNCHANGED lockVars
  <2>1. UNCHANGED locker
    BY <1>6 DEF StaleLock, lockVars
  <2> QED BY <2>1, <1>0, SameOwnersSameHolder
<1> QED BY <1>1, <1>4, <1>5, <1>6 DEF LockNext, Acquiring

\* Whoever takes the lock of the store relies on LockPromise, and the two files keep it:
\* taken from nobody, given back by its holder or lost when it dies, on any number of
\* machines that do not sleep while they hold it.
THEOREM FilesKeepLockPromise == ASSUME Sleepers = {} PROVE LockSpec => FilesAreALock
<1>1. LockInit => FilesAsLock!Init
  BY DEF LockInit, FilesAsLock!Init, Holder, Owns
<1>2. LockInv /\ LockInv' /\ [LockNext]_lockVars => [FilesAsLock!Next]_Holder
  BY LockStepKeepsPromise DEF FilesAsLock!Next, FilesAsLock!Take, FilesAsLock!Leave
<1> QED BY <1>1, <1>2, LockInvariance, PTL DEF LockSpec, FilesAreALock, FilesAsLock!Spec

----------------------------------------------------------------------------
(* Opening the store.  Whoever migrates holds the lock, and the format it  *)
(* backed up cannot change under it: an engine that found the store        *)
(* current and took no lock migrates nothing.                              *)

\* Opening the store takes, keeps and gives back the lock as the lock's own steps do.
LEMMA StoreStepLocks == [StoreNext]_storeVars => [LockNext]_lockVars
BY DEF StoreNext, storeVars, LockNext, lockVars, OpenStore, BackupForMigration, Migrate, CloseStore, OpenerDies

\* The lock of the store is a lock: every theorem about the lock holds of the openers.
THEOREM StoreOpenersLock == StoreSpec => LockSpec
<1>1. StoreInit => LockInit
  BY DEF StoreInit
<1> QED BY <1>1, StoreStepLocks, PTL DEF StoreSpec, LockSpec

\* A store without data is one from before formats.
EmptyIsOld == storeEmpty => storeFormat = 0

\* A store opened without the lock was as new as the engine, and stays so.
InspectedIsCurrent == \A p \in Lockers : opening[p] = "inspected" => storeFormat >= CurrentFormat(p)

BackedUp == storeEmpty \/ storeFormat \in backups

MigratorsAreReady ==
    \A p \in Lockers : opening[p] = "migrating" /\ RequiresMigration(p) => locker[p] = "holding" /\ BackedUp

StoreInv == StoreTypeOK /\ LockInv /\ EmptyIsOld /\ InspectedIsCurrent /\ MigratorsAreReady

LEMMA FormatsArePositive == \A p \in Lockers : CurrentFormat(p) \in 1..NewestFormat
BY OpeningConstants DEF CurrentFormat

\* A migration that changes the format does it under the lock and after the backup.
LEMMA MigrationStep ==
    ASSUME StoreInv, NEW p \in Lockers, Migrate(p)
    PROVE  \/ UNCHANGED storeFormat /\ UNCHANGED storeEmpty
           \/ storeFormat' > storeFormat /\ BackedUp /\ locker[p] = "holding"
<1>1. opening[p] = "migrating" /\ storeFormat <= CurrentFormat(p) /\ storeFormat' = CurrentFormat(p) /\ storeEmpty' = FALSE
  BY DEF Migrate, Goes, Compatible
<1>2. storeFormat \in Nat /\ CurrentFormat(p) \in Nat \ {0} /\ storeEmpty \in BOOLEAN
  BY FormatsArePositive, OpeningConstants DEF StoreInv, StoreTypeOK
<1>3. CASE RequiresMigration(p)
  BY <1>1, <1>2, <1>3 DEF StoreInv, MigratorsAreReady, RequiresMigration
<1>4. CASE ~RequiresMigration(p)
  <2>1. storeFormat' = storeFormat /\ storeFormat # 0
    BY <1>1, <1>2, <1>4 DEF RequiresMigration
  <2>2. storeEmpty = FALSE
    BY <2>1, <1>2 DEF StoreInv, EmptyIsOld
  <2> QED BY <1>1, <2>1, <2>2
<1> QED BY <1>3, <1>4

LEMMA OpeningKeeps ==
    ASSUME Sleepers = {}, StoreInv, [StoreNext]_storeVars PROVE StoreInv'
<1>1. LockInv'
  BY StoreStepLocks, LockStep DEF StoreInv
<1>t. /\ storeFormat \in 0..NewestFormat /\ NewestFormat \in Nat /\ storeEmpty \in BOOLEAN /\ backups \subseteq 0..NewestFormat
      /\ opening \in [Lockers -> {"closed", "locking", "inspected", "migrating", "migrated"}]
      /\ locker \in [Lockers -> {"idle", "wanting", "blocked", "created", "dead"} \cup Owns \cup Reclaims]
      /\ \A p \in Lockers : CurrentFormat(p) \in 1..NewestFormat
  BY FormatsArePositive, OpeningConstants DEF StoreInv, StoreTypeOK, LockTypeOK
<1>t2. LockTypeOK'
  BY <1>1 DEF LockInv
<1>2. ASSUME NEW p \in Lockers, Migrate(p) PROVE StoreInv'
  <2>1. /\ UNCHANGED <<lockVars, backups>> /\ opening' = [opening EXCEPT ![p] = "migrated"]
        /\ storeFormat' = CurrentFormat(p) /\ storeEmpty' = FALSE /\ storeFormat <= storeFormat'
    BY <1>2 DEF Migrate, Goes, Compatible
  <2>2. StoreTypeOK' /\ EmptyIsOld'
    <3>1. storeFormat' \in 0..NewestFormat
      BY <2>1, <1>t
    <3>2. storeEmpty' \in BOOLEAN /\ EmptyIsOld'
      BY <2>1 DEF EmptyIsOld
    <3> QED BY <2>1, <3>1, <3>2, <1>t, <1>t2 DEF StoreTypeOK
  <2>3. InspectedIsCurrent'
    BY <2>1, <1>t DEF StoreInv, InspectedIsCurrent, CurrentFormat
  <2>4. ASSUME NEW q \in Lockers, opening'[q] = "migrating", storeFormat' < CurrentFormat(q)
        PROVE  locker'[q] = "holding" /\ BackedUp'
    <3>1. q # p /\ opening[q] = "migrating" /\ storeFormat < CurrentFormat(q)
      BY <2>1, <2>4, <1>t
    <3>2. locker[q] = "holding" /\ BackedUp
      BY <3>1 DEF StoreInv, MigratorsAreReady, RequiresMigration
    <3>3. locker[p] # "holding"
      BY <3>1, <3>2 DEF StoreInv, LockInv, OneHolder, Owns
    <3>4. UNCHANGED storeFormat /\ UNCHANGED storeEmpty
      BY <3>3, <1>2, MigrationStep
    <3> QED BY <3>2, <3>4, <2>1 DEF BackedUp, lockVars
  <2>5. MigratorsAreReady'
    BY <2>4 DEF MigratorsAreReady, RequiresMigration, CurrentFormat
  <2> QED BY <2>2, <2>3, <2>5, <1>1 DEF StoreInv
<1>3. ASSUME NEW p \in Lockers, BackupForMigration(p) PROVE StoreInv'
  <2>1. /\ UNCHANGED <<lockVars, storeFormat, storeEmpty>> /\ opening' = [opening EXCEPT ![p] = "migrating"]
        /\ backups' = IF RequiresMigration(p) /\ ~storeEmpty THEN backups \cup {storeFormat} ELSE backups
        /\ (opening[p] = "locking" /\ locker[p] = "holding") \/ opening[p] = "inspected"
    BY <1>3 DEF BackupForMigration, Goes
  <2>2. StoreTypeOK' /\ EmptyIsOld' /\ InspectedIsCurrent'
    BY <2>1, <1>t, <1>t2 DEF StoreInv, StoreTypeOK, EmptyIsOld, InspectedIsCurrent, CurrentFormat
  <2>3. ASSUME NEW q \in Lockers, opening'[q] = "migrating", storeFormat' < CurrentFormat(q)
        PROVE  locker'[q] = "holding" /\ BackedUp'
    <3>1. CASE q = p
      BY <2>1, <2>3, <3>1, <1>t DEF StoreInv, InspectedIsCurrent, RequiresMigration, BackedUp, lockVars
    <3>2. CASE q # p
      BY <2>1, <2>3, <3>2, <1>t DEF StoreInv, MigratorsAreReady, RequiresMigration, BackedUp, lockVars
    <3> QED BY <3>1, <3>2
  <2>4. MigratorsAreReady'
    BY <2>3 DEF MigratorsAreReady, RequiresMigration, CurrentFormat
  <2> QED BY <2>2, <2>4, <1>1 DEF StoreInv
\* All other steps leave the format and the backups, and no migrator's lock changes but when it is done.
<1>4. ASSUME UNCHANGED <<storeFormat, storeEmpty, backups>>,
             opening' \in [Lockers -> {"closed", "locking", "inspected", "migrating", "migrated"}],
             \A q \in Lockers : opening'[q] = "inspected" => opening[q] = "inspected" \/ storeFormat >= CurrentFormat(q),
             \A q \in Lockers : opening'[q] = "migrating" =>
                 opening[q] = "migrating" /\ (locker[q] = "holding" => locker'[q] = "holding")
      PROVE  StoreInv'
  BY <1>1, <1>4, <1>t, <1>t2
     DEF StoreInv, StoreTypeOK, EmptyIsOld, InspectedIsCurrent, MigratorsAreReady, BackedUp, RequiresMigration, CurrentFormat
<1>5. ASSUME NEW p \in Lockers, OpenStore(p) PROVE StoreInv'
  BY <1>4, <1>5, <1>t DEF OpenStore, Goes, Wants, Moves, Compatible, RequiresMigration, lockVars
<1>6. ASSUME NEW p \in Lockers, CloseStore(p) PROVE StoreInv'
  BY <1>4, <1>6, <1>t DEF CloseStore, Goes, StartRelease, lockVars
<1>7. ASSUME NEW p \in Lockers, OpenerDies(p) PROVE StoreInv'
  BY <1>4, <1>7, <1>t DEF OpenerDies, Dies
<1>8. ASSUME NEW p \in Lockers, Acquiring(p) \/ Release(p) \/ StartsAgain(p),
             UNCHANGED <<storeFormat, storeEmpty, opening, backups>>
      PROVE  StoreInv'
  <2>1. \A q \in Lockers : locker[q] = "holding" => locker'[q] = "holding"
    BY <1>8, <1>t DEF Acquiring, CreateLock, WriteLock, WriteFails, LockExists, Retry, GivesUp, StartReclaim, Judge,
                      RemoveAbandoned, EndReclaim, Release, StartsAgain, Moves
  <2> QED BY <1>4, <1>8, <1>t, <2>1
<1>9. CASE StaleLock /\ UNCHANGED <<storeFormat, storeEmpty, opening, backups>>
  BY <1>4, <1>9, <1>t DEF StaleLock
<1>10. CASE UNCHANGED storeVars
  BY <1>4, <1>10, <1>t DEF storeVars, lockVars
<1> QED
  BY <1>2, <1>3, <1>5, <1>6, <1>7, <1>8, <1>9, <1>10 DEF StoreNext

LEMMA StoreBegins == StoreInit => StoreInv
<1> SUFFICES ASSUME StoreInit PROVE StoreInv
  OBVIOUS
<1>1. LockInv
  BY LockBegins DEF StoreInit
<1>2. StoreTypeOK
  BY <1>1, OpeningConstants DEF StoreInit, StoreTypeOK, LockInv
<1> QED BY <1>1, <1>2 DEF StoreInit, StoreInv, EmptyIsOld, InspectedIsCurrent, MigratorsAreReady

\* Who migrates holds the lock and has backed up what it will replace.
THEOREM StoreInvariance == ASSUME Sleepers = {} PROVE StoreSpec => []StoreInv
BY StoreBegins, OpeningKeeps, PTL DEF StoreSpec

\* The format of a store only grows, and none with data in it is left behind without
\* a backup, for any number of processes of both versions.
THEOREM MigrationsAreBackedUp == ASSUME Sleepers = {} PROVE StoreSpec => BackedUpFirst
<1>1. ASSUME StoreInv, [StoreNext]_storeVars
      PROVE  storeFormat' # storeFormat => storeFormat' > storeFormat /\ (storeEmpty \/ storeFormat \in backups)
  <2>1. CASE \E p \in Lockers : Migrate(p)
    BY <1>1, <2>1, MigrationStep DEF BackedUp
  <2>2. CASE ~\E p \in Lockers : Migrate(p)
    BY <1>1, <2>2 DEF StoreNext, storeVars, OpenStore, BackupForMigration, CloseStore, OpenerDies
  <2> QED BY <2>1, <2>2
<1>2. StoreInv /\ [StoreNext]_storeVars
        => [storeFormat' # storeFormat => storeFormat' > storeFormat /\ (storeEmpty \/ storeFormat \in backups)]_storeVars
  BY <1>1
<1> QED BY <1>2, StoreInvariance, PTL DEF StoreSpec, BackedUpFirst

----------------------------------------------------------------------------
(* The key of the store.  One process makes a key at a time, under the     *)
(* key's lock, and one migration runs at a time, under its own; each has   *)
(* chosen the key in the file or will read it.  Only the two crossings of  *)
(* those locks take the file from who has chosen its key.                  *)

MakersLock == \A p \in KeyProcesses : stage[p] \in {"checked", "making"} => keyLock = p

Migrating(m) == stage[m] \in {"writing", "keyed", "waiting", "checked", "making", "settled"}

MigrationsLock == \A m \in Migrations : Migrating(m) => migrationLock = m

\* Who makes a key saw none; since then only an import can have left one.
MakersSawNone == \A p \in KeyProcesses : stage[p] = "making" => keyFile \in {NoKey, Half, Imported}

StartersHaveStored ==
    \A p \in Starters : stage[p] = "ready" => chosen[p] = keyFile /\ keyFile \in KeySupply

\* A migration that writes has the imported key, or the one it found.
WritersHaveTheirs ==
    \A m \in Migrations : stage[m] = "writing" =>
        IF request[m].key # NoKey THEN chosen[m] = Imported /\ keyFile \in {NoKey, Half, Imported}
        ELSE keyFile # Half /\ chosen[m] \in {NoKey, keyFile}

\* One that has written has the stored key, or will read it if it needs one.
WrittenHaveStored ==
    \A m \in Migrations : Migrating(m) /\ stage[m] # "writing" =>
        /\ keyFile # Half
        /\ request[m].key # NoKey => chosen[m] # NoKey
        /\ chosen[m] # NoKey => chosen[m] = keyFile

\* Nothing is stored without a key.
HaveChosen ==
    /\ \A p \in Starters : stage[p] = "ready" => chosen[p] # NoKey
    /\ \A m \in Migrations : stage[m] = "settled" /\ request[m].secrets => chosen[m] # NoKey

KeyInv ==
    /\ DeploymentKeyTypeOK /\ HaveChosen /\ MakersLock /\ MigrationsLock /\ MakersSawNone
    /\ ~crossed => written \subseteq {keyFile} /\ StartersHaveStored /\ WritersHaveTheirs /\ WrittenHaveStored

LEMMA KeyTypes ==
    ASSUME DeploymentKeyTypeOK, HaveChosen, [DeploymentKeyNext]_keyVars PROVE DeploymentKeyTypeOK' /\ HaveChosen'
<1> USE KeyConstants DEF DeploymentKeyTypeOK, HaveChosen, KeyProcesses, Keys, Stages, GoOn, Choose, ResolvedStage
<1> DEFINE Good == DeploymentKeyTypeOK' /\ HaveChosen'
<1>1. ASSUME NEW p \in KeyProcesses, ReadStored(p) PROVE Good
  BY <1>1 DEF ReadStored
<1>2. ASSUME NEW p \in KeyProcesses, SeeNoKey(p) \/ LockKey(p) \/ ReadCorrupt(p) \/ KeyProcessDies(p) PROVE Good
  BY <1>2 DEF SeeNoKey, LockKey, ReadCorrupt, KeyProcessDies
<1>3. ASSUME NEW p \in KeyProcesses, CheckUnderLock(p) PROVE Good
  BY <1>3 DEF CheckUnderLock, LookAgain
<1>4. ASSUME NEW p \in KeyProcesses, RenameKey(p) PROVE Good
  <2>1. crossed' \in BOOLEAN
    BY <1>4 DEF RenameKey
  <2>2. owns' \in [Migrations -> SUBSET {"key", "toml"}]
    BY <1>4 DEF RenameKey
  <2> QED BY <1>4, <2>1, <2>2 DEF RenameKey
<1>5. ASSUME NEW p \in Starters, StoreSecret(p) PROVE Good
  BY <1>5 DEF StoreSecret
<1>6. ASSUME NEW m \in Migrations, BeginMigration(m) PROVE Good
  BY <1>6 DEF BeginMigration, Candidate, Importable
<1>7. ASSUME NEW m \in Migrations, CreateKeyFile(m) PROVE Good
  BY <1>7 DEF CreateKeyFile
<1>8. ASSUME NEW m \in Migrations, FillKeyFile(m) PROVE Good
  BY <1>8 DEF FillKeyFile
<1>9. ASSUME NEW m \in Migrations, WriteToml(m) PROVE Good
  BY <1>9 DEF WriteToml
<1>10. ASSUME NEW m \in Migrations, KeyAtHand(m) PROVE Good
  BY <1>10 DEF KeyAtHand, NeedsKey
<1>11. ASSUME NEW m \in Migrations, ImportSecrets(m) PROVE Good
  BY <1>11 DEF ImportSecrets
<1>12. ASSUME NEW m \in Migrations, MigrationFails(m) PROVE Good
  <2>1. crossed' \in BOOLEAN
    BY <1>12 DEF MigrationFails, Undo
  <2> QED BY <1>12, <2>1 DEF MigrationFails, Undo
<1>13. CASE UNCHANGED keyVars
  BY <1>13 DEF keyVars
<1> QED
  BY <1>1, <1>2, <1>3, <1>4, <1>5, <1>6, <1>7, <1>8, <1>9, <1>10, <1>11, <1>12, <1>13 DEF DeploymentKeyNext

\* Both locks are held from where they are taken to where they are given back.
LEMMA KeyLocks ==
    ASSUME DeploymentKeyTypeOK, MakersLock, MigrationsLock, [DeploymentKeyNext]_keyVars
    PROVE  MakersLock' /\ MigrationsLock'
<1> USE KeyConstants DEF DeploymentKeyTypeOK, MakersLock, MigrationsLock, Migrating, KeyProcesses, Keys, Stages, GoOn, Choose,
                         ResolvedStage
<1> DEFINE Good == MakersLock' /\ MigrationsLock'
<1>1. ASSUME NEW p \in KeyProcesses, ReadStored(p) \/ SeeNoKey(p) \/ LockKey(p) PROVE Good
  BY <1>1 DEF ReadStored, SeeNoKey, LockKey, Resolving
<1>2. ASSUME NEW p \in KeyProcesses, CheckUnderLock(p) PROVE Good
  BY <1>2 DEF CheckUnderLock, LookAgain
<1>3. ASSUME NEW p \in KeyProcesses, RenameKey(p) PROVE Good
  BY <1>3 DEF RenameKey
<1>4. ASSUME NEW p \in KeyProcesses, ReadCorrupt(p) \/ KeyProcessDies(p) PROVE Good
  BY <1>4 DEF ReadCorrupt, KeyProcessDies
<1>5. ASSUME NEW p \in Starters, StoreSecret(p) PROVE Good
  BY <1>5 DEF StoreSecret
<1>6. ASSUME NEW m \in Migrations, BeginMigration(m) PROVE Good
  BY <1>6 DEF BeginMigration
<1>7. ASSUME NEW m \in Migrations, CreateKeyFile(m) \/ FillKeyFile(m) \/ WriteToml(m) \/ KeyAtHand(m) PROVE Good
  BY <1>7 DEF CreateKeyFile, FillKeyFile, WriteToml, KeyAtHand
<1>8. ASSUME NEW m \in Migrations, ImportSecrets(m) \/ MigrationFails(m) PROVE Good
  BY <1>8 DEF ImportSecrets, MigrationFails, Undo
<1>9. CASE UNCHANGED keyVars
  BY <1>9 DEF keyVars
<1> QED
  BY <1>1, <1>2, <1>3, <1>4, <1>5, <1>6, <1>7, <1>8, <1>9 DEF DeploymentKeyNext

\* Another process's key cannot come under a maker's hands: it would have to hold the lock.
LEMMA MakersStep ==
    ASSUME DeploymentKeyTypeOK, MakersLock, MakersSawNone, [DeploymentKeyNext]_keyVars
    PROVE  MakersSawNone'
<1> USE KeyConstants DEF DeploymentKeyTypeOK, MakersLock, MakersSawNone, KeyProcesses, Keys, Stages, GoOn, Choose,
                         ResolvedStage
<1>1. ASSUME NEW p \in KeyProcesses, ReadStored(p) \/ SeeNoKey(p) \/ LockKey(p) PROVE MakersSawNone'
  BY <1>1 DEF ReadStored, SeeNoKey, LockKey, Resolving
<1>2. ASSUME NEW p \in KeyProcesses, CheckUnderLock(p) PROVE MakersSawNone'
  BY <1>2 DEF CheckUnderLock, LookAgain
<1>3. ASSUME NEW p \in KeyProcesses, RenameKey(p) PROVE MakersSawNone'
  BY <1>3 DEF RenameKey
<1>4. ASSUME NEW p \in KeyProcesses, ReadCorrupt(p) \/ KeyProcessDies(p) PROVE MakersSawNone'
  BY <1>4 DEF ReadCorrupt, KeyProcessDies
<1>5. ASSUME NEW p \in Starters, StoreSecret(p) PROVE MakersSawNone'
  BY <1>5 DEF StoreSecret
<1>6. ASSUME NEW m \in Migrations, BeginMigration(m) PROVE MakersSawNone'
  BY <1>6 DEF BeginMigration
<1>7. ASSUME NEW m \in Migrations, CreateKeyFile(m) \/ FillKeyFile(m) PROVE MakersSawNone'
  BY <1>7 DEF CreateKeyFile, FillKeyFile
<1>8. ASSUME NEW m \in Migrations, WriteToml(m) \/ KeyAtHand(m) \/ ImportSecrets(m) PROVE MakersSawNone'
  BY <1>8 DEF WriteToml, KeyAtHand, ImportSecrets
<1>9. ASSUME NEW m \in Migrations, MigrationFails(m) PROVE MakersSawNone'
  BY <1>9 DEF MigrationFails, Undo
<1>10. CASE UNCHANGED keyVars
  BY <1>10 DEF keyVars
<1> QED
  BY <1>1, <1>2, <1>3, <1>4, <1>5, <1>6, <1>7, <1>8, <1>9, <1>10 DEF DeploymentKeyNext

\* What those who go on with a key know, as long as the two locks were not crossed.
StoredKeys == written \subseteq {keyFile} /\ StartersHaveStored /\ WritersHaveTheirs /\ WrittenHaveStored

LEMMA StoredKeysStep ==
    ASSUME KeyInv, [DeploymentKeyNext]_keyVars, ~crossed' PROVE StoredKeys'
<1> USE KeyConstants, HalfIsNoKey DEF StoredKeys, StartersHaveStored, WritersHaveTheirs, WrittenHaveStored, Migrating, KeyProcesses, Keys, Stages, GoOn, Choose,
                         ResolvedStage
<1>i. /\ DeploymentKeyTypeOK /\ HaveChosen /\ MakersLock /\ MigrationsLock /\ MakersSawNone
      /\ ~crossed => StoredKeys
  BY DEF KeyInv
<1> USE <1>i DEF DeploymentKeyTypeOK
<1>1. ASSUME NEW p \in KeyProcesses, ReadStored(p) PROVE StoredKeys'
  BY <1>1 DEF ReadStored, Resolving
<1>2. ASSUME NEW p \in KeyProcesses, SeeNoKey(p) \/ LockKey(p) PROVE StoredKeys'
  BY <1>2 DEF SeeNoKey, LockKey, Resolving, NeedsKey
<1>3. ASSUME NEW p \in KeyProcesses, CheckUnderLock(p) PROVE StoredKeys'
  BY <1>3 DEF CheckUnderLock, LookAgain
<1>4. ASSUME NEW p \in KeyProcesses, RenameKey(p) PROVE StoredKeys'
  <2>a. ~crossed /\ keyFile \notin {Half, Imported} /\ keyFile \in {NoKey, Half, Imported}
    BY <1>4 DEF RenameKey, MakersSawNone
  <2>b. keyFile = NoKey
    BY <2>a
  <2>c. written \subseteq KeySupply /\ written \subseteq {NoKey}
    BY <2>a, <2>b
  <2>1. keyFile = NoKey /\ written = {} /\ ~crossed
    BY <2>a, <2>b, <2>c
  <2>2. keyFile' = p /\ p \in KeySupply /\ p # Half /\ written' = written
    BY <1>4 DEF RenameKey
  <2>3. StartersHaveStored'
    BY <1>4, <2>1, <2>2 DEF RenameKey
  <2>4. WritersHaveTheirs'
    BY <1>4, <2>1, <2>2 DEF RenameKey, MigrationsLock
  <2>5. WrittenHaveStored'
    BY <1>4, <2>1, <2>2 DEF RenameKey, MigrationsLock
  <2> QED BY <2>1, <2>2, <2>3, <2>4, <2>5
<1>5. ASSUME NEW p \in KeyProcesses, ReadCorrupt(p) \/ KeyProcessDies(p) PROVE StoredKeys'
  BY <1>5 DEF ReadCorrupt, KeyProcessDies
<1>6. ASSUME NEW p \in Starters, StoreSecret(p) PROVE StoredKeys'
  BY <1>6 DEF StoreSecret
<1>7. ASSUME NEW m \in Migrations, BeginMigration(m) PROVE StoredKeys'
  BY <1>7 DEF BeginMigration, Importable, Candidate
<1>8. ASSUME NEW m \in Migrations, CreateKeyFile(m) PROVE StoredKeys'
  BY <1>8 DEF CreateKeyFile, MigrationsLock
<1>9. ASSUME NEW m \in Migrations, FillKeyFile(m) PROVE StoredKeys'
  BY <1>9 DEF FillKeyFile, MigrationsLock
<1>10. ASSUME NEW m \in Migrations, WriteToml(m) PROVE StoredKeys'
  BY <1>10 DEF WriteToml
<1>11. ASSUME NEW m \in Migrations, KeyAtHand(m) PROVE StoredKeys'
  BY <1>11 DEF KeyAtHand
<1>12. ASSUME NEW m \in Migrations, ImportSecrets(m) PROVE StoredKeys'
  BY <1>12 DEF ImportSecrets, HaveChosen
<1>13. ASSUME NEW m \in Migrations, MigrationFails(m) PROVE StoredKeys'
  BY <1>13 DEF MigrationFails, Undo, MigrationsLock
<1>14. CASE UNCHANGED keyVars
  BY <1>14 DEF keyVars
<1> QED
  BY <1>1, <1>2, <1>3, <1>4, <1>5, <1>6, <1>7, <1>8, <1>9, <1>10, <1>11, <1>12, <1>13, <1>14 DEF DeploymentKeyNext

LEMMA KeyBegins == DeploymentKeyInit => KeyInv
BY KeyConstants, HalfIsNoKey
   DEF DeploymentKeyInit, KeyInv, DeploymentKeyTypeOK, HaveChosen, MakersLock, MigrationsLock, MakersSawNone, StartersHaveStored,
       WritersHaveTheirs, WrittenHaveStored, Migrating, KeyProcesses, Keys, Stages

LEMMA KeyKeeps == KeyInv /\ [DeploymentKeyNext]_keyVars => KeyInv'
<1> SUFFICES ASSUME KeyInv, [DeploymentKeyNext]_keyVars PROVE KeyInv'
  OBVIOUS
<1>1. DeploymentKeyTypeOK' /\ HaveChosen' /\ MakersLock' /\ MigrationsLock' /\ MakersSawNone'
  BY KeyTypes, KeyLocks, MakersStep DEF KeyInv
<1> QED BY <1>1, StoredKeysStep DEF KeyInv, StoredKeys

\* One process makes a key and one migrates at a time, and whoever goes on with a key
\* has the one in the file.
THEOREM KeyInvariance == DeploymentKeySpec => []KeyInv
BY KeyBegins, KeyKeeps, PTL DEF DeploymentKeySpec

\* Every value of the store is under the key in the file, whoever starts, migrates,
\* fails or dies, unless one of the two crossings happened.
THEOREM KeyHoldsData == DeploymentKeySpec => []KeyStaysWithData
<1>1. KeyInv => KeyStaysWithData
  BY DEF KeyInv, KeyStaysWithData
<1> QED BY <1>1, KeyInvariance, PTL

\* The key's lock and the migration's are left by whoever holds them.
LEMMA KeyStepKeepsPromise ==
    ASSUME KeyInv, [DeploymentKeyNext]_keyVars
    PROVE  /\ (\E p \in KeyProcesses : \/ keyLock = NoKey /\ keyLock' = p
                                       \/ keyLock = p /\ keyLock' = NoKey)
              \/ UNCHANGED keyLock
           /\ (\E m \in Migrations : \/ migrationLock = NoKey /\ migrationLock' = m
                                     \/ migrationLock = m /\ migrationLock' = NoKey)
              \/ UNCHANGED migrationLock
<1>0. DeploymentKeyTypeOK /\ MakersLock /\ MigrationsLock
  BY DEF KeyInv
<1>1. ASSUME NEW p \in KeyProcesses, ReadStored(p) \/ SeeNoKey(p) \/ LockKey(p) \/ ReadCorrupt(p)
      PROVE  /\ UNCHANGED keyLock \/ (keyLock = NoKey /\ keyLock' = p) \/ (keyLock = p /\ keyLock' = NoKey)
             /\ UNCHANGED migrationLock
  BY <1>1 DEF ReadStored, SeeNoKey, LockKey, ReadCorrupt
<1>2. ASSUME NEW p \in KeyProcesses, CheckUnderLock(p) \/ RenameKey(p)
      PROVE  /\ UNCHANGED keyLock \/ (keyLock = p /\ keyLock' = NoKey)
             /\ UNCHANGED migrationLock
  BY <1>0, <1>2 DEF CheckUnderLock, LookAgain, RenameKey, MakersLock
<1>3. ASSUME NEW p \in KeyProcesses, KeyProcessDies(p)
      PROVE  /\ UNCHANGED keyLock \/ (keyLock = p /\ keyLock' = NoKey)
             /\ UNCHANGED migrationLock \/ (migrationLock = p /\ migrationLock' = NoKey)
  BY <1>3 DEF KeyProcessDies
<1>4. ASSUME NEW p \in Starters, StoreSecret(p) PROVE UNCHANGED <<keyLock, migrationLock>>
  BY <1>4 DEF StoreSecret
<1>5. ASSUME NEW m \in Migrations, BeginMigration(m)
      PROVE  UNCHANGED keyLock /\ (UNCHANGED migrationLock \/ (migrationLock = NoKey /\ migrationLock' = m))
  BY <1>5 DEF BeginMigration
<1>6. ASSUME NEW m \in Migrations, CreateKeyFile(m) \/ FillKeyFile(m) \/ WriteToml(m) \/ KeyAtHand(m)
      PROVE  UNCHANGED <<keyLock, migrationLock>>
  BY <1>6 DEF CreateKeyFile, FillKeyFile, WriteToml, KeyAtHand
<1>7. ASSUME NEW m \in Migrations, ImportSecrets(m) \/ MigrationFails(m)
      PROVE  /\ UNCHANGED keyLock \/ (keyLock = m /\ keyLock' = NoKey)
             /\ migrationLock = m /\ migrationLock' = NoKey
  <2>1. migrationLock = m
    BY <1>0, <1>7 DEF ImportSecrets, MigrationFails, MigrationsLock, Migrating
  <2> QED BY <1>7, <2>1 DEF ImportSecrets, MigrationFails, Undo
<1>8. \A m \in Migrations : m \in KeyProcesses
  BY DEF KeyProcesses
<1>9. \A p \in KeyProcesses : migrationLock = p => p \in Migrations \/ p = NoKey
  BY <1>0 DEF DeploymentKeyTypeOK
<1>10. \A p \in KeyProcesses : p # NoKey
  BY KeyConstants DEF KeyProcesses
<1>11. CASE UNCHANGED keyVars
  BY <1>11 DEF keyVars
<1>12. CASE DeploymentKeyNext
  BY <1>1, <1>2, <1>3, <1>4, <1>5, <1>6, <1>7, <1>8, <1>9, <1>10, <1>12 DEF DeploymentKeyNext
<1> QED BY <1>11, <1>12

\* Processes that make a key, and processes that import one, exclude one another.
THEOREM KeyLocksKeepPromise == DeploymentKeySpec => KeyLocksAreLocks
<1>1. DeploymentKeyInit => KeyAsLock!Init /\ MigrationAsLock!Init
  BY DEF DeploymentKeyInit, KeyAsLock!Init, MigrationAsLock!Init
<1>2. KeyInv /\ [DeploymentKeyNext]_keyVars => [KeyAsLock!Next]_keyLock /\ [MigrationAsLock!Next]_migrationLock
  BY KeyStepKeepsPromise
     DEF KeyAsLock!Next, KeyAsLock!Take, KeyAsLock!Leave, MigrationAsLock!Next, MigrationAsLock!Take, MigrationAsLock!Leave
<1> QED BY <1>1, <1>2, KeyInvariance, PTL
       DEF DeploymentKeySpec, KeyLocksAreLocks, KeyAsLock!Spec, MigrationAsLock!Spec

----------------------------------------------------------------------------
(* The stored settings.  A version that a process has read never lies      *)
(* ahead of the commits, so a commit of another process leaves every       *)
(* version behind, and what is read under one version is of one moment.    *)

Others(p) == (Readers \cup Importers) \ {p}

VersionsAreBehind(p) == \A q \in Others(p) : observed[p][q] <= writes[q]

Loading(p) == doing[p].at \in {"reading", "refreshing"}

ReadIsOfOneMoment(p) ==
    IF Loading(p)
    THEN /\ doing[p].version \in Versions(p)
         /\ \A q \in Others(p) : doing[p].version[q] <= writes[q]
         /\ doing[p].version = DataVersion(p) =>
               \A i \in 1..Len(doing[p].got) : doing[p].got[i] = Effective(p)[Settings[i]]
    ELSE doing[p].got = << >>

CopyIsCurrent(p) == Agreed(p) /\ observed[p] = DataVersion(p) => cached[p] = Effective(p)

PinnerIsFree(p) == doing[p].at \in {"refreshing", "pinning", "saving"} => "microsoft" \notin fixed[p]

ReaderInv(p) == VersionsAreBehind(p) /\ ReadIsOfOneMoment(p) /\ CopyIsCurrent(p) /\ PinnerIsFree(p)

\* Until the account has its application, everybody's copy is the one it was connected
\* with, and nobody is about to replace it.
AppIsKept ==
    before # NoValue /\ ~overwritten =>
       IF pin # NoValue THEN pin = before
       ELSE /\ stored["microsoft"] = before
            /\ \A p \in Readers :
                  /\ doing[p].at # "saving"
                  /\ "microsoft" \notin fixed[p] =>
                        cached[p]["microsoft"] = before /\ (Len(doing[p].got) = 2 => doing[p].got[2] = before)

SettingsInv == SettingsTypeOK /\ (\A p \in Readers : ReaderInv(p)) /\ AppIsKept

LEMMA SettingNamesAre == Len(Settings) = 2 /\ Settings[1] = "google" /\ Settings[2] = "microsoft"
BY DEF Settings

\* What the steps write as a process's doing is one.
LEMMA Beginnings ==
    ASSUME SettingsTypeOK, NEW p \in Readers
    PROVE  /\ Effective(p) \in Snapshots /\ DataVersion(p) \in Versions(p)
           /\ Idling \in Doings(p) /\ Idling.got = << >> /\ Idling.at = "idle" /\ Len(<< >>) <= Len(Settings)
           /\ \A at \in {"reading", "refreshing"} :
                 /\ Reading(p, at) \in Doings(p) /\ Reading(p, at).got = << >>
                 /\ Reading(p, at).at = at /\ Reading(p, at).version = DataVersion(p)
<1>1. Effective(p) \in Snapshots /\ DataVersion(p) \in Versions(p)
  BY DEF SettingsTypeOK, Effective, DataVersion, Versions, Snapshots, SettingNames, AnyValue
<1>2. << >> \in Seq(AnyValue)
  OBVIOUS
<1>3. Idling \in Doings(p) /\ Idling.got = << >> /\ Idling.at = "idle"
  BY <1>2 DEF Idling, Doings, SettingNames, AnyValue
<1>4. doing[p].setting \in SettingNames /\ doing[p].value \in AnyValue
  BY DEF SettingsTypeOK, Doings
<1>5. ASSUME NEW at \in {"reading", "refreshing"}
      PROVE  /\ Reading(p, at) \in Doings(p) /\ Reading(p, at).got = << >>
             /\ Reading(p, at).at = at /\ Reading(p, at).version = DataVersion(p)
  BY <1>1, <1>2, <1>4 DEF Reading, Doings
<1> QED BY <1>1, <1>3, <1>5, SettingNamesAre

\* A step of p that does something else.
LEMMA TypedStep ==
    ASSUME SettingsTypeOK, NEW p \in Readers, NEW d \in Doings(p), Len(d.got) <= Len(Settings),
           doing' = [doing EXCEPT ![p] = d],
           cached' \in [Readers -> Snapshots], DOMAIN observed' = Readers, \A q \in Readers : observed'[q] \in Versions(q),
           stored' \in Snapshots, writes' \in [Readers \cup Importers -> Nat], pin' \in AnyValue,
           UNCHANGED <<fixed, before, overwritten>>
    PROVE  SettingsTypeOK'
<1>1. \A q \in Readers : doing'[q] \in Doings(q) /\ Len(doing'[q].got) <= Len(Settings)
  BY DEF SettingsTypeOK
<1>2. DOMAIN doing = Readers
  BY DEF SettingsTypeOK
<1>3. doing' = [q \in Readers |-> doing'[q]]
  BY <1>2
<1> QED BY <1>1, <1>3 DEF SettingsTypeOK

LEMMA OneMoreRead ==
    ASSUME NEW S, NEW got \in Seq(S), Len(got) < Len(Settings), NEW value \in S
    PROVE  /\ Len(got) \in {0, 1} /\ Settings[Len(got) + 1] \in SettingNames
           /\ Append(got, value) \in Seq(S) /\ Len(Append(got, value)) = Len(got) + 1
           /\ Append(got, value)[Len(got) + 1] = value /\ \A i \in 1..Len(got) : Append(got, value)[i] = got[i]
<1>1. Len(got) \in Nat /\ Len(got) < 2
  BY SettingNamesAre
<1>2. Len(got) = 0 \/ Len(got) = 1
  BY <1>1
<1>3. Settings[Len(got) + 1] \in SettingNames
  <2>1. CASE Len(got) = 0
    BY <2>1, SettingNamesAre DEF SettingNames
  <2>2. CASE Len(got) = 1
    BY <2>2, SettingNamesAre DEF SettingNames
  <2> QED BY <1>2, <2>1, <2>2
<1> QED BY <1>2, <1>3

\* A doing at another stage.
LEMMA Redone ==
    ASSUME NEW p \in Readers, NEW d \in Doings(p)
    PROVE  /\ [d EXCEPT !.at = "pinning", !.got = << >>] \in Doings(p)
           /\ [d EXCEPT !.at = "pinning", !.got = << >>].got = << >>
           /\ [d EXCEPT !.at = "saving"] \in Doings(p) /\ [d EXCEPT !.at = "saving"].got = d.got
<1>1. << >> \in Seq(AnyValue)
  OBVIOUS
<1>2. [d EXCEPT !.at = "pinning", !.got = << >>] \in Doings(p) /\ [d EXCEPT !.at = "pinning", !.got = << >>].got = << >>
  BY <1>1 DEF Doings
<1>3. [d EXCEPT !.at = "saving"] \in Doings(p) /\ [d EXCEPT !.at = "saving"].got = d.got
  BY DEF Doings
<1> QED BY <1>2, <1>3

LEMMA SettingsTypes ==
    ASSUME SettingsTypeOK, \A p \in Readers : ReaderInv(p), [InstanceSettingsNext]_settingVars
    PROVE  SettingsTypeOK'
<1>t. /\ DOMAIN observed = Readers /\ stored \in Snapshots /\ writes \in [Readers \cup Importers -> Nat] /\ pin \in AnyValue
      /\ cached \in [Readers -> Snapshots] /\ SettingNames = {"google", "microsoft"}
      /\ \A p \in Readers : doing[p] \in Doings(p) /\ observed[p] \in Versions(p) /\ Len(doing[p].got) <= Len(Settings)
  BY DEF SettingsTypeOK, SettingNames
<1>1. ASSUME NEW p \in Readers, ReadOne(p) PROVE SettingsTypeOK'
  <2> DEFINE g == Append(doing[p].got, Effective(p)[Settings[Len(doing[p].got) + 1]])
             d == [doing[p] EXCEPT !.got = g]
  <2>1. doing' = [doing EXCEPT ![p] = d] /\ UNCHANGED <<stored, writes, fixed, cached, observed, pin, before, overwritten>>
    BY <1>1 DEF ReadOne
  <2>2. doing[p].got \in Seq(AnyValue) /\ Len(doing[p].got) < Len(Settings) /\ DOMAIN doing = Readers
    BY <1>1, <1>t DEF ReadOne, Doings, SettingsTypeOK
  <2>3. NoValue \in AnyValue
    BY DEF AnyValue
  <2>4. Len(doing[p].got) \in {0, 1} /\ Settings[Len(doing[p].got) + 1] \in SettingNames
    BY <2>2, <2>3, OneMoreRead
  <2>5. Effective(p)[Settings[Len(doing[p].got) + 1]] \in AnyValue
    BY <2>4, Beginnings DEF Snapshots
  <2>6. g \in Seq(AnyValue) /\ Len(g) <= Len(Settings)
    BY <2>2, <2>4, <2>5, OneMoreRead, SettingNamesAre
  <2>a. doing[p] \in Doings(p)
    BY <1>t
  <2> HIDE DEF g
  <2>7. d \in Doings(p) /\ d.got = g
    BY <2>a, <2>6 DEF Doings
  <2> HIDE DEF d
  <2> QED BY <2>1, <2>6, <2>7, <1>t, TypedStep
<1>2. ASSUME NEW p \in Readers, ReadAgain(p) PROVE SettingsTypeOK'
  <2>1. doing[p].at \in {"reading", "refreshing"}
    BY <1>2, SettingNamesAre DEF ReadAgain, ReadWhole, ReaderInv, ReadIsOfOneMoment, Loading
  <2>2. /\ doing' = [doing EXCEPT ![p] = Reading(p, doing[p].at)]
        /\ UNCHANGED <<stored, writes, fixed, cached, observed, pin, before, overwritten>>
    BY <1>2 DEF ReadAgain
  <2>3. Reading(p, doing[p].at) \in Doings(p) /\ Len(Reading(p, doing[p].at).got) <= Len(Settings)
    BY <2>1, Beginnings, SettingNamesAre
  <2> QED BY <1>t, <2>2, <2>3, TypedStep
<1>3. ASSUME NEW p \in Readers, RefreshIfChanged(p) PROVE SettingsTypeOK'
  BY <1>3, <1>t, Beginnings, TypedStep, SettingNamesAre DEF RefreshIfChanged
<1>4. ASSUME NEW p \in Readers, Reloaded(p) PROVE SettingsTypeOK'
  <2>1. doing[p].got \in Seq(AnyValue) /\ Len(doing[p].got) = 2
    BY <1>4, <1>t, SettingNamesAre DEF Reloaded, ReadWhole, Doings
  <2>2. NamedSettings(doing[p].got) \in Snapshots
    BY <2>1 DEF NamedSettings, Snapshots, SettingNames
  <2>3. /\ cached' \in [Readers -> Snapshots] /\ DOMAIN observed' = Readers
        /\ \A q \in Readers : observed'[q] \in Versions(q)
        /\ UNCHANGED <<stored, writes, fixed, pin, before, overwritten>>
    BY <1>4, <1>t, <2>2, Beginnings DEF Reloaded, SameVersion
  <2>5. CASE doing[p].at = "refreshing"
    <3> DEFINE e == [doing[p] EXCEPT !.at = "pinning", !.got = << >>]
    <3>1. doing' = [doing EXCEPT ![p] = e]
      BY <1>4, <2>5 DEF Reloaded
    <3>2. e \in Doings(p) /\ Len(e.got) <= Len(Settings)
      BY <1>t, <2>1, Redone, Beginnings
    <3> HIDE DEF e
    <3> QED BY <1>t, <2>3, <3>1, <3>2, TypedStep
  <2>6. CASE doing[p].at # "refreshing"
    <3>1. doing' = [doing EXCEPT ![p] = Idling]
      BY <1>4, <2>6 DEF Reloaded
    <3>2. Idling \in Doings(p) /\ Len(Idling.got) <= Len(Settings)
      BY Beginnings
    <3> QED BY <1>t, <2>3, <3>1, <3>2, TypedStep
  <2> QED BY <2>5, <2>6
<1>5. ASSUME NEW p \in Readers, PinAccounts(p) PROVE SettingsTypeOK'
  <2>1. [doing[p] EXCEPT !.at = "saving"] \in Doings(p) /\ [doing[p] EXCEPT !.at = "saving"].got = doing[p].got
    BY <1>t DEF Doings
  <2>2. /\ doing' = [doing EXCEPT ![p] = [doing[p] EXCEPT !.at = "saving"]]
        /\ UNCHANGED <<stored, fixed, cached, observed, before, overwritten>>
    BY <1>5 DEF PinAccounts
  <2>3. pin' \in AnyValue /\ writes' \in [Readers \cup Importers -> Nat]
    BY <1>5, <1>t DEF PinAccounts, Snapshots
  <2> QED BY <1>t, <2>1, <2>2, <2>3, TypedStep
<1>6. ASSUME NEW p \in Readers, SaveMicrosoft(p) PROVE SettingsTypeOK'
  <2>1. stored' \in Snapshots /\ writes' \in [Readers \cup Importers -> Nat]
    BY <1>6, <1>t DEF SaveMicrosoft, Snapshots, Doings
  <2>2. Reading(p, "reading") \in Doings(p) /\ Len(Reading(p, "reading").got) <= Len(Settings)
    BY Beginnings
  <2>3. doing' = [doing EXCEPT ![p] = Reading(p, "reading")] /\ UNCHANGED <<fixed, cached, observed, pin, before, overwritten>>
    BY <1>6 DEF SaveMicrosoft
  <2> QED BY <1>t, <2>1, <2>2, <2>3, TypedStep
<1>7. ASSUME NEW p \in Readers, NEW s \in SettingNames, NEW v \in AnyValue, Store(p, s, v) PROVE SettingsTypeOK'
  <2>1. stored' \in Snapshots /\ writes' \in [Readers \cup Importers -> Nat]
    BY <1>7, <1>t DEF Store, Snapshots
  <2> QED BY <1>7, <1>t, <2>1, Beginnings, TypedStep, SettingNamesAre DEF Store
<1>8. ASSUME NEW p \in Readers, NEW v \in AnyValue, ChangeMicrosoft(p, v) PROVE SettingsTypeOK'
  <2> DEFINE b == IF observed[p] # DataVersion(p) THEN Reading(p, "refreshing") ELSE [Idling EXCEPT !.at = "pinning"]
             d == [b EXCEPT !.setting = "microsoft", !.value = v]
  <2>1. /\ doing' = [doing EXCEPT ![p] = d]
        /\ UNCHANGED <<stored, writes, fixed, cached, observed, pin, before, overwritten>>
    BY <1>8 DEF ChangeMicrosoft
  <2>2. [Idling EXCEPT !.at = "pinning"] \in Doings(p) /\ [Idling EXCEPT !.at = "pinning"].got = << >>
    BY Beginnings DEF Doings
  <2>3. b \in Doings(p) /\ b.got = << >>
    BY <2>2, Beginnings
  <2> HIDE DEF b
  <2>4. d \in Doings(p) /\ d.got = << >>
    BY <2>3 DEF Doings, SettingNames
  <2> HIDE DEF d
  <2>5. Len(d.got) <= Len(Settings)
    BY <2>4, Beginnings
  <2> QED BY <1>t, <2>1, <2>4, <2>5, TypedStep
<1>9. ASSUME NEW m \in Importers, NEW values \in Snapshots, ImportValues(m, values) PROVE SettingsTypeOK'
  BY <1>9, <1>t DEF ImportValues, SettingsTypeOK, Snapshots
<1>10. CASE UNCHANGED settingVars
  BY <1>10 DEF settingVars, SettingsTypeOK
<1> QED BY <1>1, <1>2, <1>3, <1>4, <1>5, <1>6, <1>7, <1>8, <1>9, <1>10 DEF InstanceSettingsNext

\* A step of somebody else: what is stored changes with a commit, which leaves the
\* versions of all others behind.
LEMMA BystanderStep ==
    ASSUME SettingsTypeOK, SettingsTypeOK', NEW p \in Readers, ReaderInv(p),
           doing'[p] = doing[p], cached'[p] = cached[p], observed'[p] = observed[p], fixed' = fixed,
           \A q \in Others(p) : writes'[q] >= writes[q],
           stored' = stored \/ \E q \in Others(p) : writes'[q] > writes[q]
    PROVE  ReaderInv(p)'
<1>t. /\ observed[p] \in Versions(p) /\ DataVersion(p) = [q \in Others(p) |-> writes[q]] /\ DataVersion(p)' = [q \in Others(p) |-> writes'[q]]
      /\ \A q \in Others(p) : writes[q] \in Nat /\ writes'[q] \in Nat
      /\ Versions(p) = [Others(p) -> Nat]
  BY DEF SettingsTypeOK, DataVersion, Versions, Others
<1>1. VersionsAreBehind(p)' /\ PinnerIsFree(p)'
  BY <1>t DEF ReaderInv, VersionsAreBehind, PinnerIsFree, Versions, Others
\* A version that was behind is the present one only if nobody committed.
<1>2. ASSUME NEW v \in Versions(p), \A q \in Others(p) : v[q] <= writes[q], v = DataVersion(p)'
      PROVE  v = DataVersion(p) /\ stored' = stored
  <2>1. \A q \in Others(p) : v[q] = writes'[q] /\ v[q] = writes[q]
    BY <1>t, <1>2
  <2> QED BY <1>t, <2>1
<1>3. stored' = stored => Effective(p)' = Effective(p)
  BY DEF Effective
<1>4. CopyIsCurrent(p)'
  BY <1>t, <1>2, <1>3 DEF ReaderInv, VersionsAreBehind, CopyIsCurrent, Agreed
<1>5. ReadIsOfOneMoment(p)'
  <2>1. CASE Loading(p)
    <3>1. \A q \in Others(p) : doing[p].version[q] <= writes'[q]
      <4>1. doing[p].version \in Versions(p) /\ \A q \in Others(p) : doing[p].version[q] <= writes[q]
        BY <2>1 DEF ReaderInv, ReadIsOfOneMoment
      <4>2. \A q \in Others(p) : doing[p].version[q] \in Nat
        BY <4>1, <1>t
      <4> QED BY <1>t, <4>1, <4>2
    <3>2. doing[p].version = DataVersion(p)' => doing[p].version = DataVersion(p) /\ Effective(p)' = Effective(p)
      <4>1. doing[p].version \in Versions(p) /\ \A q \in Others(p) : doing[p].version[q] <= writes[q]
        BY <2>1 DEF ReaderInv, ReadIsOfOneMoment
      <4> QED BY <1>2, <1>3, <4>1
    <3> QED BY <2>1, <3>1, <3>2 DEF ReaderInv, ReadIsOfOneMoment, Loading, Others, Versions
  <2>2. CASE ~Loading(p)
    BY <2>2 DEF ReaderInv, ReadIsOfOneMoment, Loading
  <2> QED BY <2>1, <2>2
<1> QED BY <1>1, <1>4, <1>5 DEF ReaderInv

\* A step of p's own: no version that p can see moves.
LEMMA OwnVersion ==
    ASSUME NEW p \in Readers, \A q \in Others(p) : writes'[q] = writes[q]
    PROVE  DataVersion(p)' = DataVersion(p)
BY DEF DataVersion, Others

\* p begins to read.
LEMMA BeginsReading ==
    ASSUME SettingsTypeOK, NEW p \in Readers, ReaderInv(p), \A q \in Others(p) : writes'[q] = writes[q],
           doing'[p].at \in {"reading", "refreshing"}, doing'[p].version = DataVersion(p), doing'[p].got = << >>,
           UNCHANGED <<observed, fixed>>, doing'[p].at = "refreshing" => "microsoft" \notin fixed[p]
    PROVE  ReaderInv(p)'
<1>1. DataVersion(p)' = DataVersion(p) /\ DataVersion(p) \in Versions(p) /\ \A q \in Others(p) : DataVersion(p)[q] = writes[q] /\ writes[q] \in Nat
  BY OwnVersion, Beginnings DEF DataVersion, Others, SettingsTypeOK
<1>2. ReadIsOfOneMoment(p)'
  <2>1. Len(<< >>) = 0
    OBVIOUS
  <2> QED BY <1>1, <2>1 DEF ReadIsOfOneMoment, Loading, Others, Versions
<1> QED BY <1>1, <1>2 DEF ReaderInv, VersionsAreBehind, CopyIsCurrent, PinnerIsFree, Agreed, Others

LEMMA ReadersStep ==
    ASSUME SettingsTypeOK, SettingsTypeOK', \A p \in Readers : ReaderInv(p), [InstanceSettingsNext]_settingVars
    PROVE  \A p \in Readers : ReaderInv(p)'
<1>t. /\ writes \in [Readers \cup Importers -> Nat] /\ cached \in [Readers -> Snapshots] /\ DOMAIN observed = Readers
      /\ Readers \cap Importers = {} /\ DOMAIN doing = Readers
      /\ \A p \in Readers : doing[p] \in Doings(p) /\ doing'[p] \in Doings(p) /\ Len(doing[p].got) <= Len(Settings)
  BY SettingsConstants DEF SettingsTypeOK
<1>d. \A q \in Readers : q \in Readers \cup Importers
  OBVIOUS
\* A reader's step is a bystander's to the others; so it is about the reader alone.
<1>a. ASSUME NEW p \in Readers, ReaderInv(p)', UNCHANGED fixed,
             \A q \in Readers \ {p} : doing'[q] = doing[q] /\ cached'[q] = cached[q] /\ observed'[q] = observed[q],
             \A q \in (Readers \cup Importers) \ {p} : writes'[q] = writes[q],
             writes'[p] >= writes[p], stored' = stored \/ writes'[p] > writes[p]
      PROVE  \A q \in Readers : ReaderInv(q)'
  <2> SUFFICES ASSUME NEW q \in Readers \ {p} PROVE ReaderInv(q)'
    BY <1>a
  <2>1. p \in Others(q)
    BY DEF Others
  <2>2. \A r \in Others(q) : writes'[r] >= writes[r]
    BY <1>t, <1>a DEF Others
  <2> QED BY <1>a, <2>1, <2>2, BystanderStep
<1>1. ASSUME NEW p \in Readers, ReadOne(p) PROVE \A q \in Readers : ReaderInv(q)'
  <2>1. UNCHANGED <<stored, writes, fixed, cached, observed>> /\ Loading(p)
    BY <1>1 DEF ReadOne, Loading
  <2>2. /\ doing[p].got \in Seq(AnyValue) /\ Len(doing[p].got) < Len(Settings)
        /\ doing'[p] = [doing[p] EXCEPT !.got = Append(@, Effective(p)[Settings[Len(@) + 1]])]
    BY <1>1, <1>t DEF ReadOne, Doings
  <2>3. /\ doing'[p].got = Append(doing[p].got, Effective(p)[Settings[Len(doing[p].got) + 1]])
        /\ doing'[p].at = doing[p].at /\ doing'[p].version = doing[p].version
    BY <2>2, <1>t DEF Doings
  <2>4. Effective(p)' = Effective(p) /\ DataVersion(p)' = DataVersion(p)
    BY <2>1 DEF Effective, DataVersion
  <2>5. Effective(p)[Settings[Len(doing[p].got) + 1]] \in AnyValue
    <3>1. NoValue \in AnyValue
      BY DEF AnyValue
    <3> QED BY <2>2, <3>1, OneMoreRead, Beginnings DEF Snapshots
  <2> DEFINE value == Effective(p)[Settings[Len(doing[p].got) + 1]]
  <2>6. /\ Len(doing'[p].got) = Len(doing[p].got) + 1 /\ Len(doing[p].got) \in Nat
        /\ doing'[p].got[Len(doing[p].got) + 1] = value
        /\ \A i \in 1..Len(doing[p].got) : doing'[p].got[i] = doing[p].got[i]
    BY <2>2, <2>3, <2>5, OneMoreRead
  <2>7. ReadIsOfOneMoment(p)'
    <3>1. ASSUME doing[p].version = DataVersion(p), NEW i \in 1..Len(doing'[p].got)
          PROVE  doing'[p].got[i] = Effective(p)[Settings[i]]
      <4>1. i \in 1..Len(doing[p].got) \/ i = Len(doing[p].got) + 1
        BY <2>6
      <4> QED BY <4>1, <2>1, <2>6, <3>1 DEF ReaderInv, ReadIsOfOneMoment
    <3> QED BY <2>1, <2>3, <2>4, <3>1 DEF ReaderInv, ReadIsOfOneMoment, Loading, Others, Versions
  <2>8. ReaderInv(p)'
    BY <2>1, <2>3, <2>4, <2>7 DEF ReaderInv, VersionsAreBehind, CopyIsCurrent, PinnerIsFree, Agreed, Loading, Others
  <2>9. \A q \in Readers \ {p} : doing'[q] = doing[q]
    BY <1>1, <1>t DEF ReadOne
  <2>10. \A q \in Readers \cup Importers : writes'[q] >= writes[q]
    BY <2>1, <1>t
  <2> QED BY <2>1, <2>8, <2>9, <2>10, <1>a, <1>d
<1>2. ASSUME NEW p \in Readers, ReadAgain(p) \/ RefreshIfChanged(p) PROVE \A q \in Readers : ReaderInv(q)'
  <2>1. /\ UNCHANGED <<stored, writes, fixed, cached, observed>>
        /\ \E at \in {"reading", "refreshing"} :
              /\ doing' = [doing EXCEPT ![p] = Reading(p, at)]
              /\ at = "refreshing" => doing[p].at = "refreshing"
    BY <1>2, SettingNamesAre DEF ReadAgain, RefreshIfChanged, ReadWhole, ReaderInv, ReadIsOfOneMoment, Loading
  <2>2. doing'[p].at \in {"reading", "refreshing"} /\ doing'[p].version = DataVersion(p) /\ doing'[p].got = << >>
    BY <2>1, <1>t, Beginnings
  <2>3. ReaderInv(p)'
    BY <2>1, <2>2, <1>t, BeginsReading, Beginnings DEF ReaderInv, PinnerIsFree
  <2>4. \A q \in Readers \ {p} : doing'[q] = doing[q]
    BY <2>1, <1>t
  <2>5. \A q \in Readers \cup Importers : writes'[q] >= writes[q]
    BY <2>1, <1>t
  <2> QED BY <2>1, <2>3, <2>4, <2>5, <1>a, <1>d
<1>3. ASSUME NEW p \in Readers, Reloaded(p) PROVE \A q \in Readers : ReaderInv(q)'
  <2>1. /\ UNCHANGED <<stored, writes, fixed>> /\ Loading(p) /\ doing[p].version = DataVersion(p)
        /\ doing[p].got \in Seq(AnyValue) /\ Len(doing[p].got) = 2
    <3>1. UNCHANGED <<stored, writes, fixed>> /\ doing[p].version = DataVersion(p) /\ Len(doing[p].got) = 2
      BY <1>3, SettingNamesAre DEF Reloaded, ReadWhole, SameVersion
    <3>2. Loading(p)
      BY <3>1 DEF ReaderInv, ReadIsOfOneMoment
    <3>3. doing[p].got \in Seq(AnyValue)
      BY <1>t DEF Doings
    <3> QED BY <3>1, <3>2, <3>3
  <2>2. Effective(p)' = Effective(p) /\ DataVersion(p)' = DataVersion(p)
    BY <2>1 DEF Effective, DataVersion
  <2>3. NamedSettings(doing[p].got) = Effective(p)
    <3>1. doing[p].got[1] = Effective(p)["google"] /\ doing[p].got[2] = Effective(p)["microsoft"]
      BY <2>1, SettingNamesAre DEF ReaderInv, ReadIsOfOneMoment
    <3> QED BY <3>1 DEF NamedSettings, Effective, SettingNames
  <2>4. cached'[p] = Effective(p) /\ observed'[p] = DataVersion(p)
    BY <1>3, <1>t, <2>1, <2>3 DEF Reloaded
  <2>5. doing'[p].at \in {"pinning", "idle"} /\ doing'[p].got = << >> /\ (doing'[p].at = "pinning" => doing[p].at = "refreshing")
    <3> DEFINE d == doing[p]
    <3>1. d \in Doings(p) /\ doing'[p] = IF d.at = "refreshing" THEN [d EXCEPT !.at = "pinning", !.got = << >>] ELSE Idling
      BY <1>3, <1>t DEF Reloaded
    <3>2. Idling.got = << >> /\ Idling.at = "idle"
      BY DEF Idling
    <3> HIDE DEF d
    <3>3. [d EXCEPT !.at = "pinning", !.got = << >>].at = "pinning"
      BY <3>1 DEF Doings
    <3>4. [d EXCEPT !.at = "pinning", !.got = << >>].got = << >>
      BY <3>1, Redone
    <3>5. CASE d.at = "refreshing"
      BY <3>1, <3>3, <3>4, <3>5 DEF d
    <3>6. CASE d.at # "refreshing"
      BY <3>1, <3>2, <3>6
    <3> QED BY <3>5, <3>6
  <2>6. ReaderInv(p)'
    <3>1. VersionsAreBehind(p)'
      BY <2>1, <2>4, <1>t DEF VersionsAreBehind, DataVersion, Others
    <3>2. ReadIsOfOneMoment(p)'
      BY <2>5 DEF ReadIsOfOneMoment, Loading
    <3>3. CopyIsCurrent(p)' /\ PinnerIsFree(p)'
      BY <2>1, <2>2, <2>4, <2>5 DEF CopyIsCurrent, PinnerIsFree, ReaderInv
    <3> QED BY <3>1, <3>2, <3>3 DEF ReaderInv
  <2>7. \A q \in Readers \ {p} : doing'[q] = doing[q] /\ cached'[q] = cached[q] /\ observed'[q] = observed[q]
    BY <1>3, <1>t DEF Reloaded
  <2>8. \A q \in Readers \cup Importers : writes'[q] >= writes[q]
    BY <2>1, <1>t
  <2> QED BY <2>1, <2>6, <2>7, <2>8, <1>a, <1>d
<1>4. ASSUME NEW p \in Readers, PinAccounts(p) PROVE \A q \in Readers : ReaderInv(q)'
  <2>1. /\ UNCHANGED <<stored, fixed, cached, observed>> /\ doing[p].at = "pinning"
        /\ doing' = [doing EXCEPT ![p] = [doing[p] EXCEPT !.at = "saving"]]
    BY <1>4 DEF PinAccounts
  <2>2. doing'[p].at = "saving" /\ doing'[p].got = doing[p].got /\ \A q \in Readers \ {p} : doing'[q] = doing[q]
    <3>1. doing'[p] = [doing[p] EXCEPT !.at = "saving"] /\ \A q \in Readers \ {p} : doing'[q] = doing[q]
      BY <2>1, <1>t
    <3>2. doing[p] \in Doings(p)
      BY <1>t
    <3> QED BY <3>1, <3>2 DEF Doings
  <2>3. writes'[p] >= writes[p] /\ \A q \in (Readers \cup Importers) \ {p} : writes'[q] = writes[q]
    BY <1>4, <1>t DEF PinAccounts
  <2>4. ReaderInv(p)'
    BY <2>1, <2>2, <2>3 DEF ReaderInv, VersionsAreBehind, ReadIsOfOneMoment, CopyIsCurrent, PinnerIsFree, Loading, Agreed, Others
  <2> QED BY <2>1, <2>2, <2>3, <2>4, <1>a, <1>d
<1>5. ASSUME NEW p \in Readers,
             SaveMicrosoft(p) \/ \E s \in SettingNames, v \in AnyValue : Store(p, s, v)
      PROVE  \A q \in Readers : ReaderInv(q)'
  <2>1. /\ UNCHANGED <<fixed, cached, observed>> /\ writes' = [writes EXCEPT ![p] = @ + 1]
        /\ doing' = [doing EXCEPT ![p] = Reading(p, "reading")]
    BY <1>5 DEF SaveMicrosoft, Store
  <2>2. doing'[p].at = "reading" /\ doing'[p].version = DataVersion(p) /\ doing'[p].got = << >>
    BY <2>1, <1>t, Beginnings
  <2>3. writes'[p] > writes[p] /\ writes'[p] >= writes[p] /\ \A q \in (Readers \cup Importers) \ {p} : writes'[q] = writes[q]
    BY <2>1, <1>t
  <2>4. ReaderInv(p)'
    BY <2>1, <2>2, <2>3, BeginsReading DEF Others
  <2>5. \A q \in Readers \ {p} : doing'[q] = doing[q]
    BY <2>1, <1>t
  <2> QED BY <2>1, <2>3, <2>4, <2>5, <1>a, <1>d
<1>6. ASSUME NEW p \in Readers, NEW v \in AnyValue, ChangeMicrosoft(p, v) PROVE \A q \in Readers : ReaderInv(q)'
  <2>1. /\ UNCHANGED <<stored, writes, fixed, cached, observed>> /\ doing[p] = Idling /\ "microsoft" \notin fixed[p]
        /\ \A q \in Readers \ {p} : doing'[q] = doing[q]
    BY <1>6, <1>t DEF ChangeMicrosoft, Free
  <2>d. doing'[p] = [(IF observed[p] # DataVersion(p) THEN Reading(p, "refreshing") ELSE [Idling EXCEPT !.at = "pinning"])
                        EXCEPT !.setting = "microsoft", !.value = v]
    BY <1>6, <1>t DEF ChangeMicrosoft
  <2>q. \A q \in Others(p) : writes'[q] = writes[q]
    BY <2>1
  <2>2. ASSUME observed[p] # DataVersion(p) PROVE ReaderInv(p)'
    <3>1. doing'[p] = [Reading(p, "refreshing") EXCEPT !.setting = "microsoft", !.value = v]
      BY <2>d, <2>2
    <3>2. doing'[p].at = "refreshing" /\ doing'[p].version = DataVersion(p) /\ doing'[p].got = << >>
      BY <3>1 DEF Reading
    <3> QED BY <2>1, <2>q, <3>2, BeginsReading
  <2>3. ASSUME observed[p] = DataVersion(p) PROVE ReaderInv(p)'
    <3>1. doing'[p] = [[Idling EXCEPT !.at = "pinning"] EXCEPT !.setting = "microsoft", !.value = v]
      BY <2>d, <2>3
    <3>2. doing'[p].at = "pinning" /\ doing'[p].got = << >>
      BY <3>1 DEF Idling
    <3>3. Effective(p)' = Effective(p) /\ DataVersion(p)' = DataVersion(p)
      BY <2>1 DEF Effective, DataVersion
    <3>4. cached[p] = Effective(p)
      BY <2>1, <2>3, Beginnings DEF ReaderInv, CopyIsCurrent, Agreed
    <3>5. VersionsAreBehind(p)' /\ ReadIsOfOneMoment(p)'
      BY <2>1, <2>q, <3>2 DEF ReaderInv, VersionsAreBehind, ReadIsOfOneMoment, Loading, Others
    <3>6. CopyIsCurrent(p)' /\ PinnerIsFree(p)'
      BY <2>1, <3>3, <3>4 DEF CopyIsCurrent, PinnerIsFree
    <3> QED BY <3>5, <3>6 DEF ReaderInv
  <2>4. \A q \in Readers \cup Importers : writes'[q] >= writes[q]
    BY <2>1, <1>t
  <2> QED BY <2>1, <2>2, <2>3, <2>4, <1>a, <1>d
<1>7. ASSUME NEW m \in Importers, NEW values \in Snapshots, ImportValues(m, values)
      PROVE  \A q \in Readers : ReaderInv(q)'
  <2> SUFFICES ASSUME NEW q \in Readers PROVE ReaderInv(q)'
    OBVIOUS
  <2>1. UNCHANGED <<fixed, cached, observed, doing>> /\ writes[m] = 0 /\ writes' = [writes EXCEPT ![m] = 1]
    BY <1>7 DEF ImportValues
  <2>2. m \in Others(q) /\ writes'[m] > writes[m] /\ \A r \in Others(q) : writes'[r] >= writes[r]
    BY <2>1, <1>t DEF Others
  <2> QED BY <2>1, <2>2, BystanderStep
<1>8. CASE UNCHANGED settingVars
  <2> SUFFICES ASSUME NEW q \in Readers PROVE ReaderInv(q)'
    OBVIOUS
  <2>1. \A r \in Others(q) : writes'[r] >= writes[r]
    BY <1>8, <1>t DEF Others, settingVars
  <2> QED BY <1>8, <2>1, BystanderStep DEF settingVars
<1> QED BY <1>1, <1>2, <1>3, <1>4, <1>5, <1>6, <1>7, <1>8 DEF InstanceSettingsNext

\* The account keeps its application: whoever replaces the stored one has first given
\* the account the copy it has, and until then all copies are of the same one.
LEMMA AppStep ==
    ASSUME SettingsTypeOK, SettingsTypeOK', \A p \in Readers : ReaderInv(p), AppIsKept, [InstanceSettingsNext]_settingVars
    PROVE  AppIsKept'
<1>t. /\ stored \in Snapshots /\ cached \in [Readers -> Snapshots] /\ SettingNames = {"google", "microsoft"}
      /\ DOMAIN doing = Readers
      /\ \A p \in Readers : doing[p] \in Doings(p) /\ Len(doing[p].got) <= Len(Settings)
  BY DEF SettingsTypeOK, SettingNames
<1>b. UNCHANGED <<before, fixed>>
  BY DEF InstanceSettingsNext, settingVars, ReadOne, ReadAgain, Reloaded, RefreshIfChanged, PinAccounts, SaveMicrosoft,
         Store, ChangeMicrosoft, ImportValues
<1> DEFINE Kept == IF pin' # NoValue THEN pin' = before
                   ELSE /\ stored'["microsoft"] = before
                        /\ \A p \in Readers :
                              /\ doing'[p].at # "saving"
                              /\ "microsoft" \notin fixed[p] =>
                                    cached'[p]["microsoft"] = before /\ (Len(doing'[p].got) = 2 => doing'[p].got[2] = before)
<1> SUFFICES ASSUME before # NoValue, ~overwritten' PROVE Kept
  BY <1>b DEF AppIsKept
<1>1. ~overwritten
  <2>1. ASSUME NEW m \in Importers, NEW values \in Snapshots, ImportValues(m, values) PROVE ~overwritten
    BY <2>1 DEF ImportValues
  <2>2. CASE UNCHANGED overwritten
    BY <2>2
  <2> QED
    BY <2>1, <2>2 DEF InstanceSettingsNext, settingVars, ReadOne, ReadAgain, Reloaded, RefreshIfChanged, PinAccounts,
                      SaveMicrosoft, Store, ChangeMicrosoft
<1>2. CASE pin # NoValue
  <2>1. UNCHANGED pin
    BY <1>2 DEF InstanceSettingsNext, settingVars, ReadOne, ReadAgain, Reloaded, RefreshIfChanged, PinAccounts, SaveMicrosoft,
           Store, ChangeMicrosoft, ImportValues
  <2> QED BY <1>1, <1>2, <2>1 DEF AppIsKept
<1>3. CASE pin = NoValue
  <2>i. /\ stored["microsoft"] = before
        /\ \A p \in Readers :
              /\ doing[p].at # "saving"
              /\ "microsoft" \notin fixed[p] =>
                    cached[p]["microsoft"] = before /\ (Len(doing[p].got) = 2 => doing[p].got[2] = before)
    BY <1>1, <1>3 DEF AppIsKept
  \* What one reader does, the others' copies staying as they are.
  <2>a. ASSUME NEW p \in Readers, UNCHANGED pin, stored'["microsoft"] = before, doing'[p].at # "saving",
               \A q \in Readers \ {p} : doing'[q] = doing[q] /\ cached'[q] = cached[q],
               "microsoft" \notin fixed[p] =>
                   cached'[p]["microsoft"] = before /\ (Len(doing'[p].got) = 2 => doing'[p].got[2] = before)
        PROVE  Kept
    BY <1>3, <2>a, <2>i
  <2>1. ASSUME NEW p \in Readers, ReadOne(p) PROVE Kept
    <3>1. /\ UNCHANGED <<stored, cached, pin>> /\ Loading(p) /\ Len(doing[p].got) < Len(Settings)
          /\ doing'[p] = [doing[p] EXCEPT !.got = Append(@, Effective(p)[Settings[Len(@) + 1]])]
          /\ \A q \in Readers \ {p} : doing'[q] = doing[q]
      BY <2>1, <1>t DEF ReadOne, Loading
    <3>2. doing[p] \in Doings(p) /\ doing[p].got \in Seq(AnyValue)
      BY <1>t DEF Doings
    <3>3. doing'[p].at = doing[p].at /\ doing'[p].got = Append(doing[p].got, Effective(p)[Settings[Len(doing[p].got) + 1]])
      BY <3>1, <3>2 DEF Doings
    <3>4. NoValue \in AnyValue
      BY DEF AnyValue
    <3>l. Len(doing[p].got) \in {0, 1} /\ Settings[Len(doing[p].got) + 1] \in SettingNames
      BY <3>1, <3>2, <3>4, OneMoreRead
    <3>5. Effective(p)[Settings[Len(doing[p].got) + 1]] \in AnyValue
      BY <3>l, Beginnings DEF Snapshots
    <3>n. Len(doing'[p].got) = Len(doing[p].got) + 1
      BY <3>1, <3>2, <3>3, <3>5, OneMoreRead
    <3>6. doing'[p].got[Len(doing[p].got) + 1] = Effective(p)[Settings[Len(doing[p].got) + 1]]
      BY <3>1, <3>2, <3>3, <3>5, OneMoreRead
    <3>7. ASSUME "microsoft" \notin fixed[p], Len(doing'[p].got) = 2 PROVE doing'[p].got[2] = before
      <4>1. Len(doing[p].got) = 1
        BY <3>l, <3>n, <3>7, SMTT(30)
      <4>2. doing'[p].got[2] = Effective(p)["microsoft"]
        BY <3>6, <4>1, SettingNamesAre
      <4> QED BY <4>2, <3>7, <2>i DEF Effective, SettingNames
    <3> QED BY <2>a, <2>i, <3>1, <3>3, <3>7 DEF Loading
  <2>2. ASSUME NEW p \in Readers, ReadAgain(p) \/ RefreshIfChanged(p) PROVE Kept
    <3>1. /\ UNCHANGED <<stored, cached, pin>> /\ \A q \in Readers \ {p} : doing'[q] = doing[q]
          /\ \E at \in {"reading", "refreshing"} : doing'[p] = Reading(p, at)
      <4>1. CASE ReadAgain(p)
        <5>1. Loading(p)
          BY <4>1, SettingNamesAre DEF ReadAgain, ReadWhole, ReaderInv, ReadIsOfOneMoment
        <5> QED BY <4>1, <5>1, <1>t DEF ReadAgain, Loading
      <4>2. CASE RefreshIfChanged(p)
        BY <4>2, <1>t DEF RefreshIfChanged
      <4> QED BY <2>2, <4>1, <4>2
    <3>2. doing'[p].at # "saving" /\ doing'[p].got = << >> /\ Len(<< >>) # 2
      BY <3>1, Beginnings
    <3> QED BY <2>a, <2>i, <3>1, <3>2
  <2>3. ASSUME NEW p \in Readers, Reloaded(p) PROVE Kept
    <3>1. /\ UNCHANGED <<stored, pin>> /\ Len(doing[p].got) = 2
          /\ \A q \in Readers \ {p} : doing'[q] = doing[q] /\ cached'[q] = cached[q]
          /\ cached'[p] = NamedSettings(doing[p].got)
      BY <2>3, <1>t, SettingNamesAre DEF Reloaded, ReadWhole
    <3>2. cached'[p]["microsoft"] = doing[p].got[2]
      BY <3>1 DEF NamedSettings
    <3>3. doing'[p].at # "saving" /\ doing'[p].got = << >> /\ Len(<< >>) # 2
      <4>1. CASE doing[p].at = "refreshing"
        <5>1. doing'[p] = [doing[p] EXCEPT !.at = "pinning", !.got = << >>] /\ doing[p] \in Doings(p)
          BY <2>3, <4>1, <1>t DEF Reloaded
        <5> QED BY <5>1, Beginnings DEF Doings
      <4>2. CASE doing[p].at # "refreshing"
        <5>1. doing'[p] = Idling
          BY <2>3, <4>2, <1>t DEF Reloaded
        <5> QED BY <5>1, Beginnings
      <4> QED BY <4>1, <4>2
    <3> QED BY <2>a, <2>i, <3>1, <3>2, <3>3
  <2>4. ASSUME NEW p \in Readers, PinAccounts(p) PROVE Kept
    <3>1. "microsoft" \notin fixed[p] /\ pin' = cached[p]["microsoft"] /\ UNCHANGED before
      BY <2>4, <1>3 DEF PinAccounts, ReaderInv, PinnerIsFree
    <3> QED BY <3>1, <2>i
  <2>5. ASSUME NEW p \in Readers, SaveMicrosoft(p) PROVE Kept
    BY <2>5, <2>i DEF SaveMicrosoft
  <2>6. ASSUME NEW p \in Readers, NEW s \in SettingNames, NEW v \in AnyValue, Store(p, s, v) PROVE Kept
    <3>1. /\ UNCHANGED <<cached, pin>> /\ \A q \in Readers \ {p} : doing'[q] = doing[q]
          /\ doing'[p] = Reading(p, "reading") /\ stored'["microsoft"] = stored["microsoft"]
      BY <2>6, <1>t DEF Store, Snapshots
    <3>2. doing'[p].at # "saving" /\ doing'[p].got = << >> /\ Len(<< >>) # 2
      BY <3>1, Beginnings
    <3> QED BY <2>a, <2>i, <3>1, <3>2
  <2>7. ASSUME NEW p \in Readers, NEW v \in AnyValue, ChangeMicrosoft(p, v) PROVE Kept
    <3> DEFINE b == IF observed[p] # DataVersion(p) THEN Reading(p, "refreshing") ELSE [Idling EXCEPT !.at = "pinning"]
    <3>1. /\ UNCHANGED <<stored, cached, pin>> /\ \A q \in Readers \ {p} : doing'[q] = doing[q]
          /\ doing'[p] = [b EXCEPT !.setting = "microsoft", !.value = v]
      BY <2>7, <1>t DEF ChangeMicrosoft
    <3>2. b \in Doings(p) /\ b.at # "saving" /\ b.got = << >>
      <4>1. [Idling EXCEPT !.at = "pinning"] \in Doings(p) /\ [Idling EXCEPT !.at = "pinning"].got = << >>
            /\ [Idling EXCEPT !.at = "pinning"].at = "pinning"
        BY Beginnings DEF Doings
      <4> QED BY <4>1, Beginnings
    <3> HIDE DEF b
    <3>3. doing'[p].at # "saving" /\ doing'[p].got = << >> /\ Len(<< >>) # 2
      BY <3>1, <3>2 DEF Doings
    <3> QED BY <2>a, <2>i, <3>1, <3>3
  <2>8. ASSUME NEW m \in Importers, NEW values \in Snapshots, ImportValues(m, values) PROVE Kept
    BY <2>8, <1>1, <1>3, <2>i DEF ImportValues
  <2>9. CASE UNCHANGED settingVars
    BY <2>9, <1>3, <2>i DEF settingVars
  <2> HIDE DEF Kept
  <2> QED BY <2>1, <2>2, <2>3, <2>4, <2>5, <2>6, <2>7, <2>8, <2>9 DEF InstanceSettingsNext
<1> QED BY <1>2, <1>3

LEMMA SettingsBegin == InstanceSettingsInit => SettingsInv
<1> SUFFICES ASSUME InstanceSettingsInit PROVE SettingsInv
  OBVIOUS
<1>1. stored \in Snapshots
  <2>1. (CHOOSE v \in Values : TRUE) \in Values
    BY SettingsConstants
  <2> QED BY <2>1 DEF InstanceSettingsInit, Snapshots, AnyValue
<1>2. /\ writes = [q \in Readers \cup Importers |-> 0] /\ fixed \in [Readers -> SUBSET SettingNames]
      /\ pin = NoValue /\ before = stored["microsoft"] /\ overwritten = FALSE
      /\ cached = [p \in Readers |-> Effective(p)] /\ observed = [p \in Readers |-> DataVersion(p)]
      /\ doing = [p \in Readers |-> Idling]
  BY DEF InstanceSettingsInit, SettingNames
<1>3. \A p \in Readers : Effective(p) \in Snapshots /\ DataVersion(p) \in Versions(p)
  BY <1>1, <1>2 DEF Effective, DataVersion, Versions, Snapshots, AnyValue
<1>4. /\ Idling.got = << >> /\ Len(<< >>) = 0 /\ Idling.at = "idle"
      /\ \A p \in Readers : Idling \in Doings(p)
  <2>1. << >> \in Seq(AnyValue)
    OBVIOUS
  <2> QED BY <2>1 DEF Idling, Doings, SettingNames, AnyValue
<1>5. SettingsTypeOK
  <2>1. pin \in AnyValue /\ before \in AnyValue /\ overwritten \in BOOLEAN
    BY <1>1, <1>2 DEF Snapshots, SettingNames, AnyValue
  <2>2. writes \in [Readers \cup Importers -> Nat] /\ cached \in [Readers -> Snapshots] /\ DOMAIN observed = Readers
    BY <1>2, <1>3
  <2>3. doing = [p \in Readers |-> doing[p]]
    BY <1>2
  <2>4. \A p \in Readers : observed[p] \in Versions(p) /\ doing[p] \in Doings(p) /\ Len(doing[p].got) <= Len(Settings)
    BY <1>2, <1>3, <1>4, SettingNamesAre
  <2> QED BY <1>1, <1>2, <2>1, <2>2, <2>3, <2>4 DEF SettingsTypeOK
<1>6. ASSUME NEW p \in Readers PROVE ReaderInv(p)
  <2>1. doing[p].at = "idle" /\ doing[p].got = << >> /\ cached[p] = Effective(p) /\ observed[p] = DataVersion(p)
    BY <1>2, <1>4
  <2>2. \A q \in Others(p) : observed[p][q] = writes[q] /\ writes[q] = 0
    BY <1>2, <2>1 DEF DataVersion, Others
  <2> QED BY <2>1, <2>2 DEF ReaderInv, VersionsAreBehind, ReadIsOfOneMoment, Loading, CopyIsCurrent, PinnerIsFree
<1>7. AppIsKept
  BY <1>2, <1>4 DEF AppIsKept, Effective, SettingNames
<1> QED BY <1>5, <1>6, <1>7 DEF SettingsInv

LEMMA SettingsStep == SettingsInv /\ [InstanceSettingsNext]_settingVars => SettingsInv'
BY SettingsTypes, ReadersStep, AppStep DEF SettingsInv

\* A copy read under the present version is what is stored, and an account without an
\* application of its own is still served by the one it was connected with.
THEOREM SettingsInvariance == InstanceSettingsSpec => []SettingsInv
BY SettingsBegin, SettingsStep, PTL DEF InstanceSettingsSpec

\* For any number of processes and migrations, an old account goes on with the application
\* it was connected with, unless a migration replaced it.
THEOREM OldAccountsKeepTheirApp == InstanceSettingsSpec => []AccountsKeepTheirApp
<1>1. SettingsInv => AccountsKeepTheirApp
  BY DEF SettingsInv, AppIsKept, AccountsKeepTheirApp
<1> QED BY <1>1, SettingsInvariance, PTL

\* What a process has just read is what is stored, from one moment.
THEOREM CopiesFollow == InstanceSettingsSpec => SettingsTakeEffect
<1> DEFINE Follows == \A p \in Readers :
                         Agreed(p)' /\ (ReadWhole(p) \/ (observed[p] = DataVersion(p))') => (cached[p] = Effective(p))'
<1>1. ASSUME SettingsInv, SettingsInv', [InstanceSettingsNext]_settingVars PROVE Follows
  <2> SUFFICES ASSUME NEW p \in Readers, Agreed(p)', ReadWhole(p) \/ observed'[p] = DataVersion(p)'
               PROVE  cached'[p] = Effective(p)'
    OBVIOUS
  <2>1. CASE observed'[p] = DataVersion(p)'
    BY <1>1, <2>1 DEF SettingsInv, ReaderInv, CopyIsCurrent
  <2>2. CASE ReadWhole(p)
    <3>t. DOMAIN doing = Readers /\ DOMAIN observed = Readers
      BY <1>1 DEF SettingsInv, SettingsTypeOK
    <3>1. Loading(p) /\ doing'[p].at \in {"idle", "pinning"}
      BY <1>1, <2>2, SettingNamesAre DEF SettingsInv, ReaderInv, ReadIsOfOneMoment, ReadWhole, Agreed
    <3>2. doing'[p] # doing[p]
      BY <3>1 DEF Loading
    <3>3. PICK q \in Readers : \/ ReadOne(q) \/ ReadAgain(q) \/ Reloaded(q) \/ RefreshIfChanged(q)
                               \/ PinAccounts(q) \/ SaveMicrosoft(q)
                               \/ \E s \in SettingNames, v \in AnyValue : Store(q, s, v)
                               \/ \E v \in AnyValue : ChangeMicrosoft(q, v)
      BY <1>1, <3>2 DEF InstanceSettingsNext, ImportValues, settingVars
    <3>4. q = p
      BY <3>2, <3>3, <3>t DEF ReadOne, ReadAgain, Reloaded, RefreshIfChanged, PinAccounts, SaveMicrosoft, Store, ChangeMicrosoft
    <3>5. doing[p] # Idling /\ doing[p].at \notin {"pinning", "saving"}
      BY <3>1 DEF Loading, Idling
    <3>6. ReadOne(p) \/ ReadAgain(p) \/ Reloaded(p)
      BY <3>3, <3>4, <3>5 DEF RefreshIfChanged, PinAccounts, SaveMicrosoft, Store, ChangeMicrosoft
    <3>7. ~ReadOne(p)
      BY <2>2 DEF ReadOne, ReadWhole
    <3>8. ~ReadAgain(p)
      BY <1>1, <3>1, <3>t, Beginnings DEF ReadAgain, Loading, SettingsInv
    <3>9. observed'[p] = doing[p].version /\ doing[p].version = DataVersion(p) /\ UNCHANGED writes
      BY <3>6, <3>7, <3>8, <3>t DEF Reloaded, SameVersion
    <3>10. observed'[p] = DataVersion(p)'
      BY <3>9 DEF DataVersion
    <3> QED BY <1>1, <3>10 DEF SettingsInv, ReaderInv, CopyIsCurrent
  <2> QED BY <2>1, <2>2
<1>2. SettingsInv /\ SettingsInv' /\ [InstanceSettingsNext]_settingVars => [Follows]_settingVars
  BY <1>1
<1> QED BY <1>2, SettingsInvariance, PTL DEF InstanceSettingsSpec, SettingsTakeEffect

-----------------------------------------------------------------------------
(* Publishing: what is out is out in the order of the stages, so an attempt that *)
(* dies leaves a prefix of them, and a stage moves a channel only when no newer  *)
(* version has it.                                                               *)

Published(v) == githubRelease[v] = "published"

\* A package's tag names its newest version, an image has all its packages, a
\* version of the registry has its image and the channel, a published one all of it.
OutInOrder ==
    /\ \A p \in Packages : \A w \in onNpm[p] : npmTag[p] >= w
    /\ \A w \in images : Missing(w) = {}
    /\ imageChannel # NoVersion => imageChannel \in images
    /\ \A w \in inRegistry : w \in images /\ imageChannel >= w
    /\ \A w \in ReleaseVersion : Published(w) => w \in inRegistry /\ gitTag[w] # "none"
    /\ latestRelease # NoVersion => Published(latestRelease)

\* The plugin follows the tag of the main package.
PluginFollows ==
    /\ pluginBranch <= npmTag[MainPackage] /\ pluginJob <= npmTag[MainPackage]
    /\ pluginJob # NoVersion => pluginBranch <= pluginJob

\* What an attempt may rely on at the stage it has reached.
AttemptKnows ==
    LET v == publishing.version
        at == publishing.stage
    IN  /\ at # "none" => v \in ReleaseVersion
        /\ at = "packages" /\ publishing.missing # {} => \A p \in Packages : npmTag[p] <= v
        /\ at \in {"image", "channel"} /\ ~publishing.historical => \A p \in Packages : npmTag[p] = v
        /\ at \notin {"none", "packages"} => Missing(v) = {}
        /\ at \notin {"none", "packages", "image"} => v \in images
        /\ at \in {"registry", "registered", "tag", "announce", "verify"} => imageChannel >= v
        /\ at \in {"registered", "tag", "announce", "verify"} => v \in inRegistry
        /\ at = "announce" => gitTag[v] # "none"

ReleaseInv == ReleaseTypeOK /\ OutInOrder /\ PluginFollows /\ AttemptKnows

AttemptStages == {"none", "packages", "image", "channel", "core", "registry", "registered", "tag", "announce", "verify"}
Attempts ==
    [version : {NoVersion} \cup ReleaseVersion, stage : AttemptStages, missing : SUBSET Packages, historical : BOOLEAN,
     seen : {"missing", "draft", "foreign", "spoiled", "published"}]

LEMMA ReleaseNumbers ==
    /\ NoVersion = 0 /\ ReleaseVersion \subseteq Nat /\ \A w \in ReleaseVersion : w >= 1 /\ w # NoVersion
    /\ MainPackage \in Packages
<1>1. \A w \in ReleaseVersion : w \in Nat /\ w >= 1
  BY ReleasePublishingAssumption DEF ReleaseVersion
<1>2. Len(PackageOrder) \in DOMAIN PackageOrder
  BY ReleasePublishingAssumption
<1> QED BY <1>1, <1>2, ReleasePublishingAssumption DEF MainPackage, Packages

LEMMA ReleaseTypes ==
    ASSUME ReleaseTypeOK
    PROVE  /\ onNpm \in [Packages -> SUBSET ReleaseVersion] /\ npmTag \in [Packages -> Nat]
           /\ \A p \in Packages : npmTag[p] \in {NoVersion} \cup ReleaseVersion
           /\ images \subseteq ReleaseVersion /\ inRegistry \subseteq ReleaseVersion
           /\ imageChannel \in Nat /\ latestRelease \in Nat /\ pluginBranch \in Nat /\ pluginJob \in Nat
           /\ {imageChannel, latestRelease, pluginBranch, pluginJob} \subseteq {NoVersion} \cup ReleaseVersion
           /\ gitTag \in [ReleaseVersion -> {"none", "approved", "other"}]
           /\ githubRelease \in [ReleaseVersion -> {"missing", "draft", "foreign", "spoiled", "published"}]
           /\ publishing \in Attempts
<1>1. {NoVersion} \cup ReleaseVersion \subseteq Nat
  BY ReleaseNumbers
<1>2. /\ onNpm \in [Packages -> SUBSET ReleaseVersion] /\ npmTag \in [Packages -> {NoVersion} \cup ReleaseVersion]
      /\ images \subseteq ReleaseVersion /\ inRegistry \subseteq ReleaseVersion
      /\ {imageChannel, latestRelease, pluginBranch, pluginJob} \subseteq {NoVersion} \cup ReleaseVersion
      /\ gitTag \in [ReleaseVersion -> {"none", "approved", "other"}]
      /\ githubRelease \in [ReleaseVersion -> {"missing", "draft", "foreign", "spoiled", "published"}]
      /\ publishing \in Attempts
  BY DEF ReleaseTypeOK, Attempts, AttemptStages
<1>3. npmTag \in [Packages -> Nat] /\ \A p \in Packages : npmTag[p] \in {NoVersion} \cup ReleaseVersion
  BY <1>1, <1>2
<1> QED BY <1>1, <1>2, <1>3

\* A step of the attempt alone keeps everything that is out.
LEMMA AttemptSteps ==
    ASSUME ReleaseInv, UNCHANGED <<destinationVars, pluginVars>>, publishing' \in Attempts, AttemptKnows'
    PROVE  ReleaseInv'
<1>1. ReleaseTypeOK'
  BY DEF ReleaseInv, ReleaseTypeOK, Attempts, AttemptStages, destinationVars, pluginVars
<1>2. OutInOrder' /\ PluginFollows'
  BY DEF ReleaseInv, OutInOrder, PluginFollows, Missing, Published, destinationVars, pluginVars
<1> QED BY <1>1, <1>2 DEF ReleaseInv

LEMMA AttemptStops ==
    ASSUME ReleaseInv, UNCHANGED <<destinationVars, pluginVars>>, publishing' = NotPublishing
    PROVE  ReleaseInv'
<1>1. publishing' \in Attempts
  BY DEF NotPublishing, Attempts, AttemptStages
<1>2. publishing'.stage = "none"
  BY DEF NotPublishing
<1>3. AttemptKnows'
  BY <1>2 DEF AttemptKnows
<1> QED BY <1>1, <1>3, AttemptSteps

\* What the plan of an attempt finds, when it finds no inconsistency.
LEMMA PlanFinds ==
    ASSUME ReleaseInv, NEW v \in ReleaseVersion
    PROVE  /\ ~NpmInconsistent(v) /\ Missing(v) # {} => \A p \in Packages : npmTag[p] <= v
           /\ ~NpmInconsistent(v) /\ ~Historical(v) /\ Missing(v) = {} => \A p \in Packages : npmTag[p] = v
           /\ ~Inconsistent(v) /\ ~PublishNpmOrDocker(v) =>
                 Missing(v) = {} /\ v \in images /\ imageChannel >= v
<1>t. v \in Nat /\ npmTag \in [Packages -> Nat] /\ MainPackage \in Packages /\ imageChannel \in Nat
  BY ReleaseTypes, ReleaseNumbers DEF ReleaseInv
<1>1. ASSUME ~NpmInconsistent(v), Missing(v) # {} PROVE \A p \in Packages : npmTag[p] <= v
  <2>1. ~Historical(v)
    BY <1>1 DEF Historical
  <2>2. ~ \E p \in Packages : npmTag[p] > v
    BY <1>1, <2>1 DEF NpmInconsistent
  <2> QED BY <1>t, <2>2
<1>2. ASSUME ~NpmInconsistent(v), ~Historical(v), Missing(v) = {} PROVE \A p \in Packages : npmTag[p] = v
  BY <1>2 DEF NpmInconsistent, Mismatched, Missing
<1>3. ASSUME ~Inconsistent(v), ~PublishNpmOrDocker(v) PROVE Missing(v) = {} /\ v \in images /\ imageChannel >= v
  <2>1. Missing(v) = {} /\ v \in images /\ (Historical(v) \/ ChannelMatches(v))
    BY <1>3 DEF PublishNpmOrDocker
  <2>2. ChannelMatches(v)
    BY <1>3, <2>1 DEF Inconsistent
  <2>3. imageChannel = ChannelVersion(v)
    BY <2>2 DEF ChannelMatches
  <2>4. CASE Historical(v)
    <3>1. PICK newer \in ReleaseVersion : newer > v /\ \A p \in Packages : npmTag[p] = newer
      BY <2>4 DEF Historical
    <3>2. imageChannel = newer
      BY <1>t, <2>3, <2>4, <3>1 DEF ChannelVersion
    <3> QED BY <1>t, <2>1, <3>1, <3>2, ReleaseNumbers
  <2>5. CASE ~Historical(v)
    <3>1. imageChannel = v
      BY <2>3, <2>5 DEF ChannelVersion
    <3> QED BY <1>t, <2>1, <3>1
  <2> QED BY <2>4, <2>5
<1> QED BY <1>1, <1>2, <1>3

\* An attempt that inspected the destinations goes on at a stage they allow.
LEMMA AttemptBegins ==
    ASSUME ReleaseInv, UNCHANGED <<destinationVars, pluginVars>>, NEW v \in ReleaseVersion,
           NEW at \in {"packages", "registry", "tag", "verify"}, publishing' = AttemptAt(v, at),
           at = "packages" => (Missing(v) # {} => \A p \in Packages : npmTag[p] <= v),
           at # "packages" => Missing(v) = {} /\ v \in images /\ imageChannel >= v,
           at \in {"tag", "verify"} => v \in inRegistry
    PROVE  ReleaseInv'
<1>1. /\ publishing'.version = v /\ publishing'.stage = at /\ publishing'.missing = Missing(v)
  BY DEF AttemptAt
<1>2. publishing' \in Attempts
  <2>1. Missing(v) \in SUBSET Packages /\ Historical(v) \in BOOLEAN
    BY DEF Missing, Historical
  <2>2. githubRelease[v] \in {"missing", "draft", "foreign", "spoiled", "published"}
    BY ReleaseTypes DEF ReleaseInv
  <2> QED BY <2>1, <2>2 DEF AttemptAt, Attempts, AttemptStages
<1>3. AttemptKnows'
  BY <1>1 DEF AttemptKnows, Missing, destinationVars, pluginVars
<1> QED BY <1>2, <1>3, AttemptSteps

LEMMA StageAfterImage ==
    ASSUME NEW v
    PROVE  /\ AfterRegistry(v) \in {"tag", "verify"}
           /\ AfterImage(v) \in {"registry", "tag", "verify"}
           /\ AfterImage(v) \in {"tag", "verify"} => v \in inRegistry
BY DEF AfterImage, AfterRegistry

LEMMA BeginPublishKeeps == ASSUME ReleaseInv, NEW v \in ReleaseVersion, BeginPublish(v) PROVE ReleaseInv'
<1>1. ~Inconsistent(v) /\ UNCHANGED <<destinationVars, pluginVars>>
  BY DEF BeginPublish
<1>2. ~NpmInconsistent(v)
  BY <1>1 DEF Inconsistent
<1>3. CASE PublishNpmOrDocker(v)
  <2>1. publishing' = AttemptAt(v, "packages")
    BY <1>3 DEF BeginPublish
  <2> QED BY <1>1, <1>2, <2>1, PlanFinds, AttemptBegins
<1>4. CASE ~PublishNpmOrDocker(v)
  <2>1. PICK at \in {"registry", "tag", "verify"} : at = AfterImage(v) /\ (at \in {"tag", "verify"} => v \in inRegistry)
    BY StageAfterImage
  <2>2. publishing' = AttemptAt(v, at)
    BY <1>4, <2>1 DEF BeginPublish
  <2> QED BY <1>1, <1>4, <2>1, <2>2, PlanFinds, AttemptBegins
<1> QED BY <1>3, <1>4


LEMMA PublishPackageKeeps == ASSUME ReleaseInv, PublishPackage PROVE ReleaseInv'
<1> DEFINE v == publishing.version
<1>1. PICK i \in DOMAIN PackageOrder :
          /\ publishing.stage = "packages" /\ PackageOrder[i] \in publishing.missing
          /\ onNpm' = [onNpm EXCEPT ![PackageOrder[i]] = @ \cup {v}]
          /\ npmTag' = [npmTag EXCEPT ![PackageOrder[i]] = v]
          /\ publishing' = [publishing EXCEPT !.missing = @ \ {PackageOrder[i]}]
  BY DEF PublishPackage
<1>u. UNCHANGED <<images, imageChannel, inRegistry, gitTag, githubRelease, latestRelease, pluginVars>>
  BY DEF PublishPackage
<1>2. PICK p \in Packages : p = PackageOrder[i]
  BY DEF Packages
<1>v. v \in ReleaseVersion /\ v \in Nat /\ \A q \in Packages : npmTag[q] <= v
  BY <1>1, ReleaseNumbers DEF ReleaseInv, AttemptKnows
<1>t. /\ onNpm \in [Packages -> SUBSET ReleaseVersion] /\ npmTag \in [Packages -> Nat]
      /\ publishing \in Attempts /\ pluginBranch \in Nat /\ pluginJob \in Nat
  BY ReleaseTypes DEF ReleaseInv
<1>3. \A q \in Packages : /\ onNpm'[q] = IF q = p THEN onNpm[q] \cup {v} ELSE onNpm[q]
                          /\ npmTag'[q] = IF q = p THEN v ELSE npmTag[q]
  BY <1>1, <1>2, <1>t
<1>4. ReleaseTypeOK'
  <2>1. onNpm' \in [Packages -> SUBSET ReleaseVersion]
    BY <1>1, <1>2, <1>v, <1>t
  <2>2. npmTag' \in [Packages -> {NoVersion} \cup ReleaseVersion]
    <3>1. npmTag \in [Packages -> {NoVersion} \cup ReleaseVersion]
      BY DEF ReleaseInv, ReleaseTypeOK
    <3> QED BY <1>1, <1>2, <1>v, <3>1
  <2>3. publishing' \in Attempts
    BY <1>1, <1>t DEF Attempts
  <2> QED BY <1>u, <2>1, <2>2, <2>3 DEF ReleaseInv, ReleaseTypeOK, Attempts, AttemptStages, pluginVars
<1>5. \A q \in Packages : npmTag'[q] >= npmTag[q] /\ npmTag'[q] <= v
  <2> SUFFICES ASSUME NEW q \in Packages PROVE npmTag'[q] >= npmTag[q] /\ npmTag'[q] <= v
    OBVIOUS
  <2>1. npmTag[q] \in Nat /\ npmTag[q] <= v
    BY <1>t, <1>v
  <2>2. npmTag'[q] = v \/ npmTag'[q] = npmTag[q]
    BY <1>3
  <2> HIDE DEF v
  <2> QED BY <1>v, <2>1, <2>2
<1>6. OutInOrder'
  <2>1. (\A q \in Packages : \A w \in onNpm[q] : npmTag[q] >= w)'
    <3> SUFFICES ASSUME NEW q \in Packages, NEW w \in onNpm'[q] PROVE npmTag'[q] >= w
      OBVIOUS
    <3>1. CASE w \in onNpm[q]
      <4>1. w \in Nat /\ npmTag[q] >= w
        BY <1>t, <3>1, ReleaseNumbers DEF ReleaseInv, OutInOrder
      <4>2. npmTag[q] \in Nat /\ npmTag'[q] \in Nat
        BY <1>t, <1>3, <1>v
      <4> QED BY <4>1, <4>2, <1>5
    <3>2. CASE w \notin onNpm[q]
      <4>1. q = p /\ w = v /\ npmTag'[q] = v
        BY <1>3, <3>2
      <4> HIDE DEF v
      <4> QED BY <1>v, <4>1
    <3> QED BY <3>1, <3>2
  <2>2. \A w : Missing(w) = {} => (Missing(w) = {})'
    BY <1>3 DEF Missing
  <2>3. (\A w \in images : Missing(w) = {})'
    <3>1. \A w \in images : Missing(w) = {}
      BY DEF ReleaseInv, OutInOrder
    <3>2. SUFFICES ASSUME NEW w \in images PROVE (Missing(w) = {})'
      BY <1>u
    <3> QED BY <2>2, <3>1
  <2> QED BY <1>u, <2>1, <2>3 DEF ReleaseInv, OutInOrder, Published
<1>7. PluginFollows'
  <2>1. npmTag'[MainPackage] >= npmTag[MainPackage] /\ npmTag[MainPackage] \in Nat /\ npmTag'[MainPackage] \in Nat
    BY <1>3, <1>5, <1>t, <1>v, ReleaseNumbers
  <2> QED BY <1>t, <1>u, <2>1 DEF ReleaseInv, PluginFollows, pluginVars
<1>8. AttemptKnows'
  <2>1. publishing'.version = v /\ publishing'.stage = "packages"
    BY <1>1, <1>t DEF Attempts
  <2> QED BY <1>5, <1>v, <2>1 DEF AttemptKnows
<1> QED BY <1>4, <1>6, <1>7, <1>8 DEF ReleaseInv

LEMMA ConfirmPackagesKeeps == ASSUME ReleaseInv, ConfirmPackages PROVE ReleaseInv'
<1> DEFINE v == publishing.version
<1>1. publishing.stage = "packages" /\ UNCHANGED <<destinationVars, pluginVars>>
  BY DEF ConfirmPackages
<1>2. CASE publishing' = NotPublishing
  BY <1>1, <1>2, AttemptStops
<1>3. CASE publishing' # NotPublishing
  <2>1. /\ Missing(v) = {} /\ ~NpmInconsistent(v) /\ Historical(v) = publishing.historical
        /\ publishing' = [publishing EXCEPT !.stage = "image"]
    BY <1>3 DEF ConfirmPackages
  <2>2. publishing \in Attempts /\ v \in ReleaseVersion
    BY <1>1, ReleaseTypes DEF ReleaseInv, AttemptKnows
  <2>3. ~publishing.historical => \A p \in Packages : npmTag[p] = v
    BY <2>1, <2>2, PlanFinds
  <2>4. /\ publishing' \in Attempts /\ publishing'.version = v /\ publishing'.stage = "image"
        /\ publishing'.historical = publishing.historical
    BY <2>1, <2>2 DEF Attempts, AttemptStages
  <2>5. AttemptKnows'
    BY <1>1, <2>1, <2>2, <2>3, <2>4 DEF AttemptKnows, Missing, destinationVars
  <2> QED BY <1>1, <2>4, <2>5, AttemptSteps
<1> QED BY <1>2, <1>3

LEMMA PushImageKeeps == ASSUME ReleaseInv, PushImage PROVE ReleaseInv'
<1> DEFINE v == publishing.version
<1>1. publishing.stage = "image" /\ images' = images \cup {v} /\ publishing' = [publishing EXCEPT !.stage = "channel"]
  BY DEF PushImage
<1>u. UNCHANGED <<onNpm, npmTag, imageChannel, inRegistry, gitTag, githubRelease, latestRelease, pluginVars>>
  BY DEF PushImage
<1>2. /\ publishing \in Attempts /\ v \in ReleaseVersion /\ Missing(v) = {}
      /\ ~publishing.historical => \A p \in Packages : npmTag[p] = v
  BY <1>1, ReleaseTypes DEF ReleaseInv, AttemptKnows
<1>3. /\ publishing' \in Attempts /\ publishing'.version = v /\ publishing'.stage = "channel"
      /\ publishing'.historical = publishing.historical
  BY <1>1, <1>2 DEF Attempts, AttemptStages
<1>4. ReleaseTypeOK'
  BY <1>1, <1>u, <1>2, <1>3 DEF ReleaseInv, ReleaseTypeOK, Attempts, AttemptStages, pluginVars
<1>5. OutInOrder'
  BY <1>1, <1>u, <1>2 DEF ReleaseInv, OutInOrder, Missing, Published
<1>6. PluginFollows'
  BY <1>u DEF ReleaseInv, PluginFollows, pluginVars
<1>7. AttemptKnows'
  BY <1>1, <1>u, <1>2, <1>3 DEF AttemptKnows, Missing
<1> QED BY <1>4, <1>5, <1>6, <1>7 DEF ReleaseInv

\* An image of the channel has all its packages, so none of their tags is older.
LEMMA ChannelIsNotAhead ==
    ASSUME ReleaseInv
    PROVE  /\ \A p \in Packages : imageChannel <= npmTag[p]
           /\ imageChannel \in Nat
<1>t. /\ imageChannel \in Nat /\ npmTag \in [Packages -> Nat]
  BY ReleaseTypes DEF ReleaseInv
<1>1. CASE imageChannel = NoVersion
  BY <1>1, <1>t, ReleaseNumbers
<1>2. CASE imageChannel # NoVersion
  <2>1. Missing(imageChannel) = {}
    BY <1>2 DEF ReleaseInv, OutInOrder
  <2>2. \A p \in Packages : npmTag[p] >= imageChannel
    BY <2>1 DEF ReleaseInv, OutInOrder, Missing
  <2> QED BY <1>t, <2>2
<1> QED BY <1>1, <1>2

LEMMA ChannelMoves ==
    ASSUME ReleaseInv, PushChannel
    PROVE  /\ imageChannel' = imageChannel \/ imageChannel' = publishing.version
           /\ imageChannel' >= imageChannel /\ imageChannel' \in Nat
<1>1. CASE publishing.historical
  BY <1>1, ChannelIsNotAhead DEF PushChannel
<1>2. CASE ~publishing.historical
  <2>1. imageChannel' = publishing.version /\ publishing.stage = "channel"
    BY <1>2 DEF PushChannel
  <2>2. npmTag[MainPackage] = publishing.version /\ publishing.version \in Nat
    BY <1>2, <2>1, ReleaseNumbers DEF ReleaseInv, AttemptKnows
  <2> QED BY <2>1, <2>2, ChannelIsNotAhead, ReleaseNumbers
<1> QED BY <1>1, <1>2

LEMMA PushChannelKeeps == ASSUME ReleaseInv, PushChannel PROVE ReleaseInv'
<1> DEFINE v == publishing.version
<1>1. publishing.stage = "channel" /\ publishing' = [publishing EXCEPT !.stage = "core"]
  BY DEF PushChannel
<1>u. UNCHANGED <<onNpm, npmTag, images, inRegistry, gitTag, githubRelease, latestRelease, pluginVars>>
  BY DEF PushChannel
<1>2. /\ publishing \in Attempts /\ v \in ReleaseVersion /\ Missing(v) = {} /\ v \in images
  BY <1>1, ReleaseTypes DEF ReleaseInv, AttemptKnows
<1>3. /\ publishing' \in Attempts /\ publishing'.version = v /\ publishing'.stage = "core"
  BY <1>1, <1>2 DEF Attempts, AttemptStages
<1>4. ReleaseTypeOK'
  BY <1>u, <1>2, <1>3, ChannelMoves DEF ReleaseInv, ReleaseTypeOK, Attempts, AttemptStages, pluginVars
<1>5. OutInOrder'
  <2>1. imageChannel' # NoVersion => imageChannel' \in images
    BY <1>2, ChannelMoves DEF ReleaseInv, OutInOrder
  <2>2. \A w \in inRegistry : w \in images /\ imageChannel' >= w
    <3> SUFFICES ASSUME NEW w \in inRegistry PROVE w \in images /\ imageChannel' >= w
      OBVIOUS
    <3>1. w \in images /\ imageChannel >= w /\ w \in Nat
      BY ReleaseTypes, ReleaseNumbers DEF ReleaseInv, OutInOrder
    <3> QED BY <3>1, ChannelMoves, ChannelIsNotAhead
  <2> QED BY <1>u, <2>1, <2>2 DEF ReleaseInv, OutInOrder, Missing, Published
<1>6. PluginFollows'
  BY <1>u DEF ReleaseInv, PluginFollows, pluginVars
<1>7. AttemptKnows'
  BY <1>u, <1>2, <1>3 DEF AttemptKnows, Missing
<1> QED BY <1>4, <1>5, <1>6, <1>7 DEF ReleaseInv

LEMMA ConfirmImageKeeps == ASSUME ReleaseInv, ConfirmImage PROVE ReleaseInv'
<1> DEFINE v == publishing.version
<1>1. publishing.stage = "core" /\ UNCHANGED <<destinationVars, pluginVars>>
  BY DEF ConfirmImage
<1>2. CASE publishing' = NotPublishing
  BY <1>1, <1>2, AttemptStops
<1>3. CASE publishing' # NotPublishing
  <2>1. ~Inconsistent(v) /\ ~PublishNpmOrDocker(v) /\ publishing' = AttemptAt(v, AfterImage(v))
    BY <1>3 DEF ConfirmImage
  <2>2. PICK w \in ReleaseVersion : w = v
    BY <1>1 DEF ReleaseInv, AttemptKnows
  <2>3. PICK at \in {"registry", "tag", "verify"} : at = AfterImage(w) /\ (at \in {"tag", "verify"} => w \in inRegistry)
    BY StageAfterImage
  <2>4. publishing' = AttemptAt(w, at)
    BY <2>1, <2>2, <2>3
  <2>5. Missing(w) = {} /\ w \in images /\ imageChannel >= w
    BY <2>1, <2>2, PlanFinds
  <2> QED BY <1>1, <2>3, <2>4, <2>5, AttemptBegins
<1> QED BY <1>2, <1>3

LEMMA ConfirmRegistryKeeps == ASSUME ReleaseInv, ConfirmRegistry PROVE ReleaseInv'
<1> DEFINE v == publishing.version
<1>1. publishing.stage = "registered" /\ UNCHANGED <<destinationVars, pluginVars>>
  BY DEF ConfirmRegistry
<1>2. CASE publishing' = NotPublishing
  BY <1>1, <1>2, AttemptStops
<1>3. CASE publishing' # NotPublishing
  <2>1. v \in inRegistry /\ publishing' = AttemptAt(v, AfterRegistry(v))
    BY <1>3 DEF ConfirmRegistry
  <2>2. PICK w \in ReleaseVersion : w = v
    BY <1>1 DEF ReleaseInv, AttemptKnows
  <2>3. PICK at \in {"tag", "verify"} : at = AfterRegistry(w)
    BY StageAfterImage
  <2>4. publishing' = AttemptAt(w, at)
    BY <2>1, <2>2, <2>3
  <2>5. w \in images /\ imageChannel >= w
    BY <2>1, <2>2 DEF ReleaseInv, OutInOrder
  <2>6. Missing(w) = {}
    BY <2>5 DEF ReleaseInv, OutInOrder
  <2> QED BY <1>1, <2>1, <2>2, <2>4, <2>5, <2>6, AttemptBegins
<1> QED BY <1>2, <1>3


LEMMA PublishRegistryKeeps == ASSUME ReleaseInv, PublishRegistry PROVE ReleaseInv'
<1> DEFINE v == publishing.version
<1>1. publishing.stage = "registry" /\ inRegistry' = inRegistry \cup {v} /\ publishing' = [publishing EXCEPT !.stage = "registered"]
  BY DEF PublishRegistry
<1>u. UNCHANGED <<onNpm, npmTag, images, imageChannel, gitTag, githubRelease, latestRelease, pluginVars>>
  BY DEF PublishRegistry
<1>2. publishing \in Attempts /\ v \in ReleaseVersion /\ Missing(v) = {} /\ v \in images /\ imageChannel >= v
  BY <1>1, ReleaseTypes DEF ReleaseInv, AttemptKnows
<1>3. publishing' \in Attempts /\ publishing'.version = v /\ publishing'.stage = "registered"
  BY <1>1, <1>2 DEF Attempts, AttemptStages
<1>4. ReleaseTypeOK'
  BY <1>1, <1>u, <1>2, <1>3 DEF ReleaseInv, ReleaseTypeOK, Attempts, AttemptStages, pluginVars
<1>5. OutInOrder'
  BY <1>1, <1>u, <1>2 DEF ReleaseInv, OutInOrder, Missing, Published
<1>6. PluginFollows'
  BY <1>u DEF ReleaseInv, PluginFollows, pluginVars
<1>7. AttemptKnows'
  BY <1>1, <1>u, <1>2, <1>3 DEF AttemptKnows, Missing
<1> QED BY <1>4, <1>5, <1>6, <1>7 DEF ReleaseInv

LEMMA PushGitTagKeeps == ASSUME ReleaseInv, PushGitTag PROVE ReleaseInv'
<1> DEFINE v == publishing.version
<1>1. publishing.stage = "tag"
  BY DEF PushGitTag
<1>u. UNCHANGED <<onNpm, npmTag, images, imageChannel, inRegistry, githubRelease, latestRelease, pluginVars>>
  BY DEF PushGitTag
<1>2. CASE publishing' = NotPublishing /\ UNCHANGED gitTag
  <2>1. UNCHANGED <<destinationVars, pluginVars>>
    BY <1>u, <1>2 DEF destinationVars
  <2> QED BY <1>2, <2>1, AttemptStops
<1>3. CASE gitTag' = [gitTag EXCEPT ![v] = "approved"] /\ publishing' = [publishing EXCEPT !.stage = "announce"]
  <2>1. /\ publishing \in Attempts /\ v \in ReleaseVersion /\ Missing(v) = {} /\ v \in images /\ imageChannel >= v
        /\ v \in inRegistry
    BY <1>1, ReleaseTypes DEF ReleaseInv, AttemptKnows
  <2>2. publishing' \in Attempts /\ publishing'.version = v /\ publishing'.stage = "announce"
    BY <1>3, <2>1 DEF Attempts, AttemptStages
  <2>3. gitTag \in [ReleaseVersion -> {"none", "approved", "other"}]
    BY ReleaseTypes DEF ReleaseInv
  <2>4. \A w \in ReleaseVersion : gitTag'[w] = IF w = v THEN "approved" ELSE gitTag[w]
    BY <1>3, <2>3
  <2>5. ReleaseTypeOK'
    BY <1>3, <1>u, <2>2, <2>3 DEF ReleaseInv, ReleaseTypeOK, Attempts, AttemptStages, pluginVars
  <2>6. OutInOrder'
    BY <1>u, <2>4 DEF ReleaseInv, OutInOrder, Missing, Published
  <2>7. PluginFollows'
    BY <1>u DEF ReleaseInv, PluginFollows, pluginVars
  <2>8. AttemptKnows'
    BY <1>u, <2>1, <2>2, <2>4 DEF AttemptKnows, Missing
  <2> QED BY <2>5, <2>6, <2>7, <2>8 DEF ReleaseInv
<1> QED BY <1>2, <1>3 DEF PushGitTag

\* The latest release is newer only if it is published, and then this one is a backfill.
LEMMA LatestMoves ==
    ASSUME ReleaseInv, Announce
    PROVE  /\ latestRelease' = latestRelease \/ latestRelease' = publishing.version
           /\ latestRelease' >= latestRelease
<1> DEFINE v == publishing.version
<1>t. latestRelease \in Nat /\ latestRelease \in {NoVersion} \cup ReleaseVersion
  BY ReleaseTypes DEF ReleaseInv
<1>1. CASE latestRelease' = latestRelease
  BY <1>1, <1>t
<1>2. CASE latestRelease' = v /\ ~Backfill(v)
  <2>1. v \in ReleaseVersion /\ v \in Nat
    BY ReleaseNumbers DEF Announce, ReleaseInv, AttemptKnows
  <2>2. CASE latestRelease = NoVersion
    BY <1>2, <2>1, <2>2, ReleaseNumbers
  <2>3. CASE latestRelease # NoVersion
    <3>1. latestRelease \in ReleaseVersion /\ githubRelease[latestRelease] = "published"
      BY <1>t, <2>3 DEF ReleaseInv, OutInOrder, Published
    <3>2. latestRelease <= v
      <4>1. latestRelease \in Nat /\ v \in Nat
        BY <1>t, <2>1
      <4>2. latestRelease > v => Backfill(v)
        BY <3>1 DEF Backfill
      <4> HIDE DEF v
      <4> QED BY <1>2, <4>1, <4>2
    <3>3. latestRelease' = v
      BY <1>2
    <3>4. latestRelease' >= latestRelease
      BY <3>2, <3>3, <1>t, <2>1
    <3> QED BY <3>3, <3>4
  <2> QED BY <2>2, <2>3
<1> QED BY <1>1, <1>2 DEF Announce

LEMMA AnnounceKeeps == ASSUME ReleaseInv, Announce PROVE ReleaseInv'
<1> DEFINE v == publishing.version
<1>1. publishing.stage = "announce"
  BY DEF Announce
<1>u. UNCHANGED <<onNpm, npmTag, images, imageChannel, inRegistry, gitTag, pluginVars>>
  BY DEF Announce
<1>2. CASE publishing' = NotPublishing /\ UNCHANGED <<githubRelease, latestRelease>>
  <2>1. UNCHANGED <<destinationVars, pluginVars>>
    BY <1>u, <1>2 DEF destinationVars
  <2> QED BY <1>2, <2>1, AttemptStops
<1>3. CASE /\ githubRelease' = [githubRelease EXCEPT ![v] = "published"]
           /\ publishing' = [publishing EXCEPT !.stage = "verify"]
           /\ latestRelease' = latestRelease \/ latestRelease' = v
  <2>1. /\ publishing \in Attempts /\ v \in ReleaseVersion /\ Missing(v) = {} /\ v \in images /\ imageChannel >= v
        /\ v \in inRegistry /\ gitTag[v] # "none"
    BY <1>1, ReleaseTypes DEF ReleaseInv, AttemptKnows
  <2>2. publishing' \in Attempts /\ publishing'.version = v /\ publishing'.stage = "verify"
    BY <1>3, <2>1 DEF Attempts, AttemptStages
  <2>3. githubRelease \in [ReleaseVersion -> {"missing", "draft", "foreign", "spoiled", "published"}]
    BY ReleaseTypes DEF ReleaseInv
  <2>4. \A w \in ReleaseVersion : githubRelease'[w] = IF w = v THEN "published" ELSE githubRelease[w]
    BY <1>3, <2>3
  <2>5. ReleaseTypeOK'
    BY <1>3, <1>u, <2>1, <2>2, <2>3 DEF ReleaseInv, ReleaseTypeOK, Attempts, AttemptStages, pluginVars
  <2>6. (\A w \in ReleaseVersion : Published(w) => w \in inRegistry /\ gitTag[w] # "none")'
    BY <1>u, <2>1, <2>4 DEF ReleaseInv, OutInOrder, Published
  <2>7. (latestRelease # NoVersion => Published(latestRelease))'
    <3>1. latestRelease \in {NoVersion} \cup ReleaseVersion
      BY ReleaseTypes DEF ReleaseInv
    <3> QED BY <1>3, <2>1, <2>4, <3>1 DEF ReleaseInv, OutInOrder, Published
  <2>8. OutInOrder'
    BY <1>u, <2>6, <2>7 DEF ReleaseInv, OutInOrder, Missing
  <2>9. PluginFollows'
    BY <1>u DEF ReleaseInv, PluginFollows, pluginVars
  <2>10. AttemptKnows'
    BY <1>u, <2>1, <2>2 DEF AttemptKnows, Missing
  <2> QED BY <2>5, <2>8, <2>9, <2>10 DEF ReleaseInv
<1> QED BY <1>2, <1>3 DEF Announce

LEMMA BeginPluginKeeps == ASSUME ReleaseInv, NEW v \in ReleaseVersion, BeginPlugin(v) PROVE ReleaseInv'
<1>1. pluginJob' = v /\ npmTag[MainPackage] = v /\ UNCHANGED <<destinationVars, publishing, pluginBranch>>
  BY DEF BeginPlugin
<1>2. ReleaseTypeOK'
  BY <1>1 DEF ReleaseInv, ReleaseTypeOK, destinationVars
<1>3. OutInOrder' /\ AttemptKnows'
  BY <1>1 DEF ReleaseInv, OutInOrder, AttemptKnows, Missing, Published, destinationVars
<1>4. PluginFollows'
  BY <1>1, ReleaseNumbers DEF ReleaseInv, PluginFollows, destinationVars
<1> QED BY <1>2, <1>3, <1>4 DEF ReleaseInv

LEMMA PushPluginKeeps == ASSUME ReleaseInv, PushPlugin PROVE ReleaseInv' /\ pluginBranch' >= pluginBranch
<1>1. /\ pluginJob # NoVersion /\ pluginBranch' = pluginJob /\ pluginJob' = NoVersion
      /\ UNCHANGED <<destinationVars, publishing>>
  BY DEF PushPlugin
<1>t. pluginBranch \in Nat /\ pluginJob \in Nat /\ npmTag[MainPackage] \in Nat /\ NoVersion = 0
  BY ReleaseTypes, ReleaseNumbers DEF ReleaseInv
<1>2. ReleaseTypeOK'
  BY <1>1 DEF ReleaseInv, ReleaseTypeOK, destinationVars
<1>3. OutInOrder' /\ AttemptKnows'
  BY <1>1 DEF ReleaseInv, OutInOrder, AttemptKnows, Missing, Published, destinationVars
<1>4. pluginBranch <= pluginJob /\ pluginJob <= npmTag[MainPackage]
  BY <1>1 DEF ReleaseInv, PluginFollows
<1>5. PluginFollows'
  BY <1>1, <1>t, <1>4 DEF PluginFollows, destinationVars
<1>6. pluginBranch' >= pluginBranch
  BY <1>1, <1>t, <1>4
<1> QED BY <1>2, <1>3, <1>5, <1>6 DEF ReleaseInv

LEMMA HandsKeep ==
    ASSUME ReleaseInv, NEW v \in ReleaseVersion,
           TagElsewhere(v) \/ \E kind \in {"draft", "foreign", "spoiled"} : OpenDraft(v, kind)
    PROVE  ReleaseInv'
<1>u. /\ UNCHANGED <<onNpm, npmTag, images, imageChannel, inRegistry, latestRelease, publishing, pluginVars>>
  BY DEF TagElsewhere, OpenDraft
<1>t. /\ gitTag \in [ReleaseVersion -> {"none", "approved", "other"}]
      /\ githubRelease \in [ReleaseVersion -> {"missing", "draft", "foreign", "spoiled", "published"}]
  BY ReleaseTypes DEF ReleaseInv
<1>1. \A w \in ReleaseVersion : /\ gitTag[w] # "none" => gitTag'[w] # "none"
                                /\ Published(w)' <=> Published(w)
  BY <1>t DEF TagElsewhere, OpenDraft, Published
<1>2. /\ gitTag' \in [ReleaseVersion -> {"none", "approved", "other"}]
      /\ githubRelease' \in [ReleaseVersion -> {"missing", "draft", "foreign", "spoiled", "published"}]
  BY <1>t DEF TagElsewhere, OpenDraft
<1>3. ReleaseTypeOK'
  BY <1>u, <1>2 DEF ReleaseInv, ReleaseTypeOK, pluginVars
<1>4. OutInOrder'
  <2>1. (latestRelease # NoVersion => Published(latestRelease))'
    <3>1. latestRelease # NoVersion => latestRelease \in ReleaseVersion /\ Published(latestRelease)
      BY ReleaseTypes DEF ReleaseInv, OutInOrder
    <3> QED BY <1>u, <1>1, <3>1 DEF Published
  <2>2. (\A w \in ReleaseVersion : Published(w) => w \in inRegistry /\ gitTag[w] # "none")'
    BY <1>u, <1>1 DEF ReleaseInv, OutInOrder
  <2> QED BY <1>u, <2>1, <2>2 DEF ReleaseInv, OutInOrder, Missing
<1>5. PluginFollows'
  BY <1>u DEF ReleaseInv, PluginFollows, pluginVars
<1>6. AttemptKnows'
  BY <1>u, <1>1 DEF ReleaseInv, AttemptKnows, Missing
<1> QED BY <1>3, <1>4, <1>5, <1>6 DEF ReleaseInv

LEMMA ReleaseStarts == ReleaseInit => ReleaseInv
<1> SUFFICES ASSUME ReleaseInit PROVE ReleaseInv
  OBVIOUS
<1>1. ReleaseTypeOK
  BY DEF ReleaseInit, ReleaseTypeOK, NotPublishing
<1>2. OutInOrder
  <2>1. \A w \in ReleaseVersion : ~Published(w)
    BY DEF ReleaseInit, Published
  <2> QED BY <2>1 DEF ReleaseInit, OutInOrder
<1>3. PluginFollows
  BY ReleaseNumbers DEF ReleaseInit, PluginFollows
<1>4. AttemptKnows
  BY DEF ReleaseInit, AttemptKnows, NotPublishing
<1> QED BY <1>1, <1>2, <1>3, <1>4 DEF ReleaseInv

LEMMA ReleaseSteps == ReleaseInv /\ [ReleaseNext]_releaseVars => ReleaseInv'
<1> SUFFICES ASSUME ReleaseInv, [ReleaseNext]_releaseVars PROVE ReleaseInv'
  OBVIOUS
<1>1. CASE UNCHANGED releaseVars
  <2>1. UNCHANGED <<destinationVars, pluginVars>> /\ publishing' = publishing
    BY <1>1 DEF releaseVars, destinationVars, pluginVars
  <2>2. publishing' \in Attempts /\ AttemptKnows'
    BY <2>1, ReleaseTypes DEF ReleaseInv, AttemptKnows, Missing, destinationVars
  <2> QED BY <2>1, <2>2, AttemptSteps
<1>2. ASSUME NEW v \in ReleaseVersion, BeginPublish(v) \/ BeginPlugin(v) PROVE ReleaseInv'
  BY <1>2, BeginPublishKeeps, BeginPluginKeeps
<1>3. ASSUME NEW v \in TouchedByHand, TagElsewhere(v) \/ \E kind \in {"draft", "foreign", "spoiled"} : OpenDraft(v, kind)
      PROVE  ReleaseInv'
  <2>1. v \in ReleaseVersion
    BY ReleasePublishingAssumption DEF ReleaseVersion
  <2> QED BY <1>3, <2>1, HandsKeep
<1>4. CASE EndPublish \/ AttemptDies
  <2>1. publishing' = NotPublishing /\ UNCHANGED <<destinationVars, pluginVars>>
    BY <1>4 DEF EndPublish, AttemptDies
  <2> QED BY <2>1, AttemptStops
<1>5. CASE PublishPackage \/ ConfirmPackages \/ PushImage \/ PushChannel \/ ConfirmImage
  BY <1>5, PublishPackageKeeps, ConfirmPackagesKeeps, PushImageKeeps, PushChannelKeeps, ConfirmImageKeeps
<1>6. CASE PublishRegistry \/ ConfirmRegistry \/ PushGitTag \/ Announce \/ PushPlugin
  BY <1>6, PublishRegistryKeeps, ConfirmRegistryKeeps, PushGitTagKeeps, AnnounceKeeps, PushPluginKeeps
<1> QED BY <1>1, <1>2, <1>3, <1>4, <1>5, <1>6 DEF ReleaseNext

(* What is out is out in the order of the stages, whatever attempts die and are resumed.  *)
THEOREM ReleaseInvariance == ReleaseSpec => []ReleaseInv
<1> QED BY ReleaseStarts, ReleaseSteps, PTL DEF ReleaseSpec

(* A version can be resumed wherever its attempt died (planRelease() refuses no prefix).  *)
THEOREM AttemptsAlwaysResumable == ReleaseSpec => []AlwaysResumable
<1>1. ASSUME ReleaseInv PROVE AlwaysResumable
  <2> SUFFICES ASSUME NEW v \in ReleaseVersion, \A p \in Packages : npmTag[p] <= v,
                      githubRelease[v] # "spoiled", gitTag[v] # "other"
               PROVE  ~Inconsistent(v)
    BY DEF AlwaysResumable
  <2>t. v \in Nat /\ npmTag \in [Packages -> Nat] /\ MainPackage \in Packages /\ imageChannel \in Nat
    BY <1>1, ReleaseTypes, ReleaseNumbers DEF ReleaseInv
  <2>1. ~Historical(v)
    <3> SUFFICES ASSUME NEW newer \in ReleaseVersion, newer > v, \A p \in Packages : npmTag[p] = newer PROVE FALSE
      BY DEF Historical
    <3> QED BY <2>t, ReleaseNumbers
  <2>2. Mismatched(v) = {}
    <3> SUFFICES ASSUME NEW p \in Packages, v \in onNpm[p] PROVE npmTag[p] = v
      BY DEF Mismatched
    <3>1. npmTag[p] >= v
      BY <1>1 DEF ReleaseInv, OutInOrder
    <3> QED BY <2>t, <3>1
  <2>3. ~NpmInconsistent(v)
    BY <2>t, <2>2 DEF NpmInconsistent
  <2>4. ~ImageBeforePackages(v)
    BY <1>1 DEF ReleaseInv, OutInOrder, ImageBeforePackages
  <2>5. ASSUME githubRelease[v] = "published" PROVE ~NotAllOut(v)
    <3>1. v \in inRegistry /\ gitTag[v] # "none"
      BY <1>1, <2>5 DEF ReleaseInv, OutInOrder, Published
    <3>2. v \in images /\ imageChannel >= v
      BY <1>1, <3>1 DEF ReleaseInv, OutInOrder
    <3>3. Missing(v) = {}
      BY <1>1, <3>2 DEF ReleaseInv, OutInOrder
    <3>4. imageChannel <= npmTag[MainPackage] /\ npmTag[MainPackage] <= v /\ npmTag[MainPackage] \in Nat
      BY <1>1, <2>t, ChannelIsNotAhead
    <3>5. imageChannel = v
      BY <2>t, <3>2, <3>4
    <3>6. ChannelMatches(v)
      BY <2>1, <3>2, <3>5 DEF ChannelMatches, ChannelVersion
    <3> QED BY <3>1, <3>2, <3>3, <3>6 DEF NotAllOut
  <2> QED BY <2>1, <2>3, <2>4, <2>5 DEF Inconsistent
<1> QED BY <1>1, ReleaseInvariance, PTL

\* A package's tag is moved only by an attempt whose version is not older.
LEMMA TagsMove == ASSUME ReleaseInv, PublishPackage PROVE \A p \in Packages : npmTag'[p] >= npmTag[p]
<1> DEFINE v == publishing.version
<1> SUFFICES ASSUME NEW q \in Packages PROVE npmTag'[q] >= npmTag[q]
  OBVIOUS
<1>1. PICK i \in DOMAIN PackageOrder :
          /\ publishing.stage = "packages" /\ PackageOrder[i] \in publishing.missing
          /\ npmTag' = [npmTag EXCEPT ![PackageOrder[i]] = v]
  BY DEF PublishPackage
<1>2. npmTag[q] <= v /\ npmTag \in [Packages -> Nat] /\ v \in ReleaseVersion
  BY <1>1, ReleaseTypes DEF ReleaseInv, AttemptKnows
<1>3. v \in Nat /\ npmTag[q] \in Nat /\ npmTag[q] <= v
  BY <1>2, ReleaseNumbers
<1>4. npmTag'[q] = v \/ npmTag'[q] = npmTag[q]
  BY <1>1, <1>2
<1> HIDE DEF v
<1> QED BY <1>3, <1>4

(* The channels people install from only move forward, also when an older version is *)
(* resumed after a newer one.                                                        *)
THEOREM ChannelsNeverGoBack == ReleaseSpec => ChannelsOnlyAdvance
<1> DEFINE Advance == /\ \A p \in Packages : npmTag'[p] >= npmTag[p]
                      /\ imageChannel' >= imageChannel
                      /\ latestRelease' >= latestRelease
                      /\ pluginBranch' >= pluginBranch
<1>1. ASSUME ReleaseInv, [ReleaseNext]_releaseVars PROVE Advance
  <2>t. /\ \A p \in Packages : npmTag[p] \in Nat
        /\ imageChannel \in Nat /\ latestRelease \in Nat /\ pluginBranch \in Nat
    BY <1>1, ReleaseTypes DEF ReleaseInv
  <2>1. CASE PublishPackage
    <3>1. UNCHANGED <<imageChannel, latestRelease, pluginBranch>>
      BY <2>1 DEF PublishPackage, pluginVars
    <3> QED BY <1>1, <2>t, <2>1, <3>1, TagsMove
  <2>2. CASE PushChannel
    <3>1. UNCHANGED <<npmTag, latestRelease, pluginBranch>>
      BY <2>2 DEF PushChannel, pluginVars
    <3> QED BY <1>1, <2>t, <2>2, <3>1, ChannelMoves
  <2>3. CASE Announce
    <3>1. UNCHANGED <<npmTag, imageChannel, pluginBranch>>
      BY <2>3 DEF Announce, pluginVars
    <3> QED BY <1>1, <2>t, <2>3, <3>1, LatestMoves
  <2>4. CASE PushPlugin
    <3>1. UNCHANGED <<npmTag, imageChannel, latestRelease>>
      BY <2>4 DEF PushPlugin, destinationVars
    <3> QED BY <1>1, <2>t, <2>4, <3>1, PushPluginKeeps
  <2>5. CASE UNCHANGED <<npmTag, imageChannel, latestRelease, pluginBranch>>
    BY <2>t, <2>5
  <2> QED BY <1>1, <2>1, <2>2, <2>3, <2>4, <2>5
          DEF ReleaseNext, releaseVars, destinationVars, pluginVars, BeginPublish, BeginPlugin, TagElsewhere, OpenDraft,
              ConfirmPackages, PushImage, ConfirmImage, PublishRegistry, ConfirmRegistry, PushGitTag, EndPublish, AttemptDies
<1>2. ReleaseInv /\ [ReleaseNext]_releaseVars => [Advance]_releaseVars
  BY <1>1
<1>3. ReleaseSpec => [][Advance]_releaseVars
  BY <1>2, ReleaseInvariance, PTL DEF ReleaseSpec
<1> QED BY <1>3 DEF ChannelsOnlyAdvance

----------------------------------------------------------------------------
(* The log of a process: a record is offered to the console once and kept in   *)
(* the files once, in its place, or is among those whose suppression is told.  *)
(* First the sums over the lines that are offered or wait; then what each step *)
(* does to the order of the lines and to the account of what the summaries and *)
(* the counters say is missing.                                                *)

\* What one place adds.
LEMMA TotalOfOne ==
    ASSUME NEW x, NEW n \in Nat
    PROVE  IsFiniteSet({x} \X (1..n)) /\ Cardinality({x} \X (1..n)) = n
<1> DEFINE I == 1..n
<1>1. IsFiniteSet(I) /\ Cardinality(I) = n
  BY FS_Interval
<1>2. IsFiniteSet({x}) /\ Cardinality({x}) = 1
  BY FS_Singleton
<1> HIDE DEF I
<1>3. IsFiniteSet({x} \X I) /\ Cardinality({x} \X I) = Cardinality({x}) * Cardinality(I)
  BY <1>1, <1>2, FS_Product
<1>4. Cardinality({x} \X I) = 1 * n
  BY <1>1, <1>2, <1>3
<1>5. 1 * n = n
  OBVIOUS
<1> QED BY <1>3, <1>4, <1>5 DEF I

\* The sum of a function with a finite domain is a number.
LEMMA TotalIsANumber ==
    ASSUME NEW D, IsFiniteSet(D), NEW f \in [D -> Nat]
    PROVE  /\ IsFiniteSet(UNION {{x} \X (1..f[x]) : x \in D})
           /\ Total(f) \in Nat
<1> DEFINE Heap == {{x} \X (1..f[x]) : x \in D}
<1>1. IsFiniteSet(Heap)
  <2> DEFINE h == [x \in D |-> {x} \X (1..f[x])]
  <2>1. h \in [D -> Heap] /\ \A T \in Heap : \E x \in D : h[x] = T
    OBVIOUS
  <2> HIDE DEF h, Heap
  <2>2. h \in Surjection(D, Heap)
    BY <2>1 DEF Surjection
  <2> QED BY <2>2, FS_Surjection
<1>2. ASSUME NEW T \in Heap PROVE IsFiniteSet(T)
  <2>1. PICK x \in D : T = {x} \X (1..f[x])
    OBVIOUS
  <2> QED BY <2>1, TotalOfOne
<1>3. IsFiniteSet(UNION Heap)
  BY <1>1, <1>2, FS_UNION
<1> QED BY <1>3, FS_CardinalityType DEF Total

\* One more place adds its value.
LEMMA TotalExtended ==
    ASSUME NEW D, IsFiniteSet(D), NEW E, NEW x, x \notin D, E = D \cup {x},
           NEW f \in [D -> Nat], NEW g \in [E -> Nat],
           \A y \in D : g[y] = f[y]
    PROVE  Total(g) = Total(f) + g[x]
<1> DEFINE F == UNION {{y} \X (1..f[y]) : y \in D}
           G == UNION {{y} \X (1..g[y]) : y \in E}
           X == {x} \X (1..g[x])
<1>1. G = F \cup X
  <2>1. \A e \in G : e \in F \cup X
    OBVIOUS
  <2>2. \A e \in F : e \in G
    OBVIOUS
  <2>3. \A e \in X : e \in G
    OBVIOUS
  <2> QED BY <2>1, <2>2, <2>3
<1>2. F \cap X = {}
  OBVIOUS
<1>3. IsFiniteSet(X) /\ Cardinality(X) = g[x]
  BY TotalOfOne
<1>4. IsFiniteSet(F) /\ Total(f) = Cardinality(F) /\ Total(f) \in Nat
  BY TotalIsANumber DEF Total
<1>5. Total(g) = Cardinality(G)
  BY DEF Total
<1>6. Cardinality(F \cap X) = 0
  BY <1>2, FS_EmptySet
<1> HIDE DEF F, G, X
<1>7. Cardinality(F \cup X) = Cardinality(F) + Cardinality(X) - Cardinality(F \cap X)
  BY <1>3, <1>4, FS_Union
<1> QED BY <1>1, <1>3, <1>4, <1>5, <1>6, <1>7

\* The sum does not depend on where the values stand.
LEMMA TotalMoved ==
    ASSUME NEW D, NEW E, IsFiniteSet(D), NEW h \in Bijection(D, E),
           NEW f \in [D -> Nat], NEW g \in [E -> Nat],
           \A x \in D : f[x] = g[h[x]]
    PROVE  Total(f) = Total(g)
<1> DEFINE F == UNION {{y} \X (1..f[y]) : y \in D}
           G == UNION {{y} \X (1..g[y]) : y \in E}
           m == [p \in F |-> <<h[p[1]], p[2]>>]
<1>0. /\ h \in [D -> E]
      /\ \A x, y \in D : h[x] = h[y] => x = y
      /\ \A e \in E : \E x \in D : h[x] = e
  BY DEF Bijection, Injection, Surjection, IsInjective
<1>1. ASSUME NEW p \in F PROVE /\ p[1] \in D /\ p[2] \in 1..f[p[1]] /\ p = <<p[1], p[2]>>
                              /\ <<h[p[1]], p[2]>> \in G
  <2>1. PICK x \in D : p \in {x} \X (1..f[x])
    OBVIOUS
  <2>2. p[1] = x /\ p[2] \in 1..f[x] /\ p = <<p[1], p[2]>>
    BY <2>1
  <2>3. <<h[x], p[2]>> \in {h[x]} \X (1..g[h[x]]) /\ h[x] \in E
    BY <1>0, <2>2
  <2> QED BY <2>2, <2>3
<1>2. m \in [F -> G]
  BY <1>1
<1>3. ASSUME NEW p \in F, NEW q \in F, m[p] = m[q] PROVE p = q
  <2>1. h[p[1]] = h[q[1]] /\ p[2] = q[2]
    BY <1>3
  <2>2. p[1] = q[1]
    BY <1>0, <1>1, <2>1
  <2> QED BY <1>1, <2>1, <2>2
<1>4. ASSUME NEW e \in G PROVE \E p \in F : m[p] = e
  <2>1. PICK y \in E : e \in {y} \X (1..g[y])
    OBVIOUS
  <2>2. PICK x \in D : h[x] = y
    BY <1>0
  <2>3. e = <<y, e[2]>> /\ e[2] \in 1..f[x]
    BY <2>1, <2>2
  <2>4. <<x, e[2]>> \in F
    BY <2>3
  <2>5. m[<<x, e[2]>>] = <<h[x], e[2]>>
    BY <2>4
  <2> QED BY <2>2, <2>3, <2>4, <2>5
<1>5. ExistsBijection(F, G)
  <2> HIDE DEF m, F, G
  <2>1. m \in Bijection(F, G)
    BY <1>2, <1>3, <1>4 DEF Bijection, Injection, Surjection, IsInjective
  <2> QED BY <2>1 DEF ExistsBijection
<1>6. IsFiniteSet(F)
  BY TotalIsANumber
<1>7. Cardinality(F) = Cardinality(G)
  BY <1>5, <1>6, FS_Bijection
<1>8. DOMAIN f = D /\ DOMAIN g = E
  OBVIOUS
<1> QED BY <1>7, <1>8 DEF Total

Line == [record : Nat, count : Nat]
Item == [entry : Line, filePending : BOOLEAN, consolePending : BOOLEAN]

\* The sums over the lines that are seen are numbers.
LEMMA SeenIsCounted ==
    ASSUME NEW shown \in Seq(Line), NEW q \in Seq(Item)
    PROVE  /\ IsFiniteSet(SeenAt(shown, q))
           /\ \A at \in SeenAt(shown, q) : SeenLine(shown, q, at) \in Line
           /\ RecordsSeen(shown, q) \in Nat
           /\ RecordsTold(shown, q) \in Nat
<1> DEFINE A == SeenAt(shown, q)
<1>1. IsFiniteSet({"console"} \X DOMAIN shown)
  <2>1. DOMAIN shown = 1..Len(shown) /\ Len(shown) \in Nat
    OBVIOUS
  <2> QED BY <2>1, TotalOfOne
<1>2. IsFiniteSet({"queue"} \X {i \in DOMAIN q : q[i].consolePending})
  <2>1. IsFiniteSet({"queue"} \X DOMAIN q)
    <3>1. DOMAIN q = 1..Len(q) /\ Len(q) \in Nat
      OBVIOUS
    <3> QED BY <3>1, TotalOfOne
  <2>2. {"queue"} \X {i \in DOMAIN q : q[i].consolePending} \subseteq {"queue"} \X DOMAIN q
    OBVIOUS
  <2> QED BY <2>1, <2>2, FS_Subset
<1>3. IsFiniteSet(A)
  BY <1>1, <1>2, FS_Union DEF SeenAt
<1>4. ASSUME NEW at \in A PROVE SeenLine(shown, q, at) \in Line
  <2>1. CASE at \in {"console"} \X DOMAIN shown
    <3>1. at[1] = "console" /\ at[2] \in DOMAIN shown
      BY <2>1
    <3>2. shown[at[2]] \in Line
      BY <3>1
    <3> QED BY <3>1, <3>2 DEF SeenLine
  <2>2. CASE at \in {"queue"} \X {i \in DOMAIN q : q[i].consolePending}
    <3>1. at[1] = "queue" /\ at[2] \in DOMAIN q
      BY <2>2
    <3>2. q[at[2]] \in Item
      BY <3>1
    <3>3. q[at[2]].entry \in Line
      BY <3>2 DEF Item
    <3> QED BY <3>1, <3>3 DEF SeenLine
  <2> QED BY <2>1, <2>2 DEF SeenAt
<1> DEFINE f == [at \in A |-> IF SeenLine(shown, q, at).record # 0 THEN 1 ELSE 0]
           g == [at \in A |-> SeenLine(shown, q, at).count]
<1>5. f \in [A -> Nat]
  OBVIOUS
<1>6. g \in [A -> Nat]
  <2>1. \A at \in A : SeenLine(shown, q, at).count \in Nat
    BY <1>4 DEF Line
  <2> QED BY <2>1
<1>7. Total(f) \in Nat /\ Total(g) \in Nat
  <2> HIDE DEF f, g, A
  <2> QED BY <1>3, <1>5, <1>6, TotalIsANumber
<1> QED BY <1>3, <1>4, <1>7 DEF RecordsSeen, RecordsTold

\* A line more that waits for the console adds itself to both sums.
LEMMA OneMoreSeen ==
    \A shown \in Seq(Line), q \in Seq(Item), it \in Item :
        it.consolePending =>
            /\ RecordsSeen(shown, Append(q, it)) =
                   RecordsSeen(shown, q) + (IF it.entry.record # 0 THEN 1 ELSE 0)
            /\ RecordsTold(shown, Append(q, it)) = RecordsTold(shown, q) + it.entry.count
<1>0. SUFFICES ASSUME NEW shown, NEW q, NEW it,
                      shown \in Seq(Line), q \in Seq(Item), it \in Item, it.consolePending
               PROVE  /\ RecordsSeen(shown, Append(q, it)) =
                             RecordsSeen(shown, q) + (IF it.entry.record # 0 THEN 1 ELSE 0)
                      /\ RecordsTold(shown, Append(q, it)) = RecordsTold(shown, q) + it.entry.count
  OBVIOUS
<1> DEFINE p == Append(q, it)
           n == Len(q) + 1
           A == SeenAt(shown, q)
           B == SeenAt(shown, p)
           x == <<"queue", n>>
<1>1. /\ DOMAIN q = 1..Len(q) /\ Len(q) \in Nat /\ DOMAIN p = 1..n /\ p[n] = it
      /\ \A i \in DOMAIN q : p[i] = q[i]
      /\ p \in Seq(Item)
  BY <1>0
<1>2. DOMAIN p = DOMAIN q \cup {n} /\ n \notin DOMAIN q
  BY <1>1
<1> HIDE DEF p, n
<1>3. B = A \cup {x} /\ x \notin A
  <2>1. {i \in DOMAIN p : p[i].consolePending} = {i \in DOMAIN q : q[i].consolePending} \cup {n}
    BY <1>0, <1>1, <1>2
  <2>2. {"queue"} \X {i \in DOMAIN p : p[i].consolePending} =
            ({"queue"} \X {i \in DOMAIN q : q[i].consolePending}) \cup {x}
    BY <2>1
  <2>3. x \notin {"queue"} \X {i \in DOMAIN q : q[i].consolePending}
    BY <1>2
  <2>4. x \notin {"console"} \X DOMAIN shown
    OBVIOUS
  <2> QED BY <2>2, <2>3, <2>4 DEF SeenAt
<1>4. \A at \in A : SeenLine(shown, p, at) = SeenLine(shown, q, at)
  BY <1>1 DEF SeenAt, SeenLine
<1>5. SeenLine(shown, p, x) = it.entry
  BY <1>1 DEF SeenLine
<1>6. (\A at \in A : SeenLine(shown, q, at) \in Line) /\ \A at \in B : SeenLine(shown, p, at) \in Line
  BY <1>0, <1>1, SeenIsCounted
<1>9. IsFiniteSet(A)
  BY <1>0, SeenIsCounted
<1> HIDE DEF A, B, x
<1>7. RecordsSeen(shown, p) = RecordsSeen(shown, q) + (IF it.entry.record # 0 THEN 1 ELSE 0)
  <2> DEFINE f == [at \in A |-> IF SeenLine(shown, q, at).record # 0 THEN 1 ELSE 0]
             g == [at \in B |-> IF SeenLine(shown, p, at).record # 0 THEN 1 ELSE 0]
  <2>1. f \in [A -> Nat] /\ g \in [B -> Nat]
    BY <1>3
  <2>2. (\A at \in A : g[at] = f[at]) /\ g[x] = (IF it.entry.record # 0 THEN 1 ELSE 0)
    BY <1>3, <1>4, <1>5
  <2>3. RecordsSeen(shown, p) = Total(g) /\ RecordsSeen(shown, q) = Total(f)
    BY DEF RecordsSeen, A, B
  <2> HIDE DEF f, g
  <2>4. x \notin A /\ \A y \in A : g[y] = f[y]
    BY <1>3, <2>2
  <2>5. Total(g) = Total(f) + g[x]
    BY <1>3, <1>9, <2>1, <2>4, TotalExtended
  <2> QED BY <2>2, <2>3, <2>5
<1>8. RecordsTold(shown, p) = RecordsTold(shown, q) + it.entry.count
  <2> DEFINE f == [at \in A |-> SeenLine(shown, q, at).count]
             g == [at \in B |-> SeenLine(shown, p, at).count]
  <2>0. (\A at \in A : SeenLine(shown, q, at).count \in Nat)
        /\ \A at \in B : SeenLine(shown, p, at).count \in Nat
    BY <1>6 DEF Line
  <2>1. f \in [A -> Nat] /\ g \in [B -> Nat]
    BY <1>3, <2>0
  <2>2. (\A at \in A : g[at] = f[at]) /\ g[x] = it.entry.count
    BY <1>3, <1>4, <1>5
  <2>3. RecordsTold(shown, p) = Total(g) /\ RecordsTold(shown, q) = Total(f)
    BY DEF RecordsTold, A, B
  <2> HIDE DEF f, g
  <2>4. x \notin A /\ \A y \in A : g[y] = f[y]
    BY <1>3, <2>2
  <2>5. Total(g) = Total(f) + g[x]
    BY <1>3, <1>9, <2>1, <2>4, TotalExtended
  <2> QED BY <2>2, <2>3, <2>5
<1> QED BY <1>7, <1>8 DEF p

\* Lines that move, each to a place of its own, change neither.
LEMMA SeenMoved ==
    \A shown, shown2 \in Seq(Line), q, q2 \in Seq(Item) :
        \A h \in Bijection(SeenAt(shown2, q2), SeenAt(shown, q)) :
            (\A at \in SeenAt(shown2, q2) : SeenLine(shown2, q2, at) = SeenLine(shown, q, h[at])) =>
                /\ RecordsSeen(shown2, q2) = RecordsSeen(shown, q)
                /\ RecordsTold(shown2, q2) = RecordsTold(shown, q)
<1>s. SUFFICES ASSUME NEW shown, NEW shown2, NEW q, NEW q2,
                      shown \in Seq(Line), shown2 \in Seq(Line), q \in Seq(Item), q2 \in Seq(Item),
                      NEW h \in Bijection(SeenAt(shown2, q2), SeenAt(shown, q)),
                      \A at \in SeenAt(shown2, q2) : SeenLine(shown2, q2, at) = SeenLine(shown, q, h[at])
               PROVE  /\ RecordsSeen(shown2, q2) = RecordsSeen(shown, q)
                      /\ RecordsTold(shown2, q2) = RecordsTold(shown, q)
  OBVIOUS
<1> DEFINE A == SeenAt(shown, q)
           B == SeenAt(shown2, q2)
<1>0. IsFiniteSet(B)
  BY <1>s, SeenIsCounted
<1>1. /\ \A at \in A : SeenLine(shown, q, at) \in Line
      /\ \A at \in B : SeenLine(shown2, q2, at) \in Line
  BY <1>s, SeenIsCounted
<1>2. h \in Bijection(B, A) /\ h \in [B -> A]
  BY DEF Bijection, Injection
<1>3. \A at \in B : SeenLine(shown2, q2, at) = SeenLine(shown, q, h[at]) /\ h[at] \in A
  BY <1>s, <1>2
<1>4. RecordsSeen(shown2, q2) = RecordsSeen(shown, q)
  <2> DEFINE f == [at \in A |-> IF SeenLine(shown, q, at).record # 0 THEN 1 ELSE 0]
             g == [at \in B |-> IF SeenLine(shown2, q2, at).record # 0 THEN 1 ELSE 0]
  <2>1. f \in [A -> Nat] /\ g \in [B -> Nat]
    OBVIOUS
  <2>2. RecordsSeen(shown2, q2) = Total(g) /\ RecordsSeen(shown, q) = Total(f)
    BY DEF RecordsSeen
  <2> HIDE DEF A, B
  <2>3. \A at \in B : g[at] = f[h[at]]
    BY <1>3
  <2> HIDE DEF f, g
  <2> QED BY <1>0, <1>2, <2>1, <2>2, <2>3, TotalMoved
<1>5. RecordsTold(shown2, q2) = RecordsTold(shown, q)
  <2> DEFINE f == [at \in A |-> SeenLine(shown, q, at).count]
             g == [at \in B |-> SeenLine(shown2, q2, at).count]
  <2>0. (\A at \in A : SeenLine(shown, q, at).count \in Nat)
        /\ \A at \in B : SeenLine(shown2, q2, at).count \in Nat
    BY <1>1 DEF Line
  <2>1. f \in [A -> Nat] /\ g \in [B -> Nat]
    BY <2>0
  <2>2. RecordsTold(shown2, q2) = Total(g) /\ RecordsTold(shown, q) = Total(f)
    BY DEF RecordsTold
  <2> HIDE DEF A, B
  <2>3. \A at \in B : g[at] = f[h[at]]
    BY <1>3
  <2> HIDE DEF f, g
  <2> QED BY <1>0, <1>2, <2>1, <2>2, <2>3, TotalMoved
<1> QED BY <1>4, <1>5

LogTypes ==
    /\ logged \in Nat /\ byRate \in Nat /\ byQueue \in Nat /\ rateTokens \in Nat
    /\ duplicate \in [emitted : Nat, suppressed : Nat]
    /\ backlog \in Seq(Item)
    /\ segments \in [1..SegmentCount -> Seq(Line)]
    /\ offered \in Seq(Line)
    /\ late \in BOOLEAN
    /\ logStage \in {"open", "closing", "rate", "queue", "closed"}

\* The queue is in the order of the log, after all that was written.
Placed(q, n) ==
    /\ \A i \in DOMAIN q : q[i].filePending /\ q[i].entry.record <= n
    /\ \A i, j \in DOMAIN q : i < j => Precedes(q[i].entry, q[j].entry)
    /\ \A i \in DOMAIN q, a \in 1..SegmentCount : \A k \in DOMAIN segments[a] :
           Precedes(segments[a][k], q[i].entry)
    /\ \A i \in DOMAIN q : q[i].consolePending =>
           \A k \in DOMAIN offered : Precedes(offered[k], q[i].entry)

\* What was written was logged.
Written(n) ==
    /\ \A k \in DOMAIN offered : offered[k].record <= n
    /\ \A a \in 1..SegmentCount : \A k \in DOMAIN segments[a] : segments[a][k].record <= n

FilesInOrder(files) ==
    /\ \A a \in 1..SegmentCount : InLogOrder(files[a])
    /\ \A a, b \in 1..SegmentCount : a > b =>
          \A i \in DOMAIN files[a], j \in DOMAIN files[b] : Precedes(files[a][i], files[b][j])

\* Of n records some are seen; the summaries and the counters, with what is still to be
\* reported of the duplicates, tell of the others: not of more than those, and of some.
Accounted(c, unreported, n) ==
    LET seen == RecordsSeen(offered, c.queue)
        told == RecordsTold(offered, c.queue) + c.byRate + c.byQueue + unreported
    IN  seen + told <= n /\ (seen < n => told > 0)

Duplicates == IF logStage = "open" THEN duplicate.suppressed ELSE 0

\* close() has reported what it is past.
StagesReported ==
    /\ logStage \in {"rate", "queue"} => byRate = 0
    /\ logStage = "queue" => byQueue = 0
    /\ logStage = "closed" /\ backlog = <<>> => byRate = 0 /\ byQueue = 0

LogInv ==
    /\ LogTypes
    /\ Written(logged) /\ Placed(backlog, logged)
    /\ InLogOrder(offered) /\ FilesInOrder(segments)
    /\ ~late => Accounted(Counters, Duplicates, logged) /\ StagesReported

CounterRecord == [tokens : Nat, byRate : Nat, byQueue : Nat, queue : Seq(Item)]

\* One line more in the queue, of a later record or of none.
LEMMA PlacedAppend ==
    ASSUME LogTypes, NEW q \in Seq(Item), NEW n \in Nat, Placed(q, n), Written(n),
           NEW it \in Item, it.filePending,
           NEW m,
           \/ it.entry.record = 0 /\ m = n
           \/ it.entry.record = n + 1 /\ m = n + 1
    PROVE  Placed(Append(q, it), m)
<1> DEFINE p == Append(q, it)
           l == Len(q) + 1
<1>1. /\ DOMAIN q = 1..Len(q) /\ Len(q) \in Nat /\ DOMAIN p = 1..l /\ p[l] = it
      /\ \A i \in DOMAIN q : p[i] = q[i] /\ q[i] \in Item
  OBVIOUS
<1> HIDE DEF p
<1>2. it.entry \in Line /\ it.entry.record \in Nat
  BY DEF Item, Line
<1>3. ASSUME NEW e \in Line, e.record <= n PROVE Precedes(e, it.entry) /\ e.record <= m
  BY <1>2, <1>3 DEF Precedes, Line
<1>4. \A i \in DOMAIN q : q[i].entry \in Line /\ q[i].entry.record <= n
  BY <1>1 DEF Item, Placed
<1>5. \A a \in 1..SegmentCount : \A k \in DOMAIN segments[a] : Precedes(segments[a][k], it.entry)
  <2> SUFFICES ASSUME NEW a \in 1..SegmentCount, NEW k \in DOMAIN segments[a]
               PROVE  Precedes(segments[a][k], it.entry)
    OBVIOUS
  <2>1. segments[a] \in Seq(Line)
    BY DEF LogTypes
  <2>2. segments[a][k] \in Line
    BY <2>1
  <2> QED BY <1>3, <2>2 DEF Written
<1>6. \A k \in DOMAIN offered : Precedes(offered[k], it.entry)
  <2> SUFFICES ASSUME NEW k \in DOMAIN offered PROVE Precedes(offered[k], it.entry)
    OBVIOUS
  <2>1. offered[k] \in Line
    BY DEF LogTypes
  <2> QED BY <1>3, <2>1 DEF Written
<1>7. ASSUME NEW i \in DOMAIN p
      PROVE  /\ p[i].filePending /\ p[i].entry.record <= m
             /\ \A a \in 1..SegmentCount : \A k \in DOMAIN segments[a] : Precedes(segments[a][k], p[i].entry)
             /\ p[i].consolePending => \A k \in DOMAIN offered : Precedes(offered[k], p[i].entry)
  <2>1. CASE i = l
    BY <1>1, <1>2, <1>5, <1>6, <2>1
  <2>2. CASE i # l
    <3>1. i \in DOMAIN q
      BY <1>1, <2>2
    <3>2. p[i] = q[i] /\ p[i].entry.record <= m
      BY <1>1, <1>3, <1>4, <3>1
    <3> QED BY <3>1, <3>2 DEF Placed
  <2> QED BY <2>1, <2>2
<1>8. ASSUME NEW i \in DOMAIN p, NEW j \in DOMAIN p, i < j PROVE Precedes(p[i].entry, p[j].entry)
  <2>1. i \in DOMAIN q
    BY <1>1, <1>8
  <2>2. CASE j = l
    <3>1. p[i].entry = q[i].entry /\ p[j] = it
      BY <1>1, <2>1, <2>2
    <3>2. Precedes(q[i].entry, it.entry)
      BY <1>3, <1>4, <2>1
    <3> QED BY <3>1, <3>2
  <2>3. CASE j # l
    <3>1. j \in DOMAIN q
      BY <1>1, <2>3
    <3> QED BY <1>1, <1>8, <2>1, <3>1 DEF Placed
  <2> QED BY <2>2, <2>3
<1> QED BY <1>7, <1>8 DEF Placed, p

\* The queue of a state is also in order before a later record.
LEMMA PlacedLater ==
    ASSUME NEW q \in Seq(Item), NEW n \in Nat, Placed(q, n)
    PROVE  Placed(q, n + 1)
<1>1. \A i \in DOMAIN q : q[i].entry.record \in Nat
  <2>1. \A i \in DOMAIN q : q[i] \in Item
    OBVIOUS
  <2> QED BY <2>1 DEF Item, Line
<1>2. \A i \in DOMAIN q : q[i].entry.record <= n + 1
  BY <1>1 DEF Placed
<1> QED BY <1>2 DEF Placed

\* The account of a queue and its counters, in numbers.
LEMMA AccountIs ==
    ASSUME NEW c, NEW u, NEW n, NEW s, NEW t, NEW r, NEW b,
           RecordsSeen(offered, c.queue) = s, RecordsTold(offered, c.queue) = t, c.byRate = r, c.byQueue = b
    PROVE  Accounted(c, u, n) <=> s + (t + r + b + u) <= n /\ (s < n => t + r + b + u > 0)
  BY DEF Accounted

LEMMA EntriesAreLines ==
    /\ \A n \in Nat : RecordEntry(n) \in Line /\ SummaryEntry(n) \in Line
    /\ ForeignEntry \in Line
    /\ \A e \in Line : QueuedEntry(e) \in Item /\ QueuedEntry(e).filePending /\ QueuedEntry(e).consolePending
                       /\ QueuedEntry(e).entry = e
  BY DEF RecordEntry, SummaryEntry, ForeignEntry, QueuedEntry, Line, Item

\* A summary is queued, or its loss is counted as one more record.
LEMMA SummaryKeeps ==
    ASSUME LogTypes, NEW c \in CounterRecord, NEW k \in Nat, NEW n \in Nat
    PROVE  \A d : d = EnqueueSuppression(c, k) =>
               /\ d \in CounterRecord /\ d.byRate = c.byRate /\ d.tokens = c.tokens
               /\ c.queue = <<>> => d.byQueue = c.byQueue
               /\ Written(n) /\ Placed(c.queue, n) => Placed(d.queue, n)
               /\ \A u \in Nat : Accounted(c, k + u, n) => Accounted(d, u, n)
<1>d. SUFFICES ASSUME NEW d, d = EnqueueSuppression(c, k)
    PROVE  /\ d \in CounterRecord /\ d.byRate = c.byRate /\ d.tokens = c.tokens
           /\ c.queue = <<>> => d.byQueue = c.byQueue
           /\ Written(n) /\ Placed(c.queue, n) => Placed(d.queue, n)
           /\ \A u \in Nat : Accounted(c, k + u, n) => Accounted(d, u, n)
  OBVIOUS
<1> DEFINE it == QueuedEntry(SummaryEntry(k))
<1>1. CASE k = 0
  <2>1. d = c
    BY <1>d, <1>1 DEF EnqueueSuppression
  <2>2. \A u \in Nat : k + u = u
    BY <1>1
  <2> QED BY <2>1, <2>2
<1>2. CASE k # 0 /\ Len(c.queue) + 1 > QueueLimit
  <2>1. d = [c EXCEPT !.byQueue = @ + 1]
    BY <1>d, <1>2 DEF EnqueueSuppression, Enqueue
  <2>2. /\ d \in CounterRecord /\ d.byRate = c.byRate /\ d.tokens = c.tokens
        /\ d.byQueue = c.byQueue + 1 /\ d.queue = c.queue
    BY <2>1 DEF CounterRecord
  <2>3. c.queue # <<>>
    <3>1. QueueLimit \in Nat \ {0}
      BY LocalLogAssumption
    <3> QED BY <1>2, <3>1
  <2>4. ASSUME NEW u \in Nat, Accounted(c, k + u, n) PROVE Accounted(d, u, n)
    <3> DEFINE s == RecordsSeen(offered, c.queue)
               t == RecordsTold(offered, c.queue)
               r == c.byRate
               b == c.byQueue
    <3>1. s \in Nat /\ t \in Nat /\ r \in Nat /\ b \in Nat
      BY SeenIsCounted DEF LogTypes, CounterRecord
    <3>2. /\ Accounted(c, k + u, n) <=> s + (t + r + b + (k + u)) <= n /\ (s < n => t + r + b + (k + u) > 0)
          /\ Accounted(d, u, n) <=> s + (t + r + (b + 1) + u) <= n /\ (s < n => t + r + (b + 1) + u > 0)
      BY <2>2, AccountIs
    <3> HIDE DEF s, t, r, b
    <3> QED BY <1>2, <2>4, <3>1, <3>2
  <2> QED BY <2>2, <2>3, <2>4
<1>3. CASE k # 0 /\ ~(Len(c.queue) + 1 > QueueLimit)
  <2>1. d = [c EXCEPT !.queue = Append(@, it)]
    BY <1>d, <1>3 DEF EnqueueSuppression, Enqueue
  <2>2. it \in Item /\ it.filePending /\ it.consolePending /\ it.entry.record = 0 /\ it.entry.count = k
    BY EntriesAreLines DEF QueuedEntry, SummaryEntry
  <2>3. c.queue \in Seq(Item)
    BY DEF CounterRecord
  <2> HIDE DEF it
  <2>4. Append(c.queue, it) \in Seq(Item)
    BY <2>2, <2>3
  <2>5. /\ d \in CounterRecord /\ d.byRate = c.byRate /\ d.tokens = c.tokens
        /\ d.byQueue = c.byQueue /\ d.queue = Append(c.queue, it)
    BY <2>1, <2>4 DEF CounterRecord
  <2>6. Written(n) /\ Placed(c.queue, n) => Placed(d.queue, n)
    <3> DEFINE q == c.queue
    <3>1. q \in Seq(Item) /\ d.queue = Append(q, it)
      BY <2>3, <2>5
    <3> HIDE DEF q
    <3>2. q \in Seq(Item) /\ it \in Item /\ it.filePending /\ it.entry.record = 0
      BY <2>2, <3>1
    <3>3. ASSUME Written(n), Placed(q, n) PROVE Placed(Append(q, it), n)
      BY <3>2, <3>3, PlacedAppend
    <3> QED BY <3>1, <3>3 DEF q
  <2>7. ASSUME NEW u \in Nat, Accounted(c, k + u, n) PROVE Accounted(d, u, n)
    <3> DEFINE s == RecordsSeen(offered, c.queue)
               t == RecordsTold(offered, c.queue)
               r == c.byRate
               b == c.byQueue
    <3>1. s \in Nat /\ t \in Nat /\ r \in Nat /\ b \in Nat
      BY SeenIsCounted DEF LogTypes, CounterRecord
    <3>2. /\ RecordsSeen(offered, d.queue) = RecordsSeen(offered, c.queue)
          /\ RecordsTold(offered, d.queue) = RecordsTold(offered, c.queue) + k
      <4>1. offered \in Seq(Line)
        BY DEF LogTypes
      <4>2. /\ RecordsSeen(offered, d.queue) = RecordsSeen(offered, c.queue) + (IF it.entry.record # 0 THEN 1 ELSE 0)
            /\ RecordsTold(offered, d.queue) = RecordsTold(offered, c.queue) + it.entry.count
        BY <2>2, <2>3, <2>5, <4>1, OneMoreSeen
      <4> QED BY <2>2, <3>1, <4>2
    <3>3. Accounted(c, k + u, n) <=> s + (t + r + b + (k + u)) <= n /\ (s < n => t + r + b + (k + u) > 0)
      BY AccountIs
    <3>4. Accounted(d, u, n) <=> s + ((t + k) + r + b + u) <= n /\ (s < n => (t + k) + r + b + u > 0)
      BY <2>5, <3>2, AccountIs
    <3> HIDE DEF s, t, r, b
    <3> QED BY <1>3, <2>7, <3>1, <3>3, <3>4
  <2> QED BY <2>5, <2>6, <2>7
<1> QED BY <1>1, <1>2, <1>3

\* A record is queued, or counted by what refused it.
LEMMA RecordKeeps ==
    ASSUME LogTypes, NEW c \in CounterRecord, NEW n \in Nat
    PROVE  \A d : d = Enqueue(c, RecordEntry(n + 1), FALSE) =>
               /\ d \in CounterRecord
               /\ Written(n) /\ Placed(c.queue, n) => Placed(d.queue, n + 1)
               /\ \A u \in Nat : Accounted(c, u, n) => Accounted(d, u, n + 1)
<1>d. SUFFICES ASSUME NEW d, d = Enqueue(c, RecordEntry(n + 1), FALSE)
    PROVE  /\ d \in CounterRecord
           /\ Written(n) /\ Placed(c.queue, n) => Placed(d.queue, n + 1)
           /\ \A u \in Nat : Accounted(c, u, n) => Accounted(d, u, n + 1)
  OBVIOUS
<1> DEFINE it == QueuedEntry(RecordEntry(n + 1))
           q == c.queue
           s == RecordsSeen(offered, q)
           t == RecordsTold(offered, q)
           r == c.byRate
           b == c.byQueue
<1>0. c.tokens \in Nat /\ r \in Nat /\ b \in Nat /\ q \in Seq(Item)
  BY DEF CounterRecord
<1>s. s \in Nat /\ t \in Nat
  BY <1>0, SeenIsCounted DEF LogTypes
<1>a. \A u \in Nat : Accounted(c, u, n) <=> s + (t + r + b + u) <= n /\ (s < n => t + r + b + u > 0)
  BY AccountIs
<1>p. Placed(q, n) => Placed(q, n + 1)
  BY <1>0, PlacedLater
<1> DEFINE paid == [c EXCEPT !.tokens = @ - 1]
<1>c. c.tokens >= 1 => paid \in CounterRecord /\ paid.byRate = r /\ paid.byQueue = b /\ paid.queue = q
  BY <1>0 DEF CounterRecord
<1>1. CASE c.tokens < 1
  <2>1. d = [c EXCEPT !.byRate = @ + 1]
    BY <1>d, <1>1 DEF Enqueue
  <2>2. /\ d \in CounterRecord /\ d.byRate = r + 1 /\ d.byQueue = b /\ d.queue = q
    BY <2>1 DEF CounterRecord
  <2>3. \A u \in Nat : Accounted(d, u, n + 1) <=>
            s + (t + (r + 1) + b + u) <= n + 1 /\ (s < n + 1 => t + (r + 1) + b + u > 0)
    BY <2>2, AccountIs
  <2>4. \A u \in Nat : Accounted(c, u, n) => Accounted(d, u, n + 1)
    <3> HIDE DEF s, t, r, b
    <3> QED BY <1>0, <1>s, <1>a, <2>3
  <2> QED BY <1>p, <2>2, <2>4
<1>2. CASE ~(c.tokens < 1) /\ Len(q) + 1 > QueueLimit
  <2>1. d = [paid EXCEPT !.byQueue = @ + 1]
    BY <1>d, <1>2 DEF Enqueue, CounterRecord
  <2> HIDE DEF paid
  <2>2. /\ d \in CounterRecord /\ d.byRate = r /\ d.byQueue = b + 1 /\ d.queue = q
    BY <1>0, <1>2, <1>c, <2>1 DEF CounterRecord
  <2>3. \A u \in Nat : Accounted(d, u, n + 1) <=>
            s + (t + r + (b + 1) + u) <= n + 1 /\ (s < n + 1 => t + r + (b + 1) + u > 0)
    BY <2>2, AccountIs
  <2>4. \A u \in Nat : Accounted(c, u, n) => Accounted(d, u, n + 1)
    <3> HIDE DEF s, t, r, b
    <3> QED BY <1>0, <1>s, <1>a, <2>3
  <2> QED BY <1>p, <2>2, <2>4
<1>3. CASE ~(c.tokens < 1) /\ ~(Len(q) + 1 > QueueLimit)
  <2>1. d = [paid EXCEPT !.queue = Append(q, it)]
    BY <1>d, <1>3 DEF Enqueue, CounterRecord
  <2> HIDE DEF paid
  <2>2. /\ it \in Item /\ it.filePending /\ it.consolePending
        /\ it.entry.record = n + 1 /\ it.entry.count = 0
    BY EntriesAreLines DEF QueuedEntry, RecordEntry
  <2> HIDE DEF it
  <2>3. Append(q, it) \in Seq(Item)
    BY <1>0, <2>2
  <2>4. /\ d \in CounterRecord /\ d.byRate = r /\ d.byQueue = b /\ d.queue = Append(q, it)
    <3> DEFINE more == Append(q, it)
    <3>1. more \in Seq(Item) /\ d = [paid EXCEPT !.queue = more]
          /\ paid \in CounterRecord /\ paid.byRate = r /\ paid.byQueue = b
      BY <1>0, <1>3, <1>c, <2>1, <2>3
    <3> HIDE DEF more, r, b
    <3>2. d \in CounterRecord /\ d.byRate = r /\ d.byQueue = b /\ d.queue = more
      BY <3>1 DEF CounterRecord
    <3> QED BY <3>2 DEF more
  <2>5. Written(n) /\ Placed(q, n) => Placed(d.queue, n + 1)
    <3> HIDE DEF q
    <3>1. Written(n) /\ Placed(q, n) => Placed(Append(q, it), n + 1)
      BY <1>0, <2>2, PlacedAppend
    <3> QED BY <2>4, <3>1
  <2>6. /\ RecordsSeen(offered, d.queue) = s + 1
        /\ RecordsTold(offered, d.queue) = t
    <3>1. offered \in Seq(Line)
      BY DEF LogTypes
    <3>2. /\ RecordsSeen(offered, Append(q, it)) = s + (IF it.entry.record # 0 THEN 1 ELSE 0)
          /\ RecordsTold(offered, Append(q, it)) = t + it.entry.count
      <4> HIDE DEF q
      <4> QED BY <1>0, <2>2, <3>1, OneMoreSeen
    <3>3. n + 1 # 0 /\ t + 0 = t
      BY <1>s
    <3> HIDE DEF s, t, q
    <3> QED BY <2>2, <2>4, <3>2, <3>3
  <2>7. \A u \in Nat : Accounted(d, u, n + 1) <=>
            (s + 1) + (t + r + b + u) <= n + 1 /\ (s + 1 < n + 1 => t + r + b + u > 0)
    BY <2>4, <2>6, AccountIs
  <2>8. \A u \in Nat : Accounted(c, u, n) => Accounted(d, u, n + 1)
    <3> HIDE DEF s, t, r, b
    <3> QED BY <1>0, <1>s, <1>a, <2>7
  <2> QED BY <2>4, <2>5, <2>8
<1> QED BY <1>1, <1>2, <1>3

\* Nothing has been logged, and nobody tells of anything.
LEMMA LogBegins == LogInit => LogInv
<1> SUFFICES ASSUME LogInit PROVE LogInv
  OBVIOUS
<1>1. LogTypes
  <2>1. \A S : <<>> \in Seq(S)
    OBVIOUS
  <2>2. backlog \in Seq(Item) /\ offered \in Seq(Line) /\ segments \in [1..SegmentCount -> Seq(Line)]
    BY <2>1 DEF LogInit
  <2>3. rateTokens \in Nat
    BY LocalLogAssumption DEF LogInit
  <2> QED BY <2>2, <2>3 DEF LogInit, LogTypes
<1>2. DOMAIN offered = {} /\ DOMAIN backlog = {} /\ \A a \in 1..SegmentCount : DOMAIN segments[a] = {}
  BY DEF LogInit
<1>3. Written(logged) /\ Placed(backlog, logged) /\ InLogOrder(offered) /\ FilesInOrder(segments)
  BY <1>2 DEF Written, Placed, InLogOrder, FilesInOrder
<1>4. SeenAt(offered, backlog) = {}
  BY <1>2 DEF SeenAt
<1>5. RecordsSeen(offered, backlog) = 0 /\ RecordsTold(offered, backlog) = 0
  <2>1. \A f : DOMAIN f = {} => Total(f) = 0
    <3> SUFFICES ASSUME NEW f, DOMAIN f = {} PROVE Total(f) = 0
      OBVIOUS
    <3>1. UNION {{x} \X (1..f[x]) : x \in DOMAIN f} = {}
      OBVIOUS
    <3> QED BY <3>1, FS_EmptySet DEF Total
  <2> QED BY <1>4, <2>1 DEF RecordsSeen, RecordsTold
<1>6. Counters.queue = backlog /\ Counters.byRate = 0 /\ Counters.byQueue = 0 /\ Duplicates = 0 /\ logged = 0
  BY DEF LogInit, Counters, Duplicates
<1>7. Accounted(Counters, Duplicates, logged)
  BY <1>5, <1>6 DEF Accounted
<1>8. StagesReported
  BY DEF LogInit, StagesReported
<1> QED BY <1>1, <1>3, <1>7, <1>8 DEF LogInv

\* What the counters become, with what was offered to the console and is in the files.
LEMMA CountersBecome ==
    ASSUME LogTypes, NEW d \in CounterRecord, SetCounters(d), UNCHANGED <<segments, offered>>, NEW n \in Nat,
           logged' = n, Placed(d.queue, n), Written(n), InLogOrder(offered), FilesInOrder(segments)
    PROVE  /\ Counters' = d
           /\ backlog' = d.queue /\ byRate' = d.byRate /\ byQueue' = d.byQueue
           /\ rateTokens' \in Nat /\ byRate' \in Nat /\ byQueue' \in Nat /\ backlog' \in Seq(Item)
           /\ Written(logged)' /\ Placed(backlog, logged)' /\ InLogOrder(offered)' /\ FilesInOrder(segments)'
           /\ \A u : Accounted(d, u, n) /\ Duplicates' = u => Accounted(Counters, Duplicates, logged)'
<1>1. /\ backlog' = d.queue /\ byRate' = d.byRate /\ byQueue' = d.byQueue
      /\ rateTokens' \in Nat /\ byRate' \in Nat /\ byQueue' \in Nat /\ backlog' \in Seq(Item)
      /\ Counters' = d
  BY DEF SetCounters, CounterRecord, Counters
<1>2. Written(logged)'
  BY DEF Written
<1>3. Placed(backlog, logged)'
  BY <1>1 DEF Placed
<1>4. InLogOrder(offered)' /\ FilesInOrder(segments)'
  BY DEF InLogOrder, FilesInOrder
<1>5. \A u : Accounted(d, u, n) /\ Duplicates' = u => Accounted(Counters, Duplicates, logged)'
  <2> SUFFICES ASSUME NEW u, Accounted(d, u, n), Duplicates' = u PROVE Accounted(Counters, Duplicates, logged)'
    OBVIOUS
  <2> QED BY <1>1 DEF Accounted
<1> QED BY <1>1, <1>2, <1>3, <1>4, <1>5

LEMMA CountersAreTyped ==
    LogTypes => /\ Counters \in CounterRecord /\ Counters.queue = backlog
                /\ Counters.byRate = byRate /\ Counters.byQueue = byQueue
  BY DEF LogTypes, Counters, CounterRecord

\* A count that is set back and summarised is told as before.
LEMMA ReportKeeps ==
    ASSUME LogTypes, NEW c \in CounterRecord, NEW n \in Nat
    PROVE  \A d \in {ReportRate(c), ReportQueue(c)} :
               /\ d \in CounterRecord
               /\ Written(n) /\ Placed(c.queue, n) => Placed(d.queue, n)
               /\ \A u \in Nat : Accounted(c, u, n) => Accounted(d, u, n)
<1> DEFINE s == RecordsSeen(offered, c.queue)
           t == RecordsTold(offered, c.queue)
           r == c.byRate
           b == c.byQueue
           noRate == [c EXCEPT !.byRate = 0]
           noQueue == [c EXCEPT !.byQueue = 0]
<1>1. s \in Nat /\ t \in Nat /\ r \in Nat /\ b \in Nat
  BY SeenIsCounted DEF LogTypes, CounterRecord
<1>2. /\ noRate \in CounterRecord /\ noRate.queue = c.queue /\ noRate.byRate = 0 /\ noRate.byQueue = b
      /\ noQueue \in CounterRecord /\ noQueue.queue = c.queue /\ noQueue.byRate = r /\ noQueue.byQueue = 0
  BY DEF CounterRecord
<1>3. \A u \in Nat : /\ Accounted(c, u, n) <=> s + (t + r + b + u) <= n /\ (s < n => t + r + b + u > 0)
                     /\ Accounted(noRate, r + u, n) <=> s + (t + 0 + b + (r + u)) <= n /\ (s < n => t + 0 + b + (r + u) > 0)
                     /\ Accounted(noQueue, b + u, n) <=> s + (t + r + 0 + (b + u)) <= n /\ (s < n => t + r + 0 + (b + u) > 0)
  <2> HIDE DEF noRate, noQueue
  <2> QED BY <1>2, AccountIs
<1>4. \A u \in Nat : Accounted(c, u, n) => Accounted(noRate, r + u, n) /\ Accounted(noQueue, b + u, n)
  <2> HIDE DEF s, t, r, b, noRate, noQueue
  <2> QED BY <1>1, <1>3
<1>5. ASSUME NEW d, d = EnqueueSuppression(noRate, r) \/ d = EnqueueSuppression(noQueue, b) \/ d = c
      PROVE  /\ d \in CounterRecord
             /\ Written(n) /\ Placed(c.queue, n) => Placed(d.queue, n)
             /\ \A u \in Nat : Accounted(c, u, n) => Accounted(d, u, n)
  <2>1. CASE d = c
    BY <2>1
  <2>2. CASE d = EnqueueSuppression(noRate, r)
    <3>1. /\ d \in CounterRecord
          /\ Written(n) /\ Placed(noRate.queue, n) => Placed(d.queue, n)
          /\ \A u \in Nat : Accounted(noRate, r + u, n) => Accounted(d, u, n)
      <4>1. noRate \in CounterRecord /\ r \in Nat
        BY <1>1, <1>2
      <4> HIDE DEF noRate, r
      <4>2. d \in CounterRecord
        BY <4>1, <2>2, SummaryKeeps
      <4>3. Written(n) /\ Placed(noRate.queue, n) => Placed(d.queue, n)
        BY <4>1, <2>2, SummaryKeeps
      <4>4. \A u \in Nat : Accounted(noRate, r + u, n) => Accounted(d, u, n)
        BY <4>1, <2>2, SummaryKeeps
      <4> QED BY <4>2, <4>3, <4>4
    <3> HIDE DEF noRate, r
    <3> QED BY <1>2, <1>4, <3>1
  <2>3. CASE d = EnqueueSuppression(noQueue, b)
    <3>1. /\ d \in CounterRecord
          /\ Written(n) /\ Placed(noQueue.queue, n) => Placed(d.queue, n)
          /\ \A u \in Nat : Accounted(noQueue, b + u, n) => Accounted(d, u, n)
      <4>1. noQueue \in CounterRecord /\ b \in Nat
        BY <1>1, <1>2
      <4> HIDE DEF noQueue, b
      <4>2. d \in CounterRecord
        BY <4>1, <2>3, SummaryKeeps
      <4>3. Written(n) /\ Placed(noQueue.queue, n) => Placed(d.queue, n)
        BY <4>1, <2>3, SummaryKeeps
      <4>4. \A u \in Nat : Accounted(noQueue, b + u, n) => Accounted(d, u, n)
        BY <4>1, <2>3, SummaryKeeps
      <4> QED BY <4>2, <4>3, <4>4
    <3> HIDE DEF noQueue, b
    <3> QED BY <1>2, <1>4, <3>1
  <2> QED BY <1>5, <2>1, <2>2, <2>3
<1> QED
  <2> SUFFICES ASSUME NEW d, d = ReportRate(c) \/ d = ReportQueue(c)
               PROVE  d = EnqueueSuppression(noRate, r) \/ d = EnqueueSuppression(noQueue, b) \/ d = c
    BY <1>5
  <2> QED BY DEF ReportRate, ReportQueue

LEMMA AddKeeps ==
    ASSUME LogInv, NEW renewed \in BOOLEAN, NEW refilled \in BOOLEAN, AddRecord(renewed, refilled)
    PROVE  LogInv'
<1> DEFINE n == logged
           opens  == renewed \/ duplicate.emitted = 0
           opened == IF opens THEN OpenWindow(Counters) ELSE Counters
           filled == [opened EXCEPT !.tokens = IF refilled /\ @ < RateBurst THEN @ + 1 ELSE @]
           rated  == ReportRate(filled)
           said   == ReportQueue(rated)
           added  == Enqueue(said, RecordEntry(n + 1), FALSE)
           D      == duplicate.suppressed
           left   == IF opens THEN 0 ELSE D
<1>0. /\ LogTypes /\ Written(n) /\ Placed(backlog, n) /\ InLogOrder(offered) /\ FilesInOrder(segments)
      /\ n \in Nat /\ D \in Nat /\ left \in Nat
  BY DEF LogInv, LogTypes
<1>1. Counters \in CounterRecord /\ Placed(Counters.queue, n)
  BY <1>0, CountersAreTyped
<1>2. /\ opened \in CounterRecord /\ Placed(opened.queue, n)
      /\ Accounted(Counters, D, n) => Accounted(opened, left, n)
  <2>1. CASE opens
    <3>1. opened = EnqueueSuppression(Counters, D) /\ left = 0 /\ 0 \in Nat /\ D + 0 = D
      BY <1>0, <2>1 DEF OpenWindow
    <3> HIDE DEF opened, D
    <3>2. opened \in CounterRecord
      BY <1>0, <1>1, <3>1, SummaryKeeps
    <3>3. Placed(opened.queue, n)
      BY <1>0, <1>1, <3>1, SummaryKeeps
    <3>4. Accounted(Counters, D + 0, n) => Accounted(opened, 0, n)
      BY <1>0, <1>1, <3>1, SummaryKeeps
    <3> QED BY <3>1, <3>2, <3>3, <3>4
  <2>2. CASE ~opens
    BY <1>1, <2>2
  <2> QED BY <2>1, <2>2
<1> HIDE DEF opened
<1>3. /\ filled \in CounterRecord /\ filled.queue = opened.queue
      /\ Accounted(opened, left, n) => Accounted(filled, left, n)
  <2>1. /\ filled \in CounterRecord /\ filled.queue = opened.queue /\ filled.byRate = opened.byRate
        /\ filled.byQueue = opened.byQueue
    BY <1>2 DEF CounterRecord
  <2> HIDE DEF filled
  <2> QED BY <2>1 DEF Accounted
<1> HIDE DEF filled
<1>4. rated \in CounterRecord /\ Placed(rated.queue, n) /\ (Accounted(filled, left, n) => Accounted(rated, left, n))
  <2> HIDE DEF left
  <2>1. Placed(filled.queue, n)
    BY <1>2, <1>3
  <2> QED BY <1>0, <1>3, <2>1, ReportKeeps
<1> HIDE DEF rated
<1>5. said \in CounterRecord /\ Placed(said.queue, n) /\ (Accounted(rated, left, n) => Accounted(said, left, n))
  <2> HIDE DEF left
  <2> QED BY <1>0, <1>4, ReportKeeps
<1> HIDE DEF said
<1>6. added \in CounterRecord /\ Placed(added.queue, n + 1) /\ (Accounted(said, left, n) => Accounted(added, left, n + 1))
  <2> HIDE DEF left, n
  <2> QED BY <1>0, <1>5, RecordKeeps
<1> HIDE DEF added
<1>7. Written(n + 1)
  <2>1. \A k \in DOMAIN offered : offered[k].record \in Nat
    <3>1. \A k \in DOMAIN offered : offered[k] \in Line
      BY <1>0 DEF LogTypes
    <3> QED BY <3>1 DEF Line
  <2>2. \A a \in 1..SegmentCount : \A k \in DOMAIN segments[a] : segments[a][k].record \in Nat
    <3>1. \A a \in 1..SegmentCount : segments[a] \in Seq(Line)
      BY <1>0 DEF LogTypes
    <3>2. \A a \in 1..SegmentCount : \A k \in DOMAIN segments[a] : segments[a][k] \in Line
      BY <3>1
    <3> QED BY <3>2 DEF Line
  <2> HIDE DEF n
  <2> QED BY <1>0, <2>1, <2>2 DEF Written
<1>8. /\ logged' = n + 1 /\ UNCHANGED <<segments, offered, logStage>> /\ logStage # "closed"
      /\ late' = (late \/ logStage # "open")
      /\ \/ duplicate' = (IF opens THEN [emitted |-> 1, suppressed |-> 0] ELSE [duplicate EXCEPT !.emitted = @ + 1])
            /\ SetCounters(added)
         \/ ~opens /\ duplicate' = [duplicate EXCEPT !.suppressed = @ + 1]
            /\ UNCHANGED <<rateTokens, byRate, byQueue, backlog>>
  BY DEF AddRecord, opened, filled, rated, said, added
<1>9. CASE /\ duplicate' = (IF opens THEN [emitted |-> 1, suppressed |-> 0] ELSE [duplicate EXCEPT !.emitted = @ + 1])
           /\ SetCounters(added)
  <2>1. duplicate' \in [emitted : Nat, suppressed : Nat] /\ duplicate'.suppressed = left
    BY <1>0, <1>9 DEF LogTypes
  <2> HIDE DEF left
  <2>2. /\ Counters' = added
        /\ rateTokens' \in Nat /\ byRate' \in Nat /\ byQueue' \in Nat /\ backlog' \in Seq(Item)
        /\ Written(logged)' /\ Placed(backlog, logged)' /\ InLogOrder(offered)' /\ FilesInOrder(segments)'
        /\ \A u : Accounted(added, u, n + 1) /\ Duplicates' = u => Accounted(Counters, Duplicates, logged)'
    <3> HIDE DEF n
    <3>1. n + 1 \in Nat
      BY <1>0
    <3> QED BY <1>0, <1>6, <1>7, <1>8, <1>9, <3>1, CountersBecome
  <2>3. LogTypes'
    <3>1. logged' \in Nat
      BY <1>0, <1>8
    <3>2. segments' \in [1..SegmentCount -> Seq(Line)] /\ offered' \in Seq(Line) /\ late' \in BOOLEAN
          /\ logStage' \in {"open", "closing", "rate", "queue", "closed"}
      BY <1>0, <1>8 DEF LogTypes
    <3> QED BY <2>1, <2>2, <3>1, <3>2 DEF LogTypes
  <2>4. ~late' => Accounted(Counters, Duplicates, logged)' /\ StagesReported'
    <3> SUFFICES ASSUME ~late' PROVE Accounted(Counters, Duplicates, logged)' /\ StagesReported'
      OBVIOUS
    <3>1. ~late /\ logStage = "open" /\ logStage' = "open"
      BY <1>0, <1>8 DEF LogTypes
    <3>2. Accounted(Counters, D, n)
      BY <3>1 DEF LogInv, Duplicates
    <3>3. Duplicates' = left
      BY <2>1, <3>1 DEF Duplicates
    <3>4. Accounted(added, left, n + 1)
      BY <1>2, <1>3, <1>4, <1>5, <1>6, <3>2
    <3> QED BY <2>2, <3>1, <3>3, <3>4 DEF StagesReported
  <2> QED BY <2>2, <2>3, <2>4 DEF LogInv
<1>10. CASE ~opens /\ duplicate' = [duplicate EXCEPT !.suppressed = @ + 1] /\ UNCHANGED <<rateTokens, byRate, byQueue, backlog>>
  <2>1. duplicate' \in [emitted : Nat, suppressed : Nat] /\ duplicate'.suppressed = D + 1
    BY <1>0, <1>10 DEF LogTypes
  <2>2. LogTypes'
    BY <1>0, <1>8, <1>10, <2>1 DEF LogTypes
  <2>3. Written(logged)' /\ InLogOrder(offered)' /\ FilesInOrder(segments)'
    BY <1>0, <1>7, <1>8 DEF Written, InLogOrder, FilesInOrder
  <2>4. Placed(backlog, logged)'
    <3>1. backlog \in Seq(Item)
      BY <1>0 DEF LogTypes
    <3>2. Placed(backlog, n + 1)
      <4> HIDE DEF n
      <4> QED BY <1>0, <3>1, PlacedLater
    <3> QED BY <1>8, <1>10, <3>2 DEF Placed
  <2>5. ~late' => Accounted(Counters, Duplicates, logged)' /\ StagesReported'
    <3> SUFFICES ASSUME ~late' PROVE Accounted(Counters, Duplicates, logged)' /\ StagesReported'
      OBVIOUS
    <3>1. ~late /\ logStage = "open" /\ logStage' = "open"
      BY <1>0, <1>8 DEF LogTypes
    <3>2. Accounted(Counters, D, n)
      BY <3>1 DEF LogInv, Duplicates
    <3>3. Duplicates' = D + 1
      BY <2>1, <3>1 DEF Duplicates
    <3> DEFINE s == RecordsSeen(offered, backlog)
               t == RecordsTold(offered, backlog)
    <3>4. s + (t + byRate + byQueue + D) <= n
      BY <3>2 DEF Accounted, Counters
    <3>5. s \in Nat /\ t \in Nat /\ byRate \in Nat /\ byQueue \in Nat
      BY <1>0, SeenIsCounted DEF LogTypes
    <3>6. s + (t + byRate + byQueue + (D + 1)) <= n + 1 /\ (s < n + 1 => t + byRate + byQueue + (D + 1) > 0)
      <4> HIDE DEF s, t, n, D
      <4> QED BY <1>0, <3>4, <3>5
    <3>7. Accounted(Counters, Duplicates, logged)'
      <4> HIDE DEF D
      <4> QED BY <1>8, <1>10, <3>3, <3>6 DEF Accounted, Counters
    <3> QED BY <3>1, <3>7 DEF StagesReported
  <2> QED BY <2>2, <2>3, <2>4, <2>5 DEF LogInv
<1> QED BY <1>8, <1>9, <1>10

\* The order of what was written and of what waits, and the account, are about these
\* variables alone.
LEMMA OrderUnchanged ==
    ASSUME LogInv, UNCHANGED <<logged, segments, offered, backlog>>
    PROVE  Written(logged)' /\ Placed(backlog, logged)' /\ InLogOrder(offered)' /\ FilesInOrder(segments)'
  BY DEF LogInv, Written, Placed, InLogOrder, FilesInOrder

\* close() sets a count back and queues its summary.
LEMMA CloseReports ==
    ASSUME LogTypes, NEW c \in CounterRecord, NEW k \in Nat, Placed(c.queue, logged), c.queue = backlog,
           Written(logged), InLogOrder(offered), FilesInOrder(segments),
           SetCounters(EnqueueSuppression(c, k)),
           logStage' \in {"closing", "rate", "queue"}, UNCHANGED <<logged, duplicate, segments, offered, late>>
    PROVE  /\ LogTypes' /\ Written(logged)' /\ Placed(backlog, logged)' /\ InLogOrder(offered)' /\ FilesInOrder(segments)'
           /\ byRate' = c.byRate
           /\ backlog = <<>> => byQueue' = c.byQueue
           /\ Accounted(c, k, logged) => Accounted(Counters, Duplicates, logged)'
<1> DEFINE d == EnqueueSuppression(c, k)
           n == logged
<1>0. n \in Nat /\ 0 \in Nat /\ k + 0 = k
  BY DEF LogTypes
<1>1. d \in CounterRecord /\ d.byRate = c.byRate /\ (c.queue = <<>> => d.byQueue = c.byQueue)
  <2> HIDE DEF n
  <2> QED BY <1>0, SummaryKeeps
<1>2. Placed(d.queue, n)
  <2>1. Written(n) /\ Placed(c.queue, n)
    OBVIOUS
  <2> HIDE DEF n
  <2> QED BY <1>0, <2>1, SummaryKeeps
<1>3. Accounted(c, k + 0, n) => Accounted(d, 0, n)
  <2> HIDE DEF n
  <2> QED BY <1>0, SummaryKeeps
<1> HIDE DEF d
<1>s. SetCounters(d)
  BY DEF d
<1>4. /\ Counters' = d
      /\ byRate' = d.byRate /\ byQueue' = d.byQueue
      /\ rateTokens' \in Nat /\ byRate' \in Nat /\ byQueue' \in Nat /\ backlog' \in Seq(Item)
      /\ Written(logged)' /\ Placed(backlog, logged)' /\ InLogOrder(offered)' /\ FilesInOrder(segments)'
      /\ \A u : Accounted(d, u, n) /\ Duplicates' = u => Accounted(Counters, Duplicates, logged)'
  BY <1>0, <1>1, <1>2, <1>s, CountersBecome
<1>5. LogTypes'
  BY <1>4 DEF LogTypes
<1>6. Duplicates' = 0
  BY DEF Duplicates
<1> QED BY <1>0, <1>1, <1>3, <1>4, <1>5, <1>6

LEMMA CloseKeeps == ASSUME LogInv, BeginClose \/ CloseRate \/ CloseQueue \/ EndClose PROVE LogInv'
<1>0. /\ LogTypes /\ Written(logged) /\ Placed(backlog, logged) /\ InLogOrder(offered) /\ FilesInOrder(segments)
      /\ ~late => Accounted(Counters, Duplicates, logged) /\ StagesReported
      /\ Counters \in CounterRecord /\ Counters.queue = backlog
      /\ Counters.byRate = byRate /\ Counters.byQueue = byQueue
  BY CountersAreTyped DEF LogInv
<1>n. /\ byRate \in Nat /\ byQueue \in Nat /\ duplicate.suppressed \in Nat
      /\ RecordsSeen(offered, backlog) \in Nat /\ RecordsTold(offered, backlog) \in Nat
  BY <1>0, SeenIsCounted DEF LogTypes
<1>1. CASE BeginClose
  <2>1. /\ logStage = "open" /\ logStage' = "closing" /\ SetCounters(EnqueueSuppression(Counters, duplicate.suppressed))
        /\ UNCHANGED <<logged, duplicate, segments, offered, late>>
    BY <1>1 DEF BeginClose
  <2>2. /\ LogTypes' /\ Written(logged)' /\ Placed(backlog, logged)' /\ InLogOrder(offered)' /\ FilesInOrder(segments)'
        /\ Accounted(Counters, duplicate.suppressed, logged) => Accounted(Counters, Duplicates, logged)'
    BY <1>0, <1>n, <2>1, CloseReports
  <2>3. ~late => Accounted(Counters, duplicate.suppressed, logged)
    BY <1>0, <2>1 DEF Duplicates
  <2>4. StagesReported'
    BY <2>1 DEF StagesReported
  <2> QED BY <2>1, <2>2, <2>3, <2>4 DEF LogInv
<1>2. CASE CloseRate
  <2> DEFINE c == [Counters EXCEPT !.byRate = 0]
  <2>1. /\ logStage = "closing" /\ logStage' = "rate" /\ backlog = <<>> /\ SetCounters(EnqueueSuppression(c, byRate))
        /\ UNCHANGED <<logged, duplicate, segments, offered, late>>
    BY <1>2 DEF CloseRate
  <2>2. c \in CounterRecord /\ c.queue = backlog /\ c.byRate = 0 /\ c.byQueue = byQueue
    BY <1>0 DEF CounterRecord
  <2> HIDE DEF c
  <2>3. /\ LogTypes' /\ Written(logged)' /\ Placed(backlog, logged)' /\ InLogOrder(offered)' /\ FilesInOrder(segments)'
        /\ byRate' = 0
        /\ Accounted(c, byRate, logged) => Accounted(Counters, Duplicates, logged)'
    BY <1>0, <1>n, <2>1, <2>2, CloseReports
  <2>4. ~late => Accounted(c, byRate, logged)
    <3> DEFINE s == RecordsSeen(offered, backlog)
               t == RecordsTold(offered, backlog)
    <3>1. Accounted(Counters, 0, logged) <=>
              s + (t + byRate + byQueue + 0) <= logged /\ (s < logged => t + byRate + byQueue + 0 > 0)
      BY <1>0, AccountIs
    <3>2. Accounted(c, byRate, logged) <=>
              s + (t + 0 + byQueue + byRate) <= logged /\ (s < logged => t + 0 + byQueue + byRate > 0)
      BY <2>2, AccountIs
    <3>3. ~late => Accounted(Counters, 0, logged)
      BY <1>0, <2>1 DEF Duplicates
    <3> HIDE DEF s, t
    <3>4. s \in Nat /\ t \in Nat
      BY <1>n DEF s, t
    <3> QED BY <1>n, <3>1, <3>2, <3>3, <3>4
  <2>5. StagesReported'
    BY <2>1, <2>3 DEF StagesReported
  <2> QED BY <2>1, <2>3, <2>4, <2>5 DEF LogInv
<1>3. CASE CloseQueue
  <2> DEFINE c == [Counters EXCEPT !.byQueue = 0]
  <2>1. /\ logStage = "rate" /\ logStage' = "queue" /\ backlog = <<>> /\ SetCounters(EnqueueSuppression(c, byQueue))
        /\ UNCHANGED <<logged, duplicate, segments, offered, late>>
    BY <1>3 DEF CloseQueue
  <2>2. c \in CounterRecord /\ c.queue = backlog /\ c.byRate = byRate /\ c.byQueue = 0
    BY <1>0 DEF CounterRecord
  <2> HIDE DEF c
  <2>3. /\ LogTypes' /\ Written(logged)' /\ Placed(backlog, logged)' /\ InLogOrder(offered)' /\ FilesInOrder(segments)'
        /\ byRate' = byRate /\ byQueue' = 0
        /\ Accounted(c, byQueue, logged) => Accounted(Counters, Duplicates, logged)'
    BY <1>0, <1>n, <2>1, <2>2, CloseReports
  <2>4. ~late => Accounted(c, byQueue, logged)
    <3> DEFINE s == RecordsSeen(offered, backlog)
               t == RecordsTold(offered, backlog)
    <3>1. Accounted(Counters, 0, logged) <=>
              s + (t + byRate + byQueue + 0) <= logged /\ (s < logged => t + byRate + byQueue + 0 > 0)
      BY <1>0, AccountIs
    <3>2. Accounted(c, byQueue, logged) <=>
              s + (t + byRate + 0 + byQueue) <= logged /\ (s < logged => t + byRate + 0 + byQueue > 0)
      BY <2>2, AccountIs
    <3>3. ~late => Accounted(Counters, 0, logged)
      BY <1>0, <2>1 DEF Duplicates
    <3> HIDE DEF s, t
    <3>4. s \in Nat /\ t \in Nat
      BY <1>n DEF s, t
    <3> QED BY <1>n, <3>1, <3>2, <3>3, <3>4
  <2>5. ~late => StagesReported'
    BY <1>0, <2>1, <2>3 DEF StagesReported
  <2> QED BY <2>1, <2>3, <2>4, <2>5 DEF LogInv
<1>4. CASE EndClose
  <2>1. /\ logStage' = "closed" /\ logStage # "open"
        /\ (logStage = "queue" /\ backlog = <<>>) \/ backlog # <<>>
        /\ UNCHANGED <<logged, duplicate, rateTokens, byRate, byQueue, backlog, segments, offered, late>>
    BY <1>4 DEF EndClose
  <2>2. LogTypes'
    BY <1>0, <2>1 DEF LogTypes
  <2>3. Written(logged)' /\ Placed(backlog, logged)' /\ InLogOrder(offered)' /\ FilesInOrder(segments)'
    BY <2>1, OrderUnchanged
  <2>4. ~late => Accounted(Counters, Duplicates, logged)'
    <3>1. Duplicates = 0 /\ Duplicates' = 0
      BY <2>1 DEF Duplicates
    <3> QED BY <1>0, <2>1, <3>1 DEF Accounted, Counters
  <2>5. ~late => StagesReported'
    BY <1>0, <2>1 DEF StagesReported
  <2> QED BY <2>1, <2>2, <2>3, <2>4, <2>5 DEF LogInv
<1> QED BY <1>1, <1>2, <1>3, <1>4

\* Nothing is in the files but what was in them and the batch.
OnlyAdded(now, files, added) ==
    \A a \in 1..SegmentCount : \A k \in DOMAIN now[a] :
        \/ \E b \in 1..SegmentCount : \E j \in DOMAIN files[b] : now[a][k] = files[b][j]
        \/ \E j \in DOMAIN added : now[a][k] = added[j]

\* A batch that is later than all in the files.
Follows(added, files) ==
    \A a \in 1..SegmentCount : \A k \in DOMAIN files[a], j \in DOMAIN added : Precedes(files[a][k], added[j])

\* What is in the files after a batch was appended, which is later than what was there.
LEMMA AppendedInOrder ==
    ASSUME NEW files \in [1..SegmentCount -> Seq(Line)], FilesInOrder(files),
           NEW added \in Seq(Line), InLogOrder(added),
           Follows(added, files),
           NEW now, now = AppendedBatch(files, added)
    PROVE  /\ now \in [1..SegmentCount -> Seq(Line)]
           /\ FilesInOrder(now)
           /\ OnlyAdded(now, files, added)
<1> DEFINE kept == IF Len(files[1]) + Len(added) > SegmentLimit THEN RotatedSegments(files) ELSE files
<1>0. SegmentCount \in Nat /\ 1 \in 1..SegmentCount
  BY LocalLogAssumption
<1>1. /\ kept \in [1..SegmentCount -> Seq(Line)]
      /\ \A a \in 1..SegmentCount : kept[a] = <<>> \/ \E b \in 1..SegmentCount : kept[a] = files[b]
      /\ FilesInOrder(kept)
  <2>1. CASE kept = files
    BY <2>1
  <2>2. CASE kept = RotatedSegments(files)
    <3>1. ASSUME NEW a \in 1..SegmentCount PROVE kept[a] \in Seq(Line) /\ kept[a] = IF a = 1 THEN <<>> ELSE files[a - 1]
      <4> HIDE DEF kept
      <4>0. <<>> \in Seq(Line)
        OBVIOUS
      <4>1. kept[a] = IF a = 1 THEN <<>> ELSE files[a - 1]
        BY <2>2 DEF RotatedSegments
      <4>2. CASE a = 1
        BY <4>0, <4>1, <4>2
      <4>3. CASE a # 1
        <5>1. a - 1 \in 1..SegmentCount
          BY <1>0, <4>3
        <5> QED BY <4>1, <4>3, <5>1
      <4> QED BY <4>1, <4>2, <4>3
    <3>2. DOMAIN kept = 1..SegmentCount /\ kept = [a \in 1..SegmentCount |-> kept[a]]
      BY <2>2 DEF RotatedSegments
    <3> HIDE DEF kept
    <3>3. kept \in [1..SegmentCount -> Seq(Line)]
      BY <3>1, <3>2
    <3>4. \A a \in 1..SegmentCount : a # 1 => a - 1 \in 1..SegmentCount
      BY <1>0
    <3>5. \A a \in 1..SegmentCount : kept[a] = <<>> \/ \E b \in 1..SegmentCount : kept[a] = files[b]
      BY <3>1, <3>4
    <3>6. ASSUME NEW a \in 1..SegmentCount PROVE InLogOrder(kept[a])
      <4>1. CASE a = 1
        <5>1. kept[a] = <<>>
          BY <3>1, <4>1
        <5>2. DOMAIN kept[a] = {}
          BY <5>1
        <5> QED BY <5>2 DEF InLogOrder
      <4>2. CASE a # 1
        BY <3>1, <3>4, <4>2 DEF FilesInOrder
      <4> QED BY <4>1, <4>2
    <3>7. ASSUME NEW a \in 1..SegmentCount, NEW b \in 1..SegmentCount, a > b,
                 NEW i \in DOMAIN kept[a], NEW j \in DOMAIN kept[b]
          PROVE  Precedes(kept[a][i], kept[b][j])
      <4>1. a # 1 /\ a - 1 > b - 1 /\ kept[a] = files[a - 1]
        BY <1>0, <3>1, <3>7
      <4>2. b # 1 /\ kept[b] = files[b - 1]
        <5>1. CASE b = 1
          <6>1. kept[b] = <<>>
            BY <3>1, <5>1
          <6>2. DOMAIN kept[b] = {}
            BY <6>1
          <6> QED BY <3>7, <6>2
        <5> QED BY <3>1, <5>1
      <4> QED BY <3>4, <3>7, <4>1, <4>2 DEF FilesInOrder
    <3> QED BY <3>3, <3>5, <3>6, <3>7 DEF FilesInOrder
  <2> QED BY <2>1, <2>2
<1>2. now = [kept EXCEPT ![1] = @ \o added]
  BY DEF AppendedBatch
<1> HIDE DEF kept
<1>3. /\ now[1] = kept[1] \o added /\ \A a \in 1..SegmentCount : a # 1 => now[a] = kept[a]
      /\ kept[1] \in Seq(Line) /\ kept[1] \o added \in Seq(Line)
      /\ now \in [1..SegmentCount -> Seq(Line)]
  BY <1>0, <1>1, <1>2
<1>4. \A a \in 1..SegmentCount : \A k \in DOMAIN kept[a], j \in DOMAIN added : Precedes(kept[a][k], added[j])
  <2> SUFFICES ASSUME NEW a \in 1..SegmentCount, NEW k \in DOMAIN kept[a], NEW j \in DOMAIN added
               PROVE  Precedes(kept[a][k], added[j])
    OBVIOUS
  <2>0. \A b \in 1..SegmentCount : \A i \in DOMAIN files[b] : Precedes(files[b][i], added[j])
    BY DEF Follows
  <2>1. CASE kept[a] = <<>>
    <3>1. DOMAIN kept[a] = {}
      BY <2>1
    <3> QED BY <3>1
  <2>2. CASE \E b \in 1..SegmentCount : kept[a] = files[b]
    BY <2>0, <2>2
  <2> QED BY <1>1, <2>1, <2>2
<1> DEFINE l == Len(kept[1])
<1>5. /\ l \in Nat /\ DOMAIN kept[1] = 1..l /\ DOMAIN added = 1..Len(added) /\ Len(added) \in Nat
      /\ DOMAIN now[1] = 1..(l + Len(added))
      /\ \A k \in 1..l : now[1][k] = kept[1][k]
      /\ \A k \in DOMAIN now[1] : k > l => k - l \in DOMAIN added /\ now[1][k] = added[k - l]
  BY <1>3
<1>6. ASSUME NEW i \in DOMAIN now[1], NEW j \in DOMAIN now[1], i < j PROVE Precedes(now[1][i], now[1][j])
  <2> HIDE DEF l
  <2>1. CASE j <= l
    <3>1. i \in 1..l /\ j \in 1..l
      BY <1>5, <1>6, <2>1
    <3>2. InLogOrder(kept[1])
      BY <1>0, <1>1 DEF FilesInOrder
    <3> QED BY <1>5, <1>6, <3>1, <3>2 DEF InLogOrder
  <2>2. CASE i <= l /\ j > l
    <3>1. i \in DOMAIN kept[1] /\ j - l \in DOMAIN added
      BY <1>5, <1>6, <2>2
    <3> QED BY <1>0, <1>4, <1>5, <2>2, <3>1
  <2>3. CASE i > l
    <3>1. i - l \in DOMAIN added /\ j - l \in DOMAIN added /\ i - l < j - l /\ j > l
      BY <1>5, <1>6, <2>3
    <3> QED BY <1>5, <2>3, <3>1 DEF InLogOrder
  <2> QED BY <1>5, <1>6, <2>1, <2>2, <2>3
<1>7. ASSUME NEW a \in 1..SegmentCount PROVE InLogOrder(now[a])
  <2>1. CASE a = 1
    BY <1>6, <2>1 DEF InLogOrder
  <2>2. CASE a # 1
    BY <1>1, <1>3, <2>2 DEF FilesInOrder
  <2> QED BY <2>1, <2>2
<1>8. ASSUME NEW a \in 1..SegmentCount, NEW b \in 1..SegmentCount, a > b,
             NEW i \in DOMAIN now[a], NEW j \in DOMAIN now[b]
      PROVE  Precedes(now[a][i], now[b][j])
  <2>0. b \in Int /\ 1 <= b /\ a \in Int
    BY <1>0
  <2>n. a # 1
    BY <1>8, <2>0
  <2>1. a # 1 /\ now[a] = kept[a]
    BY <1>3, <2>n
  <2>2. CASE b # 1
    BY <1>1, <1>3, <1>8, <2>1, <2>2 DEF FilesInOrder
  <2>3. CASE b = 1
    <3> HIDE DEF l
    <3>1. CASE j <= l
      <4>1. j \in DOMAIN kept[1] /\ now[b][j] = kept[1][j]
        BY <1>5, <1>8, <2>3, <3>1
      <4> QED BY <1>1, <1>8, <2>1, <2>3, <4>1 DEF FilesInOrder
    <3>2. CASE j > l
      <4>1. j - l \in DOMAIN added /\ now[b][j] = added[j - l]
        BY <1>5, <1>8, <2>3, <3>2
      <4> QED BY <1>4, <1>8, <2>1, <4>1
    <3> QED BY <1>5, <1>8, <2>3, <3>1, <3>2
  <2> QED BY <2>2, <2>3
<1>9. ASSUME NEW a \in 1..SegmentCount, NEW k \in DOMAIN now[a]
      PROVE  \/ \E b \in 1..SegmentCount : \E j \in DOMAIN files[b] : now[a][k] = files[b][j]
             \/ \E j \in DOMAIN added : now[a][k] = added[j]
  <2>1. ASSUME k \in DOMAIN kept[a], now[a][k] = kept[a][k]
        PROVE  \E b \in 1..SegmentCount : \E j \in DOMAIN files[b] : now[a][k] = files[b][j]
    <3>1. kept[a] # <<>>
      <4>1. CASE kept[a] = <<>>
        <5>1. DOMAIN kept[a] = {}
          BY <4>1
        <5> QED BY <2>1, <5>1
      <4> QED BY <4>1
    <3> QED BY <1>1, <2>1, <3>1
  <2>2. CASE a # 1
    BY <1>3, <1>9, <2>1, <2>2
  <2>3. CASE a = 1
    <3> HIDE DEF l
    <3>1. CASE k <= l
      <4>1. k \in DOMAIN kept[1] /\ now[1][k] = kept[1][k]
        BY <1>5, <1>9, <2>3, <3>1
      <4> QED BY <2>1, <2>3, <4>1
    <3>2. CASE k > l
      BY <1>5, <1>9, <2>3, <3>2
    <3> QED BY <1>5, <1>9, <2>3, <3>1, <3>2
  <2> QED BY <2>2, <2>3
<1> QED BY <1>3, <1>7, <1>8, <1>9 DEF FilesInOrder, OnlyAdded

\* The lines at some places of the queue, in its order.
LEMMA LinesAre ==
    ASSUME backlog \in Seq(Item), NEW S \in SUBSET (1..Len(backlog))
    PROVE  \E m \in Nat : \E order \in [1..m -> S] :
               /\ Lines(S) \in Seq(Line) /\ Len(Lines(S)) = m /\ DOMAIN Lines(S) = 1..m
               /\ \A k \in 1..m : Lines(S)[k] = backlog[order[k]].entry
               /\ \A j, k \in 1..m : j < k => order[j] < order[k]
               /\ \A j, k \in 1..m : order[j] = order[k] => j = k
               /\ \A i \in S : \E k \in 1..m : order[k] = i
<1> DEFINE order == InOrder(S)
           m == Cardinality(S)
<1>1. /\ m \in Nat /\ order \in [1..m -> S]
      /\ \A j, k \in 1..m : j < k => order[j] < order[k]
      /\ \A j, k \in 1..m : order[j] = order[k] => j = k
      /\ \A i \in S : \E k \in 1..m : order[k] = i
  <2>1. Len(backlog) \in Nat /\ S \in SUBSET (0..Len(backlog))
    OBVIOUS
  <2> QED BY <2>1, Ordered
<1>2. Lines(S) = [k \in DOMAIN order |-> backlog[order[k]].entry]
  BY DEF Lines
<1> HIDE DEF order, m
<1>3. \A k \in 1..m : backlog[order[k]].entry \in Line
  <2> SUFFICES ASSUME NEW k \in 1..m PROVE backlog[order[k]].entry \in Line
    OBVIOUS
  <2>1. order[k] \in 1..Len(backlog)
    BY <1>1
  <2>2. backlog[order[k]] \in Item
    BY <2>1
  <2> QED BY <2>2 DEF Item
<1>4. Lines(S) \in [1..m -> Line] /\ \A k \in 1..m : Lines(S)[k] = backlog[order[k]].entry
  <2>1. DOMAIN order = 1..m
    BY <1>1
  <2> QED BY <1>2, <1>3, <2>1
<1>5. Lines(S) \in Seq(Line) /\ Len(Lines(S)) = m /\ DOMAIN Lines(S) = 1..m
  <2>1. Lines(S) \in Seq(Line)
    BY <1>1, <1>4
  <2> QED BY <1>1, <1>4, <2>1, LenProperties
<1> QED BY <1>1, <1>4, <1>5

\* What a flush leaves in the queue: the items of the batch have been shown, the others are
\* as they were.
Leaves(q, keep) ==
    /\ q \in Seq(Item)
    /\ keep \in [DOMAIN q -> DOMAIN backlog]
    /\ \A j, k \in DOMAIN q : j < k => keep[j] < keep[k]
    /\ \A k \in DOMAIN q : /\ q[k].entry = backlog[keep[k]].entry
                           /\ q[k].filePending
                           /\ q[k].consolePending <=> keep[k] > BatchLength /\ backlog[keep[k]].consolePending
    /\ \A i \in DOMAIN backlog : i > BatchLength => \E k \in DOMAIN q : keep[k] = i

LEMMA BatchIsAPart == LogTypes => /\ Len(backlog) \in Nat /\ DOMAIN backlog = 1..Len(backlog)
                                  /\ BatchLength \in Nat /\ BatchLength <= Len(backlog)
<1> SUFFICES ASSUME LogTypes PROVE Len(backlog) \in Nat /\ DOMAIN backlog = 1..Len(backlog)
                                   /\ BatchLength \in Nat /\ BatchLength <= Len(backlog)
  OBVIOUS
<1>1. Len(backlog) \in Nat /\ DOMAIN backlog = 1..Len(backlog) /\ BatchLimit \in Nat
  BY LocalLogAssumption DEF LogTypes
<1> QED BY <1>1 DEF BatchLength

\* The lock was busy: the whole queue stays.
LEMMA BusyLeaves ==
    ASSUME LogTypes, Placed(backlog, logged)
    PROVE  \E keep : Leaves(ConsoleServed, keep)
<1> DEFINE q == ConsoleServed
           keep == [k \in DOMAIN backlog |-> k]
<1>1. /\ Len(backlog) \in Nat /\ DOMAIN backlog = 1..Len(backlog) /\ BatchLength \in Nat
      /\ \A i \in DOMAIN backlog : backlog[i] \in Item /\ backlog[i].filePending
  <2>1. \A i \in DOMAIN backlog : backlog[i] \in Item
    BY DEF LogTypes
  <2> QED BY <2>1, BatchIsAPart DEF Placed
<1>2. DOMAIN q = DOMAIN backlog
  BY DEF ConsoleServed
<1>3. \A i \in DOMAIN backlog : /\ q[i] \in Item /\ q[i].entry = backlog[i].entry /\ q[i].filePending
                                /\ q[i].consolePending <=> i > BatchLength /\ backlog[i].consolePending
  <2> SUFFICES ASSUME NEW i \in DOMAIN backlog
               PROVE  /\ q[i] \in Item /\ q[i].entry = backlog[i].entry /\ q[i].filePending
                      /\ q[i].consolePending <=> i > BatchLength /\ backlog[i].consolePending
    OBVIOUS
  <2>1. i \in Nat /\ (i <= BatchLength \/ i > BatchLength)
    BY <1>1
  <2>2. CASE i <= BatchLength
    <3>1. q[i] = [backlog[i] EXCEPT !.consolePending = FALSE] /\ ~(i > BatchLength)
      BY <1>1, <2>2 DEF ConsoleServed
    <3> HIDE DEF q
    <3> QED BY <1>1, <3>1 DEF Item
  <2>3. CASE i > BatchLength
    <3>1. q[i] = backlog[i]
      BY <1>1, <2>3 DEF ConsoleServed
    <3> HIDE DEF q
    <3> QED BY <1>1, <2>3, <3>1
  <2> QED BY <2>1, <2>2, <2>3
<1>4. q \in Seq(Item)
  <2>1. q = [i \in 1..Len(backlog) |-> q[i]]
    BY <1>1 DEF ConsoleServed
  <2> HIDE DEF q
  <2>2. q \in [1..Len(backlog) -> Item]
    BY <1>1, <1>2, <1>3, <2>1
  <2> QED BY <1>1, <2>2
<1>5. keep \in [DOMAIN q -> DOMAIN backlog] /\ \A k \in DOMAIN q : keep[k] = k
  BY <1>2
<1> HIDE DEF q, keep
<1> QED BY <1>2, <1>3, <1>4, <1>5 DEF Leaves, q

\* The lock was free: the items of the batch have left the queue.
LEMMA ServedLeaves ==
    ASSUME LogTypes, Placed(backlog, logged)
    PROVE  \E keep : Leaves(FileServed, keep) /\ \A k \in DOMAIN FileServed : keep[k] > BatchLength
<1> DEFINE served == [i \in DOMAIN backlog |->
                        IF i <= BatchLength THEN [ConsoleServed[i] EXCEPT !.filePending = FALSE]
                                            ELSE backlog[i]]
           S == {i \in DOMAIN served : served[i].filePending \/ served[i].consolePending}
           order == InOrder(S)
           m == Cardinality(S)
           q == FileServed
<1>1. /\ Len(backlog) \in Nat /\ DOMAIN backlog = 1..Len(backlog) /\ BatchLength \in Nat
      /\ \A i \in DOMAIN backlog : backlog[i] \in Item /\ backlog[i].filePending
  <2>1. \A i \in DOMAIN backlog : backlog[i] \in Item
    BY DEF LogTypes
  <2> QED BY <2>1, BatchIsAPart DEF Placed
<1>2. \A i \in DOMAIN backlog : i \in Nat /\ (i <= BatchLength \/ i > BatchLength) /\ ~(i <= BatchLength /\ i > BatchLength)
  BY <1>1
<1>3. S = {i \in DOMAIN backlog : i > BatchLength}
  <2>1. ASSUME NEW i \in DOMAIN backlog, i <= BatchLength PROVE i \notin S
    <3>1. ConsoleServed[i] = [backlog[i] EXCEPT !.consolePending = FALSE]
      BY <2>1 DEF ConsoleServed
    <3>2. served[i] = [ConsoleServed[i] EXCEPT !.filePending = FALSE]
      BY <2>1
    <3>3. ConsoleServed[i] \in Item /\ ~ConsoleServed[i].consolePending
      BY <1>1, <3>1 DEF Item
    <3> HIDE DEF served
    <3>4. ~served[i].filePending /\ ~served[i].consolePending
      BY <3>2, <3>3 DEF Item
    <3> QED BY <3>4
  <2>2. ASSUME NEW i \in DOMAIN backlog, i > BatchLength PROVE i \in S
    <3>1. served[i] = backlog[i]
      BY <1>2, <2>2
    <3>2. i \in DOMAIN served
      OBVIOUS
    <3> HIDE DEF served
    <3> QED BY <1>1, <3>1, <3>2
  <2>3. S \subseteq DOMAIN backlog
    OBVIOUS
  <2> HIDE DEF S
  <2> QED BY <1>2, <2>1, <2>2, <2>3
<1>4. q = [k \in DOMAIN order |-> served[order[k]]]
  BY DEF FileServed
<1>5. \A i \in S : i \in DOMAIN backlog /\ i > BatchLength /\ served[i] = backlog[i]
  BY <1>2, <1>3
<1> HIDE DEF q, served, S
<1>6. /\ m \in Nat /\ order \in [1..m -> S]
      /\ \A j, k \in 1..m : j < k => order[j] < order[k]
      /\ \A i \in S : \E k \in 1..m : order[k] = i
  <2>1. S \in SUBSET (0..Len(backlog))
    BY <1>1, <1>3
  <2>2. Len(backlog) \in Nat
    BY <1>1
  <2> QED BY <2>1, <2>2, Ordered
<1> HIDE DEF order, m
<1>7. DOMAIN q = 1..m /\ \A k \in 1..m : q[k] = backlog[order[k]] /\ order[k] \in S /\ q[k] \in Item /\ q[k].filePending
  <2>1. DOMAIN order = 1..m /\ \A k \in 1..m : order[k] \in S
    BY <1>6
  <2>2. DOMAIN q = 1..m /\ \A k \in 1..m : q[k] = served[order[k]]
    BY <1>4, <2>1
  <2>3. \A k \in 1..m : q[k] = backlog[order[k]]
    BY <1>5, <2>1, <2>2
  <2> QED BY <1>1, <1>5, <2>1, <2>2, <2>3
<1>8. q \in Seq(Item)
  <2>1. q \in [1..m -> Item]
    <3>1. q = [k \in 1..m |-> q[k]]
      BY <1>4, <1>7
    <3> QED BY <1>7, <3>1
  <2> QED BY <1>6, <2>1
<1>9. order \in [DOMAIN q -> DOMAIN backlog]
  BY <1>5, <1>6, <1>7
<1>10. \A k \in DOMAIN q : /\ q[k].entry = backlog[order[k]].entry /\ q[k].filePending /\ order[k] > BatchLength
                           /\ q[k].consolePending <=> order[k] > BatchLength /\ backlog[order[k]].consolePending
  BY <1>5, <1>7
<1>11. \A i \in DOMAIN backlog : i > BatchLength => \E k \in DOMAIN q : order[k] = i
  BY <1>3, <1>6, <1>7
<1>12. Leaves(q, order)
  BY <1>6, <1>7, <1>8, <1>9, <1>10, <1>11 DEF Leaves
<1> QED BY <1>10, <1>12 DEF q

\* A flush shows what waits in the batch: nothing is seen twice and nothing gets lost.
LEMMA FlushShows ==
    ASSUME LogTypes, NEW q, NEW keep, Leaves(q, keep), NEW shown, shown = offered \o ConsoleLines
    PROVE  /\ shown \in Seq(Line)
           /\ RecordsSeen(shown, q) = RecordsSeen(offered, backlog)
           /\ RecordsTold(shown, q) = RecordsTold(offered, backlog)
<1> DEFINE S == {i \in 1..BatchLength : backlog[i].consolePending}
           l == Len(offered)
           A == SeenAt(offered, backlog)
           B == SeenAt(shown, q)
<1>0. /\ Len(backlog) \in Nat /\ DOMAIN backlog = 1..Len(backlog)
      /\ BatchLength \in Nat /\ BatchLength <= Len(backlog) /\ backlog \in Seq(Item) /\ offered \in Seq(Line)
      /\ l \in Nat /\ DOMAIN offered = 1..l
  BY BatchIsAPart DEF LogTypes
<1>1. S \in SUBSET (1..Len(backlog)) /\ \A i \in S : i \in DOMAIN backlog /\ i <= BatchLength /\ backlog[i].consolePending
  BY <1>0
<1>2. ConsoleLines = Lines(S)
  BY DEF ConsoleLines
<1> HIDE DEF S
<1>3. PICK m \in Nat : \E order \in [1..m -> S] :
          /\ Lines(S) \in Seq(Line) /\ Len(Lines(S)) = m /\ DOMAIN Lines(S) = 1..m
          /\ \A k \in 1..m : Lines(S)[k] = backlog[order[k]].entry
          /\ \A j, k \in 1..m : j < k => order[j] < order[k]
          /\ \A j, k \in 1..m : order[j] = order[k] => j = k
          /\ \A i \in S : \E k \in 1..m : order[k] = i
  BY <1>0, <1>1, LinesAre
<1>4. PICK order \in [1..m -> S] :
          /\ Lines(S) \in Seq(Line) /\ Len(Lines(S)) = m /\ DOMAIN Lines(S) = 1..m
          /\ \A k \in 1..m : Lines(S)[k] = backlog[order[k]].entry
          /\ \A j, k \in 1..m : j < k => order[j] < order[k]
          /\ \A j, k \in 1..m : order[j] = order[k] => j = k
          /\ \A i \in S : \E k \in 1..m : order[k] = i
  BY <1>3
<1>5. /\ shown \in Seq(Line) /\ DOMAIN shown = 1..(l + m)
      /\ \A k \in 1..l : k \in DOMAIN shown /\ shown[k] = offered[k]
      /\ \A k \in 1..(l + m) : k > l => k - l \in 1..m /\ shown[k] = Lines(S)[k - l]
      /\ \A k \in 1..m : k + l \in 1..(l + m) /\ k + l > l /\ (k + l) - l = k
  <2> DEFINE more == Lines(S)
  <2>1. more \in Seq(Line) /\ Len(more) = m /\ shown = offered \o more /\ offered \in Seq(Line)
    BY <1>0, <1>2, <1>4
  <2> HIDE DEF more
  <2>2. shown \in Seq(Line) /\ DOMAIN shown = 1..(l + m)
    <3>1. Len(offered \o more) = Len(offered) + Len(more) /\ offered \o more \in Seq(Line)
      BY <2>1
    <3>2. Len(shown) = l + m /\ shown \in Seq(Line)
      BY <2>1, <3>1
    <3> QED BY <3>2
  <2>3. \A k \in 1..l : k \in DOMAIN shown /\ shown[k] = offered[k]
    BY <1>3, <2>1
  <2>4. \A k \in 1..(l + m) : k > l => k - l \in 1..m /\ shown[k] = more[k - l]
    BY <1>3, <2>1
  <2>5. \A k \in 1..m : k + l \in 1..(l + m) /\ k + l > l /\ (k + l) - l = k
    BY <1>0, <1>3
  <2> QED BY <2>2, <2>3, <2>4, <2>5 DEF more
<1>6. /\ q \in Seq(Item) /\ keep \in [DOMAIN q -> DOMAIN backlog]
      /\ \A k \in DOMAIN q : /\ q[k].entry = backlog[keep[k]].entry
                             /\ q[k].consolePending <=> keep[k] > BatchLength /\ backlog[keep[k]].consolePending
      /\ \A i \in DOMAIN backlog : i > BatchLength => \E k \in DOMAIN q : keep[k] = i
  BY DEF Leaves
<1>7. \A j, k \in DOMAIN q : keep[j] = keep[k] => j = k
  <2> SUFFICES ASSUME NEW j \in DOMAIN q, NEW k \in DOMAIN q, keep[j] = keep[k], j # k PROVE FALSE
    OBVIOUS
  <2>1. DOMAIN q = 1..Len(q) /\ Len(q) \in Nat
    BY <1>6
  <2>2. j < k \/ k < j
    BY <2>1
  <2>3. keep[j] < keep[k] \/ keep[k] < keep[j]
    BY <2>2 DEF Leaves
  <2>4. keep[j] \in Nat
    BY <1>0, <1>6
  <2> QED BY <2>3, <2>4
<1> DEFINE h == [at \in B |-> IF at[1] = "queue" THEN <<"queue", keep[at[2]]>>
                              ELSE IF at[2] <= l THEN <<"console", at[2]>>
                              ELSE <<"queue", order[at[2] - l]>>]
<1>8. ASSUME NEW at \in B
      PROVE  \/ /\ at = <<"queue", at[2]>> /\ at[2] \in DOMAIN q /\ q[at[2]].consolePending
                /\ h[at] = <<"queue", keep[at[2]]>> /\ keep[at[2]] > BatchLength
             \/ /\ at = <<"console", at[2]>> /\ at[2] \in 1..l /\ h[at] = <<"console", at[2]>>
             \/ /\ at = <<"console", at[2]>> /\ at[2] \in 1..(l + m) /\ at[2] > l
                /\ at[2] - l \in 1..m /\ h[at] = <<"queue", order[at[2] - l]>>
                /\ order[at[2] - l] \in S /\ ~(order[at[2] - l] > BatchLength)
  <2>1. \/ at = <<"queue", at[2]>> /\ at[1] = "queue" /\ at[2] \in DOMAIN q /\ q[at[2]].consolePending
        \/ at = <<"console", at[2]>> /\ at[1] = "console" /\ at[2] \in DOMAIN shown
    BY DEF SeenAt
  <2>2. CASE at = <<"queue", at[2]>> /\ at[1] = "queue" /\ at[2] \in DOMAIN q /\ q[at[2]].consolePending
    BY <1>6, <2>2
  <2>3. CASE at = <<"console", at[2]>> /\ at[1] = "console" /\ at[2] \in DOMAIN shown
    <3>1. at[2] \in 1..(l + m) /\ at[2] \in Nat
      BY <1>0, <1>3, <1>5, <2>3
    <3>2. CASE at[2] <= l
      <4>1. at[2] \in 1..l
        BY <1>0, <1>3, <3>1, <3>2
      <4> QED BY <2>3, <3>2, <4>1
    <3>3. CASE ~(at[2] <= l)
      <4>1. at[2] > l
        BY <1>0, <3>1, <3>3
      <4>2. at[2] - l \in 1..m
        BY <1>5, <3>1, <4>1
      <4>3. order[at[2] - l] \in S
        BY <1>4, <4>2
      <4>4. ~(order[at[2] - l] > BatchLength)
        <5> DEFINE i == order[at[2] - l]
        <5>1. i \in DOMAIN backlog /\ i <= BatchLength
          BY <1>1, <4>3
        <5> HIDE DEF i
        <5>2. ~(i > BatchLength)
          BY <1>0, <5>1
        <5> QED BY <5>2 DEF i
      <4> QED BY <2>3, <3>1, <3>3, <4>1, <4>2, <4>3, <4>4
    <3> QED BY <3>2, <3>3
  <2> QED BY <2>1, <2>2, <2>3
<1> HIDE DEF h, l
<1>9. ASSUME NEW at \in B PROVE h[at] \in A /\ SeenLine(shown, q, at) = SeenLine(offered, backlog, h[at])
  <2>1. CASE /\ at = <<"queue", at[2]>> /\ at[2] \in DOMAIN q /\ q[at[2]].consolePending
             /\ h[at] = <<"queue", keep[at[2]]>> /\ keep[at[2]] > BatchLength
    <3>1. keep[at[2]] \in DOMAIN backlog /\ backlog[keep[at[2]]].consolePending
          /\ q[at[2]].entry = backlog[keep[at[2]]].entry
      BY <1>6, <2>1
    <3> QED BY <2>1, <3>1 DEF SeenAt, SeenLine
  <2>2. CASE at = <<"console", at[2]>> /\ at[2] \in 1..l /\ h[at] = <<"console", at[2]>>
    <3>1. at[2] \in DOMAIN offered /\ shown[at[2]] = offered[at[2]]
      BY <1>0, <1>5, <2>2
    <3> QED BY <2>2, <3>1 DEF SeenAt, SeenLine
  <2>3. CASE /\ at = <<"console", at[2]>> /\ at[2] \in 1..(l + m) /\ at[2] > l
             /\ at[2] - l \in 1..m /\ h[at] = <<"queue", order[at[2] - l]>>
             /\ order[at[2] - l] \in S /\ ~(order[at[2] - l] > BatchLength)
    <3> DEFINE i == order[at[2] - l]
    <3>1. i \in DOMAIN backlog /\ backlog[i].consolePending
      BY <1>1, <2>3
    <3>2. shown[at[2]] = backlog[i].entry
      BY <1>4, <1>5, <2>3
    <3>3. h[at] = <<"queue", i>>
      BY <2>3
    <3> HIDE DEF i
    <3> QED BY <2>3, <3>1, <3>2, <3>3 DEF SeenAt, SeenLine
  <2> QED BY <1>8, <2>1, <2>2, <2>3
<1>10. h \in [B -> A]
  <2>1. h = [at \in B |-> h[at]]
    BY DEF h
  <2> HIDE DEF A, B
  <2> QED BY <1>9, <2>1
<1>11. ASSUME NEW x \in B, NEW y \in B, h[x] = h[y] PROVE x = y
  <2> DEFINE InQueue(at) == /\ at = <<"queue", at[2]>> /\ at[2] \in DOMAIN q
                            /\ h[at] = <<"queue", keep[at[2]]>> /\ keep[at[2]] > BatchLength
             Shown(at) == at = <<"console", at[2]>> /\ h[at] = <<"console", at[2]>>
             InBatch(at) == /\ at = <<"console", at[2]>> /\ at[2] \in 1..(l + m) /\ at[2] - l \in 1..m
                            /\ h[at] = <<"queue", order[at[2] - l]>> /\ ~(order[at[2] - l] > BatchLength)
  <2>1. InQueue(x) \/ Shown(x) \/ InBatch(x)
    BY <1>8
  <2>2. InQueue(y) \/ Shown(y) \/ InBatch(y)
    BY <1>8
  <2>3. CASE InQueue(x)
    <3>1. InQueue(y) /\ keep[x[2]] = keep[y[2]]
      BY <1>11, <2>2, <2>3
    <3>2. x[2] = y[2]
      BY <1>7, <2>3, <3>1
    <3> QED BY <2>3, <3>1, <3>2
  <2>4. CASE Shown(x)
    <3>1. Shown(y) /\ x[2] = y[2]
      BY <1>11, <2>2, <2>4
    <3> QED BY <2>4, <3>1
  <2>5. CASE InBatch(x)
    <3>1. InBatch(y) /\ order[x[2] - l] = order[y[2] - l]
      BY <1>11, <2>2, <2>5
    <3>2. x[2] - l = y[2] - l
      BY <1>4, <2>5, <3>1
    <3>3. x[2] = y[2]
      <4>1. x[2] \in 1..(l + m) /\ y[2] \in 1..(l + m)
        BY <2>5, <3>1
      <4> QED BY <1>0, <1>3, <3>2, <4>1
    <3> QED BY <2>5, <3>1, <3>3
  <2> QED BY <2>1, <2>3, <2>4, <2>5
<1>12. ASSUME NEW at \in A PROVE \E x \in B : h[x] = at
  <2>1. \/ at = <<"queue", at[2]>> /\ at[2] \in DOMAIN backlog /\ backlog[at[2]].consolePending
        \/ at = <<"console", at[2]>> /\ at[2] \in DOMAIN offered
    BY DEF SeenAt
  <2>2. CASE at = <<"console", at[2]>> /\ at[2] \in DOMAIN offered
    <3>1. at[2] \in DOMAIN shown /\ at[2] <= l
      BY <1>0, <1>5, <2>2
    <3>2. at \in B
      BY <2>2, <3>1 DEF SeenAt
    <3>3. h[at] = at
      BY <2>2, <3>1, <3>2 DEF h
    <3> QED BY <3>2, <3>3
  <2>3. CASE at = <<"queue", at[2]>> /\ at[2] \in DOMAIN backlog /\ backlog[at[2]].consolePending
    <3> DEFINE i == at[2]
    <3>1. i <= BatchLength \/ i > BatchLength
      BY <1>0, <2>3
    <3>2. CASE i > BatchLength
      <4>1. PICK k \in DOMAIN q : keep[k] = i
        BY <1>6, <2>3, <3>2
      <4>2. q[k].consolePending
        BY <1>6, <2>3, <3>2, <4>1
      <4>3. <<"queue", k>> \in B
        BY <4>2 DEF SeenAt
      <4>4. h[<<"queue", k>>] = <<"queue", i>>
        BY <4>1, <4>3 DEF h
      <4> QED BY <2>3, <4>3, <4>4
    <3>3. CASE i <= BatchLength
      <4>1. i \in S
        BY <1>0, <2>3, <3>3 DEF S
      <4>2. PICK k \in 1..m : order[k] = i
        BY <1>4, <4>1
      <4>3. k + l \in DOMAIN shown /\ k + l > l /\ (k + l) - l = k /\ ~(k + l <= l)
        BY <1>0, <1>5
      <4>4. <<"console", k + l>> \in B
        BY <4>3 DEF SeenAt
      <4>5. h[<<"console", k + l>>] = <<"queue", order[(k + l) - l]>>
        BY <4>3, <4>4 DEF h
      <4> QED BY <2>3, <4>2, <4>3, <4>4, <4>5
    <3> QED BY <3>1, <3>2, <3>3
  <2> QED BY <2>1, <2>2, <2>3
<1>13. h \in Bijection(B, A)
  <2> HIDE DEF A, B
  <2> QED BY <1>10, <1>11, <1>12 DEF Bijection, Injection, Surjection, IsInjective
<1>14. \A at \in SeenAt(shown, q) : SeenLine(shown, q, at) = SeenLine(offered, backlog, h[at])
  BY <1>9
<1>15. h \in Bijection(SeenAt(shown, q), SeenAt(offered, backlog))
  BY <1>13
<1>16. shown \in Seq(Line) /\ offered \in Seq(Line) /\ q \in Seq(Item) /\ backlog \in Seq(Item)
  BY <1>0, <1>5, <1>6
<1>17. \A g \in Bijection(SeenAt(shown, q), SeenAt(offered, backlog)) :
           (\A at \in SeenAt(shown, q) : SeenLine(shown, q, at) = SeenLine(offered, backlog, g[at])) =>
               /\ RecordsSeen(shown, q) = RecordsSeen(offered, backlog)
               /\ RecordsTold(shown, q) = RecordsTold(offered, backlog)
  BY <1>16, SeenMoved, Zenon
<1> HIDE DEF h, A, B, l
<1> QED BY <1>14, <1>15, <1>16, <1>17, Zenon

\* Lines of the queue are in the order of the log.
LEMMA LinesInOrder ==
    ASSUME LogTypes, Placed(backlog, logged), NEW S \in SUBSET (1..Len(backlog))
    PROVE  /\ Lines(S) \in Seq(Line) /\ InLogOrder(Lines(S))
           /\ \A k \in DOMAIN Lines(S) : \E i \in S : Lines(S)[k] = backlog[i].entry
<1>0. backlog \in Seq(Item) /\ DOMAIN backlog = 1..Len(backlog)
  BY DEF LogTypes
<1>1. PICK m \in Nat : \E order \in [1..m -> S] :
          /\ Lines(S) \in Seq(Line) /\ Len(Lines(S)) = m /\ DOMAIN Lines(S) = 1..m
          /\ \A k \in 1..m : Lines(S)[k] = backlog[order[k]].entry
          /\ \A j, k \in 1..m : j < k => order[j] < order[k]
          /\ \A j, k \in 1..m : order[j] = order[k] => j = k
          /\ \A i \in S : \E k \in 1..m : order[k] = i
  BY <1>0, LinesAre
<1>2. PICK order \in [1..m -> S] :
          /\ Lines(S) \in Seq(Line) /\ DOMAIN Lines(S) = 1..m
          /\ \A k \in 1..m : Lines(S)[k] = backlog[order[k]].entry
          /\ \A j, k \in 1..m : j < k => order[j] < order[k]
  BY <1>1
<1>3. \A k \in 1..m : order[k] \in S /\ order[k] \in DOMAIN backlog
  BY <1>0, <1>2
<1>4. \A j, k \in 1..m : j < k => Precedes(Lines(S)[j], Lines(S)[k])
  <2> SUFFICES ASSUME NEW j \in 1..m, NEW k \in 1..m, j < k PROVE Precedes(Lines(S)[j], Lines(S)[k])
    OBVIOUS
  <2>1. Precedes(backlog[order[j]].entry, backlog[order[k]].entry)
    BY <1>2, <1>3 DEF Placed
  <2> QED BY <1>2, <2>1
<1> QED BY <1>2, <1>3, <1>4 DEF InLogOrder

\* A flush puts the batch behind what was shown and written, and before what it leaves.
LEMMA FlushOrders ==
    ASSUME LogTypes, Written(logged), Placed(backlog, logged), InLogOrder(offered), FilesInOrder(segments),
           NEW q, NEW keep, Leaves(q, keep), NEW shown, shown = offered \o ConsoleLines, NEW files,
           \/ files = segments
           \/ files = AppendedBatch(segments, FileItems) /\ \A k \in DOMAIN q : keep[k] > BatchLength
    PROVE  /\ InLogOrder(shown) /\ FilesInOrder(files) /\ files \in [1..SegmentCount -> Seq(Line)]
           /\ \A k \in DOMAIN shown : shown[k].record <= logged
           /\ \A a \in 1..SegmentCount : \A k \in DOMAIN files[a] : files[a][k].record <= logged
           /\ \A i \in DOMAIN q : q[i].filePending /\ q[i].entry.record <= logged
           /\ \A i, j \in DOMAIN q : i < j => Precedes(q[i].entry, q[j].entry)
           /\ \A i \in DOMAIN q, a \in 1..SegmentCount : \A k \in DOMAIN files[a] : Precedes(files[a][k], q[i].entry)
           /\ \A i \in DOMAIN q : q[i].consolePending => \A k \in DOMAIN shown : Precedes(shown[k], q[i].entry)
<1> DEFINE S == {i \in 1..BatchLength : backlog[i].consolePending}
           T == {i \in 1..BatchLength : backlog[i].filePending}
           l == Len(offered)
           lines == Lines(S)
           added == Lines(T)
<1>0. /\ Len(backlog) \in Nat /\ DOMAIN backlog = 1..Len(backlog)
      /\ BatchLength \in Nat /\ BatchLength <= Len(backlog) /\ offered \in Seq(Line)
      /\ l \in Nat /\ DOMAIN offered = 1..l
  BY BatchIsAPart DEF LogTypes
<1>1. /\ S \in SUBSET (1..Len(backlog)) /\ T \in SUBSET (1..Len(backlog))
      /\ \A i \in S : i \in DOMAIN backlog /\ i <= BatchLength /\ backlog[i].consolePending
      /\ \A i \in T : i \in DOMAIN backlog /\ i <= BatchLength
  BY <1>0
<1>2. ConsoleLines = lines /\ FileItems = added
  BY DEF ConsoleLines, FileItems
<1> HIDE DEF S, T
<1>3. /\ lines \in Seq(Line) /\ InLogOrder(lines)
      /\ \A k \in DOMAIN lines : \E i \in S : lines[k] = backlog[i].entry
      /\ added \in Seq(Line) /\ InLogOrder(added)
      /\ \A k \in DOMAIN added : \E i \in T : added[k] = backlog[i].entry
  BY <1>1, LinesInOrder
<1> HIDE DEF lines, added
<1>4. /\ q \in Seq(Item) /\ keep \in [DOMAIN q -> DOMAIN backlog]
      /\ \A k \in DOMAIN q : /\ q[k].entry = backlog[keep[k]].entry /\ q[k].filePending
                             /\ q[k].consolePending <=> keep[k] > BatchLength /\ backlog[keep[k]].consolePending
      /\ \A j, k \in DOMAIN q : j < k => keep[j] < keep[k]
  BY DEF Leaves
\* The batch comes before what is behind it.
<1>5. ASSUME NEW i \in DOMAIN backlog, i <= BatchLength, NEW k \in DOMAIN q, keep[k] > BatchLength
      PROVE  Precedes(backlog[i].entry, q[k].entry)
  <2>1. keep[k] \in DOMAIN backlog
    BY <1>4
  <2>2. i < keep[k]
    BY <1>0, <1>5, <2>1
  <2> QED BY <1>4, <2>1, <2>2 DEF Placed
<1>6. ASSUME NEW i \in DOMAIN q PROVE q[i].filePending /\ q[i].entry.record <= logged
  <2>1. keep[i] \in DOMAIN backlog
    BY <1>4
  <2>2. backlog[keep[i]].entry.record <= logged
    BY <2>1 DEF Placed
  <2> QED BY <1>4, <2>2
<1>7. ASSUME NEW i \in DOMAIN q, NEW j \in DOMAIN q, i < j PROVE Precedes(q[i].entry, q[j].entry)
  <2>1. keep[i] \in DOMAIN backlog /\ keep[j] \in DOMAIN backlog /\ keep[i] < keep[j]
    BY <1>4, <1>7
  <2>2. Precedes(backlog[keep[i]].entry, backlog[keep[j]].entry)
    BY <2>1 DEF Placed
  <2> QED BY <1>4, <2>2
\* The console.
<1>8. /\ DOMAIN shown \subseteq Nat
      /\ \A k \in DOMAIN shown : \/ k <= l /\ k \in DOMAIN offered /\ shown[k] = offered[k]
                                 \/ k > l /\ k - l \in DOMAIN lines /\ shown[k] = lines[k - l]
  <2>1. shown = offered \o lines
    BY <1>2
  <2> QED BY <1>0, <1>3, <2>1
<1>9. ASSUME NEW k \in DOMAIN shown
      PROVE  \/ \E j \in DOMAIN offered : shown[k] = offered[j]
             \/ \E i \in S : shown[k] = backlog[i].entry
  BY <1>3, <1>8
<1>10. ASSUME NEW k \in DOMAIN shown PROVE shown[k].record <= logged
  <2>1. CASE \E j \in DOMAIN offered : shown[k] = offered[j]
    BY <2>1 DEF Written
  <2>2. CASE \E i \in S : shown[k] = backlog[i].entry
    BY <1>1, <2>2 DEF Placed
  <2> QED BY <1>9, <2>1, <2>2
<1>11. ASSUME NEW i \in DOMAIN q, q[i].consolePending, NEW k \in DOMAIN shown PROVE Precedes(shown[k], q[i].entry)
  <2>0. keep[i] \in DOMAIN backlog /\ keep[i] > BatchLength /\ backlog[keep[i]].consolePending
        /\ q[i].entry = backlog[keep[i]].entry
    BY <1>4, <1>11
  <2>1. CASE \E j \in DOMAIN offered : shown[k] = offered[j]
    BY <2>0, <2>1 DEF Placed
  <2>2. CASE \E j \in S : shown[k] = backlog[j].entry
    BY <1>1, <1>5, <2>0, <2>2
  <2> QED BY <1>9, <2>1, <2>2
<1>12. ASSUME NEW i \in DOMAIN shown, NEW j \in DOMAIN shown, i < j PROVE Precedes(shown[i], shown[j])
  <2>0. i \in Nat /\ j \in Nat
    BY <1>8
  <2>1. CASE j <= l
    <3>1. i \in DOMAIN offered /\ shown[i] = offered[i] /\ j \in DOMAIN offered /\ shown[j] = offered[j]
      BY <1>0, <1>8, <1>12, <2>0, <2>1
    <3> QED BY <1>12, <3>1 DEF InLogOrder
  <2>2. CASE i <= l /\ j > l
    <3>1. i \in DOMAIN offered /\ shown[i] = offered[i] /\ j - l \in DOMAIN lines /\ shown[j] = lines[j - l]
      BY <1>0, <1>8, <2>0, <2>2
    <3>2. PICK x \in S : shown[j] = backlog[x].entry
      BY <1>3, <3>1
    <3> QED BY <1>1, <3>1, <3>2 DEF Placed
  <2>3. CASE i > l
    <3>1. i - l \in DOMAIN lines /\ shown[i] = lines[i - l] /\ j - l \in DOMAIN lines /\ shown[j] = lines[j - l]
      BY <1>0, <1>8, <1>12, <2>0, <2>3
    <3>2. i - l < j - l
      BY <1>0, <1>12, <2>0
    <3> QED BY <1>3, <3>1, <3>2 DEF InLogOrder
  <2> QED BY <1>0, <2>0, <2>1, <2>2, <2>3
\* The files.
<1>13. /\ files \in [1..SegmentCount -> Seq(Line)] /\ FilesInOrder(files)
       /\ \A a \in 1..SegmentCount : \A k \in DOMAIN files[a] :
              \/ \E b \in 1..SegmentCount : \E j \in DOMAIN segments[b] : files[a][k] = segments[b][j]
              \/ /\ \E j \in DOMAIN added : files[a][k] = added[j]
                 /\ \A j \in DOMAIN q : keep[j] > BatchLength
  <2>1. CASE files = segments
    BY <2>1 DEF LogTypes
  <2>2. CASE files = AppendedBatch(segments, FileItems) /\ \A k \in DOMAIN q : keep[k] > BatchLength
    <3>1. segments \in [1..SegmentCount -> Seq(Line)]
      BY DEF LogTypes
    <3>2. Follows(added, segments)
      BY <1>1, <1>3 DEF Placed, Follows
    <3>3. files = AppendedBatch(segments, added)
      BY <1>2, <2>2
    <3>4. /\ files \in [1..SegmentCount -> Seq(Line)] /\ FilesInOrder(files)
          /\ OnlyAdded(files, segments, added)
      <4>1. added \in Seq(Line) /\ InLogOrder(added) /\ FilesInOrder(segments)
        BY <1>3
      <4> QED BY <3>1, <3>2, <3>3, <4>1, AppendedInOrder
    <3> QED BY <2>2, <3>4 DEF OnlyAdded
  <2> QED BY <2>1, <2>2
<1>14. ASSUME NEW a \in 1..SegmentCount, NEW k \in DOMAIN files[a]
       PROVE  files[a][k].record <= logged /\ \A i \in DOMAIN q : Precedes(files[a][k], q[i].entry)
  <2>1. CASE \E b \in 1..SegmentCount : \E j \in DOMAIN segments[b] : files[a][k] = segments[b][j]
    <3>1. PICK b \in 1..SegmentCount : \E j \in DOMAIN segments[b] : files[a][k] = segments[b][j]
      BY <2>1
    <3>j. PICK j \in DOMAIN segments[b] : files[a][k] = segments[b][j]
      BY <3>1
    <3>2. files[a][k].record <= logged
      BY <3>j DEF Written
    <3>3. \A i \in DOMAIN backlog : Precedes(segments[b][j], backlog[i].entry)
      BY <3>1 DEF Placed
    <3> QED BY <1>4, <3>j, <3>2, <3>3
  <2>2. CASE (\E j \in DOMAIN added : files[a][k] = added[j]) /\ \A j \in DOMAIN q : keep[j] > BatchLength
    <3>1. PICK x \in T : files[a][k] = backlog[x].entry
      BY <1>3, <2>2
    <3>2. files[a][k].record <= logged
      BY <1>1, <3>1 DEF Placed
    <3> QED BY <1>1, <1>5, <2>2, <3>1, <3>2
  <2> QED BY <1>13, <2>1, <2>2
<1>15. InLogOrder(shown)
  BY <1>12 DEF InLogOrder
<1> QED BY <1>6, <1>7, <1>10, <1>11, <1>13, <1>14, <1>15

LEMMA FlushKeeps == ASSUME LogInv, Flush PROVE LogInv'
<1>0. /\ LogTypes /\ Written(logged) /\ Placed(backlog, logged) /\ InLogOrder(offered) /\ FilesInOrder(segments)
      /\ ~late => Accounted(Counters, Duplicates, logged) /\ StagesReported
  BY DEF LogInv
<1>1. /\ offered' = offered \o ConsoleLines /\ logStage # "closed"
      /\ UNCHANGED <<logged, duplicate, rateTokens, byRate, byQueue, reclaimLeft, logStage, late>>
      /\ FlushWritten \/ FlushBusy \/ FlushFailed
  BY DEF Flush, OfferLines
<1>2. \E keep : /\ Leaves(backlog', keep)
                /\ \/ segments' = segments
                   \/ segments' = AppendedBatch(segments, FileItems) /\ \A k \in DOMAIN backlog' : keep[k] > BatchLength
  <2>1. CASE FlushWritten
    BY <1>0, <2>1, ServedLeaves DEF FlushWritten
  <2>2. CASE FlushBusy
    BY <1>0, <2>2, BusyLeaves DEF FlushBusy
  <2>3. CASE FlushFailed
    BY <1>0, <2>3, ServedLeaves DEF FlushFailed
  <2> QED BY <1>1, <2>1, <2>2, <2>3
<1>3. PICK keep : /\ Leaves(backlog', keep)
                  /\ \/ segments' = segments
                     \/ segments' = AppendedBatch(segments, FileItems) /\ \A k \in DOMAIN backlog' : keep[k] > BatchLength
  BY <1>2
<1>4. /\ offered' \in Seq(Line)
      /\ RecordsSeen(offered', backlog') = RecordsSeen(offered, backlog)
      /\ RecordsTold(offered', backlog') = RecordsTold(offered, backlog)
  BY <1>0, <1>1, <1>3, FlushShows
<1>5. /\ InLogOrder(offered') /\ FilesInOrder(segments') /\ segments' \in [1..SegmentCount -> Seq(Line)]
      /\ \A k \in DOMAIN offered' : offered'[k].record <= logged
      /\ \A a \in 1..SegmentCount : \A k \in DOMAIN segments'[a] : segments'[a][k].record <= logged
      /\ \A i \in DOMAIN backlog' : backlog'[i].filePending /\ backlog'[i].entry.record <= logged
      /\ \A i, j \in DOMAIN backlog' : i < j => Precedes(backlog'[i].entry, backlog'[j].entry)
      /\ \A i \in DOMAIN backlog', a \in 1..SegmentCount : \A k \in DOMAIN segments'[a] :
             Precedes(segments'[a][k], backlog'[i].entry)
      /\ \A i \in DOMAIN backlog' : backlog'[i].consolePending =>
             \A k \in DOMAIN offered' : Precedes(offered'[k], backlog'[i].entry)
  BY <1>0, <1>1, <1>3, FlushOrders
<1>6. Written(logged)' /\ Placed(backlog, logged)' /\ InLogOrder(offered)' /\ FilesInOrder(segments)'
  <2>1. Written(logged)'
    BY <1>1, <1>5 DEF Written
  <2>2. Placed(backlog, logged)'
    BY <1>1, <1>5 DEF Placed
  <2> QED BY <1>5, <2>1, <2>2
<1>7. LogTypes'
  <2>1. backlog' \in Seq(Item)
    BY <1>3 DEF Leaves
  <2> QED BY <1>0, <1>1, <1>4, <1>5, <2>1 DEF LogTypes
<1>8. ~late' => Accounted(Counters, Duplicates, logged)' /\ StagesReported'
  <2>1. Duplicates' = Duplicates
    BY <1>1 DEF Duplicates
  <2>2. Accounted(Counters, Duplicates, logged) => Accounted(Counters, Duplicates, logged)'
    <3>1. Counters.queue = backlog /\ Counters.byRate = byRate /\ Counters.byQueue = byQueue
      BY DEF Counters
    <3>2. Counters'.queue = backlog' /\ Counters'.byRate = byRate' /\ Counters'.byQueue = byQueue'
      BY DEF Counters
    <3> QED BY <1>1, <1>4, <2>1, <3>1, <3>2 DEF Accounted
  <2>3. StagesReported => StagesReported'
    BY <1>1 DEF StagesReported
  <2> QED BY <1>0, <1>1, <2>2, <2>3
<1> QED BY <1>6, <1>7, <1>8 DEF LogInv

LEMMA OthersKeepLog == ASSUME LogInv, OtherTakes \/ OtherWrites \/ OtherReleases \/ OtherDies \/ UNCHANGED logVars PROVE LogInv'
<1>0. /\ LogTypes /\ Written(logged) /\ Placed(backlog, logged) /\ InLogOrder(offered) /\ FilesInOrder(segments)
      /\ ~late => Accounted(Counters, Duplicates, logged) /\ StagesReported
      /\ logged \in Nat /\ backlog \in Seq(Item) /\ segments \in [1..SegmentCount -> Seq(Line)]
  BY DEF LogInv, LogTypes
<1>1. UNCHANGED <<logged, duplicate, rateTokens, byRate, byQueue, backlog, offered, logStage, late>>
  BY DEF OtherTakes, OtherWrites, OtherReleases, OtherDies, logVars
<1>2. (~late => Accounted(Counters, Duplicates, logged) /\ StagesReported)'
  <2>1. Duplicates' = Duplicates /\ Counters' = Counters
    BY <1>1 DEF Duplicates, Counters
  <2> QED BY <1>0, <1>1, <2>1 DEF Accounted, StagesReported
<1>3. CASE segments' = segments
  <2>1. Written(logged)' /\ Placed(backlog, logged)' /\ InLogOrder(offered)' /\ FilesInOrder(segments)'
    BY <1>1, <1>3, OrderUnchanged
  <2>2. LogTypes'
    BY <1>0, <1>1, <1>3 DEF LogTypes
  <2> QED BY <1>2, <2>1, <2>2 DEF LogInv
<1>4. CASE OtherWrites
  <2> DEFINE added == <<ForeignEntry>>
  <2>1. added \in Seq(Line) /\ DOMAIN added = {1} /\ added[1] = ForeignEntry
    BY EntriesAreLines
  <2>2. ForeignEntry.record = 0
    BY DEF ForeignEntry
  <2>3. \A x : Precedes(x, ForeignEntry) /\ Precedes(ForeignEntry, x)
    BY <2>2 DEF Precedes
  <2>4. segments' = AppendedBatch(segments, added)
    BY <1>4 DEF OtherWrites
  <2> HIDE DEF added
  <2>5. InLogOrder(added) /\ \A j \in DOMAIN added : added[j] = ForeignEntry
    BY <2>1, <2>3 DEF InLogOrder
  <2>6. /\ segments' \in [1..SegmentCount -> Seq(Line)] /\ FilesInOrder(segments')
        /\ OnlyAdded(segments', segments, added)
    <3>1. /\ segments \in [1..SegmentCount -> Seq(Line)] /\ FilesInOrder(segments)
          /\ added \in Seq(Line) /\ InLogOrder(added)
      BY <1>0, <2>1, <2>5
    <3>2. Follows(added, segments)
      BY <2>3, <2>5 DEF Follows
    <3> QED BY <2>4, <3>1, <3>2, AppendedInOrder
  <2>7. ASSUME NEW a \in 1..SegmentCount, NEW k \in DOMAIN segments'[a]
        PROVE  segments'[a][k].record <= logged /\ \A i \in DOMAIN backlog : Precedes(segments'[a][k], backlog[i].entry)
    <3>1. CASE segments'[a][k] = ForeignEntry
      BY <1>0, <2>2, <2>3, <3>1
    <3>2. CASE \E b \in 1..SegmentCount : \E j \in DOMAIN segments[b] : segments'[a][k] = segments[b][j]
      BY <1>0, <3>2 DEF Written, Placed
    <3> QED BY <2>5, <2>6, <3>1, <3>2 DEF OnlyAdded
  <2>8. Written(logged)'
    BY <1>0, <1>1, <2>7 DEF Written
  <2>9. Placed(backlog, logged)'
    BY <1>0, <1>1, <2>7 DEF Placed
  <2>10. InLogOrder(offered)' /\ FilesInOrder(segments)'
    BY <1>0, <1>1, <2>6
  <2>11. LogTypes'
    BY <1>0, <1>1, <2>6 DEF LogTypes
  <2> QED BY <1>2, <2>8, <2>9, <2>10, <2>11 DEF LogInv
<1> QED BY <1>3, <1>4 DEF OtherTakes, OtherReleases, OtherDies, logVars

LEMMA LogKeeps == LogInv /\ [LogNext]_logVars => LogInv'
  BY AddKeeps, FlushKeeps, CloseKeeps, OthersKeepLog DEF LogNext

LEMMA LogAccounts == LogInv => LogAccountsForRecords
<1> SUFFICES ASSUME LogInv PROVE LogAccountsForRecords
  OBVIOUS
<1>1. LinesOnceInOrder
  <2>1. DOMAIN segments = 1..SegmentCount
    BY DEF LogInv, LogTypes
  <2> QED BY <2>1 DEF LogInv, LinesOnceInOrder, FilesInOrder
<1>2. NothingForgotten
  <2> SUFFICES ASSUME ~late, ~(logStage = "closed" /\ backlog # <<>>)
               PROVE  LET missing == logged - RecordsSeen(offered, backlog)
                          told    == RecordsTold(offered, backlog)
                          tally   == byRate + byQueue + (IF logStage = "open" THEN duplicate.suppressed ELSE 0)
                      IN  /\ told + tally <= missing
                          /\ missing > 0 => (told + tally > 0)
                          /\ (missing > 0 /\ logStage = "closed") => (told > 0)
    BY DEF NothingForgotten
  <2> DEFINE s == RecordsSeen(offered, backlog)
             t == RecordsTold(offered, backlog)
             u == IF logStage = "open" THEN duplicate.suppressed ELSE 0
  <2>1. s \in Nat /\ t \in Nat /\ byRate \in Nat /\ byQueue \in Nat /\ u \in Nat /\ logged \in Nat
    BY SeenIsCounted DEF LogInv, LogTypes
  <2>2. s + (t + byRate + byQueue + u) <= logged /\ (s < logged => t + byRate + byQueue + u > 0)
    <3>1. Accounted(Counters, Duplicates, logged)
      BY DEF LogInv
    <3> QED BY <3>1 DEF Accounted, Counters, Duplicates
  <2>3. logStage = "closed" => byRate = 0 /\ byQueue = 0 /\ u = 0
    BY DEF LogInv, StagesReported
  <2> HIDE DEF s, t, u
  <2>4. /\ t + (byRate + byQueue + u) <= logged - s
        /\ logged - s > 0 => t + (byRate + byQueue + u) > 0
        /\ logged - s > 0 /\ logStage = "closed" => t > 0
    BY <2>1, <2>2, <2>3
  <2> QED BY <2>4 DEF s, t, u
<1> QED BY <1>1, <1>2 DEF LogAccountsForRecords

\* The strengthened invariant of the log: lines in their order, and the counters against
\* what was offered or waits (logging.ts).
THEOREM LogInvariance == LogSpec => []LogInv
  BY LogBegins, LogKeeps, PTL DEF LogSpec

\* However records, flushes, a throwing console, a refusing disk and the lock fall, lines are
\* written once and in order, and suppressed records are told of (add(), flush(), close()).
THEOREM LogAlwaysAccounts == LogSpec => []LogAccountsForRecords
  BY LogInvariance, LogAccounts, PTL

----------------------------------------------------------------------------
(* Types. *)

LEMMA LockTypesKept == LockTypeOK /\ [LockNext]_lockVars => LockTypeOK'
<1> SUFFICES ASSUME LockTypeOK, [LockNext]_lockVars PROVE LockTypeOK'
  OBVIOUS
<1> USE DEF LockTypeOK, Moves, Owns, Reclaims, NoFile
<1> DEFINE Files == [by : Lockers \cup {Unowned}, written : BOOLEAN, fresh : BOOLEAN]
<1>n. NoFile \in Files /\ \A p \in Lockers : [by |-> p, written |-> FALSE, fresh |-> TRUE] \in Files
  OBVIOUS
<1>g. ASSUME NEW p \in Lockers, NEW to \in {"created", "idle", "reclaimed"}, locker' = [locker EXCEPT ![p] = to],
             lockFile' \in Files, UNCHANGED reclaimFile
      PROVE  LockTypeOK'
  BY <1>g
<1>1. ASSUME NEW p \in Lockers, Acquiring(p) PROVE LockTypeOK'
  <2>1. CASE CreateLock(p) \/ WriteFails(p) \/ RemoveAbandoned(p)
    <3> USE <1>n
    <3> HIDE DEF Files, LockTypeOK, NoFile
    <3> QED BY <1>g, <2>1 DEF CreateLock, WriteFails, RemoveAbandoned
  <2>2. CASE WriteLock(p)
    BY <2>2 DEF WriteLock
  <2>3. CASE LockExists(p) \/ Retry(p) \/ GivesUp(p)
    BY <2>3 DEF LockExists, Retry, GivesUp
  <2>4. CASE StartReclaim(p) \/ EndReclaim(p)
    BY <2>4 DEF StartReclaim, EndReclaim
  <2>5. CASE Judge(p)
    BY <2>5 DEF Judge
  <2> QED BY <1>1, <2>1, <2>2, <2>3, <2>4, <2>5 DEF Acquiring
<1>2. ASSUME NEW p \in Lockers, Wants(p) \/ StartsAgain(p) \/ Release(p) PROVE LockTypeOK'
  <2>1. CASE Release(p)
    <3> USE <1>n
    <3> HIDE DEF Files, LockTypeOK, NoFile
    <3> QED BY <1>g, <2>1 DEF Release
  <2> QED BY <1>2, <2>1 DEF Wants, StartsAgain
<1>3. ASSUME NEW p \in Lockers, StartRelease(p) PROVE LockTypeOK'
  BY <1>3 DEF StartRelease
<1>4. ASSUME NEW p \in Lockers, Dies(p) PROVE LockTypeOK'
  BY <1>4 DEF Dies
<1>5. CASE StaleLock
  BY <1>5 DEF StaleLock
<1>6. CASE UNCHANGED lockVars
  BY <1>6 DEF lockVars
<1> QED BY <1>1, <1>2, <1>3, <1>4, <1>5, <1>6 DEF LockNext

\* The lock's files and the openers are what they may be, also where machines sleep.
THEOREM StoresAreTyped == StoreSpec => []StoreTypeOK
<1>1. StoreInit => StoreTypeOK
  BY StoreBegins DEF StoreInv
<1>2. StoreTypeOK /\ [StoreNext]_storeVars => StoreTypeOK'
  <2> SUFFICES ASSUME StoreTypeOK, [StoreNext]_storeVars PROVE StoreTypeOK'
    OBVIOUS
  <2>l. LockTypeOK'
    BY StoreStepLocks, LockTypesKept DEF StoreTypeOK
  <2>t. /\ storeFormat \in 0..NewestFormat /\ storeEmpty \in BOOLEAN /\ backups \subseteq 0..NewestFormat
        /\ opening \in [Lockers -> {"closed", "locking", "inspected", "migrating", "migrated"}]
    BY DEF StoreTypeOK
  <2>1. ASSUME NEW p \in Lockers, Migrate(p) PROVE StoreTypeOK'
    <3>1. storeFormat' = CurrentFormat(p) /\ CurrentFormat(p) \in 0..NewestFormat
      BY <2>1, FormatsArePositive, OpeningConstants DEF Migrate
    <3> QED BY <2>1, <2>l, <2>t, <3>1 DEF Migrate, Goes, StoreTypeOK
  <2>2. ASSUME NEW p \in Lockers, OpenStore(p) \/ BackupForMigration(p) PROVE StoreTypeOK'
    BY <2>2, <2>l, <2>t DEF OpenStore, BackupForMigration, Goes, StoreTypeOK
  <2>3. ASSUME NEW p \in Lockers, CloseStore(p) \/ OpenerDies(p) PROVE StoreTypeOK'
    BY <2>3, <2>l, <2>t DEF CloseStore, OpenerDies, Goes, StoreTypeOK
  <2>4. CASE UNCHANGED <<storeFormat, storeEmpty, opening, backups>>
    BY <2>4, <2>l, <2>t DEF StoreTypeOK
  <2> QED BY <2>1, <2>2, <2>3, <2>4 DEF StoreNext, storeVars
<1> QED BY <1>1, <1>2, PTL DEF StoreSpec

\* The keys, locks and stages are those there are, whoever dies where.
THEOREM KeysAreTyped == DeploymentKeySpec => []DeploymentKeyTypeOK
<1>1. KeyInv => DeploymentKeyTypeOK
  BY DEF KeyInv
<1> QED BY <1>1, KeyInvariance, PTL

\* What a process has read of the settings is a part of them.
THEOREM SettingsAreTyped == InstanceSettingsSpec => []SettingsTypeOK
<1>1. SettingsInv => SettingsTypeOK
  BY DEF SettingsInv
<1> QED BY <1>1, SettingsInvariance, PTL

\* Destinations name versions there are, and an attempt is at one of its stages.
THEOREM ReleasesAreTyped == ReleaseSpec => []ReleaseTypeOK
<1>1. ReleaseInv => ReleaseTypeOK
  BY DEF ReleaseInv
<1> QED BY <1>1, ReleaseInvariance, PTL

----------------------------------------------------------------------------
(* The bounds of the logger. *)

LogBounds ==
    /\ logged <= LogRecords /\ duplicate.emitted <= DuplicateLimit
    /\ rateTokens <= RateBurst /\ Len(backlog) <= QueueLimit
    /\ \A a \in 1..SegmentCount : Len(segments[a]) <= SegmentLimit
    /\ writeLock \in {"free", "other", "dead"} /\ reclaimLeft \in BOOLEAN

WithinBounds(c) == c.tokens <= RateBurst /\ Len(c.queue) <= QueueLimit

\* A list that goes through places of 1..n, none twice, is no longer than n.
LEMMA NoLonger ==
    ASSUME NEW n \in Nat, NEW m \in Nat, NEW f \in [1..m -> 1..n],
           \A j, k \in 1..m : f[j] = f[k] => j = k
    PROVE  m <= n
<1>1. f \in Injection(1..m, 1..n)
  BY DEF Injection, IsInjective
<1>2. IsFiniteSet(1..n) /\ Cardinality(1..n) = n /\ Cardinality(1..m) = m
  BY FS_Interval
<1> QED BY <1>1, <1>2, FS_Injection

LEMMA EnqueueWithin ==
    ASSUME NEW c \in CounterRecord, NEW entry, NEW bypass \in BOOLEAN, WithinBounds(c)
    PROVE  WithinBounds(Enqueue(c, entry, bypass))
<1> DEFINE paid == IF bypass THEN c ELSE [c EXCEPT !.tokens = @ - 1]
           it == QueuedEntry(entry)
           q == c.queue
<1>0. c.tokens \in Nat /\ q \in Seq(Item) /\ c.tokens <= RateBurst /\ Len(q) <= QueueLimit /\ RateBurst \in Nat
      /\ QueueLimit \in Nat
  BY LocalLogAssumption DEF CounterRecord, WithinBounds
<1>1. CASE ~bypass /\ c.tokens < 1
  <2>1. Enqueue(c, entry, bypass) = [c EXCEPT !.byRate = @ + 1]
    BY <1>1 DEF Enqueue
  <2> QED BY <1>0, <2>1 DEF CounterRecord, WithinBounds
<1>2. ASSUME ~(~bypass /\ c.tokens < 1)
      PROVE  paid.tokens <= RateBurst /\ paid.queue = q /\ DOMAIN paid = DOMAIN c
  BY <1>0, <1>2 DEF CounterRecord
<1>3. CASE ~(~bypass /\ c.tokens < 1) /\ Len(q) + 1 > QueueLimit
  <2>1. Enqueue(c, entry, bypass) = [paid EXCEPT !.byQueue = @ + 1]
    BY <1>3 DEF Enqueue
  <2>2. DOMAIN c = {"tokens", "byRate", "byQueue", "queue"}
    BY DEF CounterRecord
  <2> HIDE DEF paid
  <2> QED BY <1>0, <1>2, <1>3, <2>1, <2>2 DEF WithinBounds
<1>4. CASE ~(~bypass /\ c.tokens < 1) /\ ~(Len(q) + 1 > QueueLimit)
  <2>1. Enqueue(c, entry, bypass) = [paid EXCEPT !.queue = Append(paid.queue, it)]
    BY <1>4 DEF Enqueue
  <2>2. DOMAIN c = {"tokens", "byRate", "byQueue", "queue"}
    BY DEF CounterRecord
  <2> HIDE DEF paid, it, q
  <2>3. Enqueue(c, entry, bypass).tokens = paid.tokens /\ Enqueue(c, entry, bypass).queue = Append(q, it)
    BY <1>2, <1>4, <2>1, <2>2
  <2>4. Len(Append(q, it)) = Len(q) + 1 /\ Len(q) \in Nat
    BY <1>0
  <2> QED BY <1>0, <1>2, <1>4, <2>3, <2>4 DEF WithinBounds
<1> QED BY <1>1, <1>3, <1>4

LEMMA SummaryWithin ==
    ASSUME NEW c \in CounterRecord, NEW k, WithinBounds(c) PROVE WithinBounds(EnqueueSuppression(c, k))
  BY EnqueueWithin DEF EnqueueSuppression

LEMMA ReportWithin ==
    ASSUME NEW c \in CounterRecord, WithinBounds(c) PROVE WithinBounds(ReportRate(c)) /\ WithinBounds(ReportQueue(c))
<1> DEFINE noRate == [c EXCEPT !.byRate = 0]
           noQueue == [c EXCEPT !.byQueue = 0]
<1>1. /\ noRate \in CounterRecord /\ WithinBounds(noRate)
      /\ noQueue \in CounterRecord /\ WithinBounds(noQueue)
  BY DEF CounterRecord, WithinBounds
<1> HIDE DEF noRate, noQueue
<1>2. WithinBounds(EnqueueSuppression(noRate, c.byRate)) /\ WithinBounds(EnqueueSuppression(noQueue, c.byQueue))
  BY <1>1, SummaryWithin
<1> QED BY <1>2 DEF ReportRate, ReportQueue, noRate, noQueue

LEMMA LogNumbers ==
    /\ LogRecords \in Nat \ {0} /\ DuplicateLimit \in Nat \ {0} /\ RateBurst \in Nat \ {0} /\ QueueLimit \in Nat \ {0}
    /\ BatchLimit \in Nat \ {0} /\ SegmentLimit \in Nat \ {0} /\ BatchLimit <= SegmentLimit
    /\ SegmentCount \in Nat \ {0, 1} /\ 1 \in 1..SegmentCount
BY LocalLogAssumption

\* Lines that fit a segment leave every segment within its size.
LEMMA AppendedWithin ==
    ASSUME NEW files \in [1..SegmentCount -> Seq(Line)], NEW lines \in Seq(Line), Len(lines) <= SegmentLimit,
           \A a \in 1..SegmentCount : Len(files[a]) <= SegmentLimit
    PROVE  \A a \in 1..SegmentCount : Len(AppendedBatch(files, lines)[a]) <= SegmentLimit
<1> DEFINE kept == IF Len(files[1]) + Len(lines) > SegmentLimit THEN RotatedSegments(files) ELSE files
<1>1. /\ kept \in [1..SegmentCount -> Seq(Line)] /\ \A a \in 1..SegmentCount : Len(kept[a]) <= SegmentLimit
      /\ Len(kept[1]) + Len(lines) <= SegmentLimit
  <2>1. CASE ~(Len(files[1]) + Len(lines) > SegmentLimit)
    <3>1. Len(files[1]) \in Nat /\ Len(lines) \in Nat
      BY LogNumbers
    <3> QED BY <2>1, <3>1, LogNumbers
  <2>2. CASE Len(files[1]) + Len(lines) > SegmentLimit
    <3>1. \A a \in 1..SegmentCount : a = 1 \/ a - 1 \in 1..SegmentCount
      BY LogNumbers
    <3>2. <<>> \in Seq(Line) /\ Len(<<>>) = 0 /\ 0 <= SegmentLimit /\ 0 + Len(lines) <= SegmentLimit
      BY LogNumbers
    <3>3. RotatedSegments(files) \in [1..SegmentCount -> Seq(Line)]
      BY <3>1, <3>2 DEF RotatedSegments
    <3>4. RotatedSegments(files)[1] = <<>>
      BY LogNumbers DEF RotatedSegments
    <3>5. \A a \in 1..SegmentCount : a # 1 => RotatedSegments(files)[a] = files[a - 1]
      BY DEF RotatedSegments
    <3> QED BY <2>2, <3>1, <3>2, <3>3, <3>4, <3>5
  <2> QED BY <2>1, <2>2
<1>2. AppendedBatch(files, lines) = [kept EXCEPT ![1] = kept[1] \o lines]
  BY DEF AppendedBatch
<1> HIDE DEF kept
<1>3. Len(kept[1] \o lines) = Len(kept[1]) + Len(lines)
  BY <1>1, LogNumbers
<1> QED BY <1>1, <1>2, <1>3

\* What a flush leaves waiting is no longer than the queue, and what it writes than a batch.
LEMMA LeavesWithin ==
    ASSUME LogTypes, NEW q, NEW keep, Leaves(q, keep) PROVE Len(q) <= Len(backlog)
<1>1. Len(q) \in Nat /\ DOMAIN q = 1..Len(q) /\ Len(backlog) \in Nat /\ DOMAIN backlog = 1..Len(backlog)
  BY BatchIsAPart DEF Leaves
<1>2. keep \in [1..Len(q) -> 1..Len(backlog)] /\ \A j, k \in 1..Len(q) : j < k => keep[j] < keep[k]
  BY <1>1 DEF Leaves
<1> DEFINE m == Len(q)
           n == Len(backlog)
<1> HIDE DEF m, n
<1>3. m \in Nat /\ n \in Nat /\ keep \in [1..m -> 1..n] /\ \A j, k \in 1..m : j < k => keep[j] < keep[k]
  BY <1>1, <1>2 DEF m, n
<1>4. \A j, k \in 1..m : keep[j] = keep[k] => j = k
  <2> SUFFICES ASSUME NEW j \in 1..m, NEW k \in 1..m, keep[j] = keep[k] PROVE j = k
    OBVIOUS
  <2>1. keep[j] \in Nat /\ ~(keep[j] < keep[k]) /\ ~(keep[k] < keep[j])
    BY <1>3
  <2>2. ~(j < k) /\ ~(k < j)
    BY <1>3, <2>1
  <2> QED BY <2>2
<1>5. m <= n
  BY <1>3, <1>4, NoLonger
<1> QED BY <1>5 DEF m, n

LEMMA BatchWithin == ASSUME LogTypes PROVE FileItems \in Seq(Line) /\ Len(FileItems) <= SegmentLimit
<1> DEFINE S == {i \in 1..BatchLength : backlog[i].filePending}
<1>1. BatchLength \in Nat /\ BatchLength <= BatchLimit /\ BatchLength <= Len(backlog) /\ backlog \in Seq(Item)
      /\ Len(backlog) \in Nat
  BY BatchIsAPart, LogNumbers DEF BatchLength, LogTypes
<1>2. S \in SUBSET (1..Len(backlog)) /\ S \subseteq 1..BatchLength
  BY <1>1
<1>3. FileItems = Lines(S)
  BY DEF FileItems
<1> HIDE DEF S
<1>4. PICK m \in Nat : \E order \in [1..m -> S] :
          /\ Lines(S) \in Seq(Line) /\ Len(Lines(S)) = m
          /\ \A j, k \in 1..m : order[j] = order[k] => j = k
  BY <1>1, <1>2, LinesAre
<1>5. PICK order \in [1..m -> S] :
          /\ Lines(S) \in Seq(Line) /\ Len(Lines(S)) = m
          /\ \A j, k \in 1..m : order[j] = order[k] => j = k
  BY <1>4
<1>6. order \in [1..m -> 1..BatchLength]
  BY <1>2
<1>7. m <= BatchLength
  BY <1>1, <1>5, <1>6, NoLonger
<1> QED BY <1>1, <1>3, <1>5, <1>7, LogNumbers

LEMMA AddBounds ==
    ASSUME LogInv, LogBounds, NEW renewed \in BOOLEAN, NEW refilled \in BOOLEAN, AddRecord(renewed, refilled)
    PROVE  LogBounds'
<1> DEFINE opens  == renewed \/ duplicate.emitted = 0
           opened == IF opens THEN OpenWindow(Counters) ELSE Counters
           filled == [opened EXCEPT !.tokens = IF refilled /\ @ < RateBurst THEN @ + 1 ELSE @]
           rated  == ReportRate(filled)
           said   == ReportQueue(rated)
           added  == Enqueue(said, RecordEntry(logged + 1), FALSE)
<1>0. LogTypes /\ duplicate \in [emitted : Nat, suppressed : Nat] /\ logged \in Nat
  BY DEF LogInv, LogTypes
<1>1. Counters \in CounterRecord /\ WithinBounds(Counters)
  BY <1>0, CountersAreTyped DEF LogBounds, WithinBounds, Counters
<1>2. opened \in CounterRecord /\ WithinBounds(opened)
  <2>1. EnqueueSuppression(Counters, duplicate.suppressed) \in CounterRecord
    <3>1. duplicate.suppressed \in Nat
      BY <1>0
    <3> QED BY <1>0, <1>1, <3>1, SummaryKeeps
  <2>2. WithinBounds(EnqueueSuppression(Counters, duplicate.suppressed))
    BY <1>1, SummaryWithin
  <2> QED BY <1>1, <2>1, <2>2 DEF OpenWindow
<1> HIDE DEF opened
<1>3. filled \in CounterRecord /\ WithinBounds(filled)
  <2> DEFINE t == IF refilled /\ opened.tokens < RateBurst THEN opened.tokens + 1 ELSE opened.tokens
  <2>1. opened \in CounterRecord /\ opened.tokens \in Nat /\ opened.tokens <= RateBurst
        /\ Len(opened.queue) <= QueueLimit
    BY <1>2 DEF CounterRecord, WithinBounds
  <2>2. t \in Nat /\ t <= RateBurst
    BY <2>1, LogNumbers
  <2>3. filled = [opened EXCEPT !.tokens = t]
    OBVIOUS
  <2> HIDE DEF t, filled
  <2> QED BY <2>1, <2>2, <2>3 DEF CounterRecord, WithinBounds
<1> HIDE DEF filled
<1>4. rated \in CounterRecord /\ WithinBounds(rated)
  BY <1>0, <1>3, ReportKeeps, ReportWithin
<1> HIDE DEF rated
<1>5. said \in CounterRecord /\ WithinBounds(said)
  BY <1>0, <1>4, ReportKeeps, ReportWithin
<1> HIDE DEF said
<1>6. WithinBounds(added)
  BY <1>5, EnqueueWithin
<1> HIDE DEF added
<1>7. /\ logged < LogRecords /\ logged' = logged + 1 /\ UNCHANGED <<segments, writeLock, reclaimLeft>>
      /\ \/ /\ opens \/ duplicate.emitted < DuplicateLimit
            /\ duplicate' = (IF opens THEN [emitted |-> 1, suppressed |-> 0] ELSE [duplicate EXCEPT !.emitted = @ + 1])
            /\ SetCounters(added)
         \/ duplicate' = [duplicate EXCEPT !.suppressed = @ + 1] /\ UNCHANGED <<rateTokens, backlog>>
  BY DEF AddRecord, opened, filled, rated, said, added
<1>8. logged' <= LogRecords
  BY <1>0, <1>7, LogNumbers
<1>9. duplicate'.emitted <= DuplicateLimit
  <2>1. duplicate.emitted <= DuplicateLimit
    BY DEF LogBounds
  <2>2. CASE duplicate' = [emitted |-> 1, suppressed |-> 0]
    BY <2>2, LogNumbers
  <2>3. CASE duplicate.emitted < DuplicateLimit /\ duplicate' = [duplicate EXCEPT !.emitted = @ + 1]
    BY <1>0, <2>3, LogNumbers
  <2>4. CASE duplicate' = [duplicate EXCEPT !.suppressed = @ + 1]
    BY <1>0, <2>1, <2>4
  <2> QED BY <1>7, <2>2, <2>3, <2>4
<1>10. rateTokens' <= RateBurst /\ Len(backlog') <= QueueLimit
  BY <1>6, <1>7 DEF SetCounters, WithinBounds, LogBounds
<1> QED BY <1>7, <1>8, <1>9, <1>10 DEF LogBounds

LEMMA BoundsKept == LogInv /\ LogBounds /\ [LogNext]_logVars => LogBounds'
<1> SUFFICES ASSUME LogInv, LogBounds, [LogNext]_logVars PROVE LogBounds'
  OBVIOUS
<1>0. LogTypes /\ segments \in [1..SegmentCount -> Seq(Line)]
  BY DEF LogInv, LogTypes
<1>1. ASSUME NEW renewed \in BOOLEAN, NEW refilled \in BOOLEAN, AddRecord(renewed, refilled) PROVE LogBounds'
  BY <1>1, AddBounds
<1>2. CASE Flush
  <2>1. UNCHANGED <<logged, duplicate, rateTokens, reclaimLeft>> /\ (FlushWritten \/ FlushBusy \/ FlushFailed)
    BY <1>2 DEF Flush
  <2>2. Placed(backlog, logged)
    BY DEF LogInv
  <2>3. Len(backlog) \in Nat /\ Len(backlog) <= QueueLimit /\ QueueLimit \in Nat
    BY <1>0, BatchIsAPart, LogNumbers DEF LogBounds
  <2>4. Len(backlog') <= QueueLimit
    <3>1. \E keep : Leaves(backlog', keep)
      BY <1>0, <2>1, <2>2, ServedLeaves, BusyLeaves DEF FlushWritten, FlushBusy, FlushFailed
    <3>2. PICK keep : Leaves(backlog', keep)
      BY <3>1
    <3>3. Len(backlog') <= Len(backlog) /\ Len(backlog') \in Nat
      BY <1>0, <3>2, LeavesWithin DEF Leaves
    <3> QED BY <2>3, <3>3
  <2>5. \A a \in 1..SegmentCount : Len(segments'[a]) <= SegmentLimit
    <3>1. segments' = segments \/ segments' = AppendedBatch(segments, FileItems)
      BY <2>1 DEF FlushWritten, FlushBusy, FlushFailed
    <3>2. \A a \in 1..SegmentCount : Len(segments[a]) <= SegmentLimit
      BY DEF LogBounds
    <3> QED BY <1>0, <3>1, <3>2, AppendedWithin, BatchWithin
  <2>6. writeLock' \in {"free", "other", "dead"}
    BY <2>1 DEF FlushWritten, FlushBusy, FlushFailed, LogBounds
  <2> QED BY <2>1, <2>4, <2>5, <2>6 DEF LogBounds
<1>3. CASE BeginClose \/ CloseRate \/ CloseQueue
  <2>1. UNCHANGED <<logged, duplicate, segments, writeLock, reclaimLeft>>
    BY <1>3 DEF BeginClose, CloseRate, CloseQueue
  <2>2. PICK c, k : c \in CounterRecord /\ WithinBounds(c) /\ SetCounters(EnqueueSuppression(c, k))
    <3>1. Counters \in CounterRecord /\ WithinBounds(Counters)
      BY <1>0, CountersAreTyped DEF LogBounds, WithinBounds, Counters
    <3> DEFINE noRate == [Counters EXCEPT !.byRate = 0]
               noQueue == [Counters EXCEPT !.byQueue = 0]
    <3>2. noRate \in CounterRecord /\ WithinBounds(noRate) /\ noQueue \in CounterRecord /\ WithinBounds(noQueue)
      <4> DEFINE c == Counters
      <4> HIDE DEF c
      <4>1. c \in CounterRecord /\ WithinBounds(c)
        BY <3>1 DEF c
      <4>2. [c EXCEPT !.byRate = 0] \in CounterRecord /\ WithinBounds([c EXCEPT !.byRate = 0])
            /\ [c EXCEPT !.byQueue = 0] \in CounterRecord /\ WithinBounds([c EXCEPT !.byQueue = 0])
        BY <4>1 DEF CounterRecord, WithinBounds
      <4> QED BY <4>2 DEF c
    <3>3. \/ SetCounters(EnqueueSuppression(Counters, duplicate.suppressed))
          \/ SetCounters(EnqueueSuppression(noRate, byRate))
          \/ SetCounters(EnqueueSuppression(noQueue, byQueue))
      BY <1>3 DEF BeginClose, CloseRate, CloseQueue
    <3> HIDE DEF noRate, noQueue
    <3> QED BY <3>1, <3>2, <3>3
  <2>3. WithinBounds(EnqueueSuppression(c, k))
    BY <2>2, SummaryWithin
  <2>4. rateTokens' <= RateBurst /\ Len(backlog') <= QueueLimit
    BY <2>2, <2>3 DEF SetCounters, WithinBounds
  <2> QED BY <2>1, <2>4 DEF LogBounds
<1>4. CASE EndClose \/ OtherTakes \/ OtherReleases \/ UNCHANGED logVars
  BY <1>4 DEF EndClose, OtherTakes, OtherReleases, logVars, LogBounds
<1>5. CASE OtherDies
  BY <1>5 DEF OtherDies, LogBounds
<1>6. CASE OtherWrites
  <2>1. /\ segments' = AppendedBatch(segments, <<ForeignEntry>>)
        /\ UNCHANGED <<logged, duplicate, rateTokens, backlog, writeLock, reclaimLeft>>
    BY <1>6 DEF OtherWrites
  <2>2. <<ForeignEntry>> \in Seq(Line) /\ Len(<<ForeignEntry>>) <= SegmentLimit
    <3>1. ForeignEntry \in Line
      BY EntriesAreLines
    <3>2. \A x : Len(<<x>>) = 1
      OBVIOUS
    <3> QED BY <3>1, <3>2, LogNumbers
  <2>3. \A a \in 1..SegmentCount : Len(segments[a]) <= SegmentLimit
    BY DEF LogBounds
  <2>4. \A a \in 1..SegmentCount : Len(segments'[a]) <= SegmentLimit
    BY <1>0, <2>1, <2>2, <2>3, AppendedWithin
  <2> QED BY <2>1, <2>4 DEF LogBounds
<1> QED BY <1>1, <1>2, <1>3, <1>4, <1>5, <1>6 DEF LogNext

\* What the console refuses was offered to it.
RefusedWereOffered == refused \subseteq DOMAIN offered

LEMMA OffersGrow ==
    ASSUME LogTypes, RefusedWereOffered, OfferLines
    PROVE  RefusedWereOffered'
<1> DEFINE S == {i \in 1..BatchLength : backlog[i].consolePending}
           more == ConsoleLines
<1>1. BatchLength \in Nat /\ BatchLength <= Len(backlog) /\ backlog \in Seq(Item)
      /\ Len(backlog) \in Nat /\ offered \in Seq(Line)
  BY BatchIsAPart DEF LogTypes
<1>2. S \in SUBSET (1..Len(backlog))
  BY <1>1
<1>3. more = Lines(S)
  BY DEF ConsoleLines
<1> HIDE DEF S, more
<1>4. more \in Seq(Line)
  BY <1>1, <1>2, <1>3, LinesAre
<1>5. offered' = offered \o more /\ refused' \subseteq refused \cup (Len(offered) + 1 .. Len(offered'))
  BY DEF OfferLines, more
<1>6. DOMAIN offered = 1..Len(offered) /\ DOMAIN offered' = 1..Len(offered')
      /\ Len(offered') = Len(offered) + Len(more) /\ Len(offered) \in Nat /\ Len(more) \in Nat
  BY <1>1, <1>4, <1>5
<1> QED BY <1>5, <1>6 DEF RefusedWereOffered

LEMMA RefusedStay == LogInv /\ RefusedWereOffered /\ [LogNext]_logVars => RefusedWereOffered'
<1> SUFFICES ASSUME LogInv, RefusedWereOffered, [LogNext]_logVars PROVE RefusedWereOffered'
  OBVIOUS
<1>1. CASE Flush
  BY <1>1, OffersGrow DEF Flush, LogInv
<1>2. CASE UNCHANGED <<offered, refused>>
  BY <1>2 DEF RefusedWereOffered
<1>3. Flush \/ UNCHANGED <<offered, refused>>
  BY DEF LogNext, AddRecord, BeginClose, CloseRate, CloseQueue, EndClose,
         OtherTakes, OtherWrites, OtherReleases, OtherDies, logVars
<1> QED BY <1>1, <1>2, <1>3

\* The queue and the segments stay within their sizes, whoever holds the lock of the files.
THEOREM LogsAreTyped == LogSpec => []LogTypeOK
<1>1. LogInit => LogBounds
  <2> SUFFICES ASSUME LogInit PROVE LogBounds
    OBVIOUS
  <2>1. Len(<<>>) = 0
    OBVIOUS
  <2>2. \A a \in 1..SegmentCount : segments[a] = <<>>
    BY DEF LogInit
  <2>3. Len(backlog) = 0 /\ \A a \in 1..SegmentCount : Len(segments[a]) = 0
    BY <2>1, <2>2 DEF LogInit
  <2>4. duplicate.emitted = 0 /\ logged = 0 /\ rateTokens = RateBurst /\ writeLock = "free" /\ reclaimLeft = FALSE
    BY DEF LogInit
  <2>5. 0 <= LogRecords /\ 0 <= DuplicateLimit /\ RateBurst <= RateBurst /\ 0 <= QueueLimit /\ 0 <= SegmentLimit
    BY LogNumbers
  <2> QED BY <2>3, <2>4, <2>5 DEF LogBounds
<1>2. LogInv /\ LogBounds /\ RefusedWereOffered => LogTypeOK
  <2> SUFFICES ASSUME LogInv, LogBounds, RefusedWereOffered PROVE LogTypeOK
    OBVIOUS
  <2>0. LogTypes
    BY DEF LogInv
  <2>1. logged \in 0..LogRecords /\ rateTokens \in 0..RateBurst /\ {byRate, byQueue} \subseteq Nat
        /\ logStage \in {"open", "closing", "rate", "queue", "closed"} /\ {reclaimLeft, late} \subseteq BOOLEAN
    BY <2>0, LogNumbers DEF LogTypes, LogBounds
  <2>2. duplicate \in [emitted : 0..DuplicateLimit, suppressed : Nat]
    BY <2>0, LogNumbers DEF LogTypes, LogBounds
  <2>3. ASSUME NEW i \in DOMAIN backlog
        PROVE  backlog[i] \in [entry : Entry, filePending : BOOLEAN, consolePending : BOOLEAN]
    <3>1. backlog[i] \in Item /\ backlog[i].entry \in Line
      <4>1. backlog \in Seq(Item)
        BY <2>0 DEF LogTypes
      <4>2. backlog[i] \in Item
        BY <2>3, <4>1
      <4> QED BY <4>2 DEF Item
    <3>2. backlog[i].entry.record <= logged
      BY <2>3 DEF LogInv, Placed
    <3>3. backlog[i].entry \in Entry
      BY <2>1, <3>1, <3>2, LogNumbers DEF Line, Entry
    <3> QED BY <3>1, <3>3 DEF Item
  <2>4. Len(segments) = SegmentCount /\ DOMAIN segments = 1..SegmentCount
    BY <2>0, LogNumbers DEF LogTypes
  <2> QED BY <2>1, <2>2, <2>3, <2>4 DEF LogTypeOK, LogBounds, RefusedWereOffered
<1>3. LogSpec => []LogBounds
  BY <1>1, BoundsKept, LogInvariance, PTL DEF LogSpec
<1>4. LogInit => RefusedWereOffered
  BY DEF LogInit, RefusedWereOffered
<1>5. LogSpec => []RefusedWereOffered
  BY <1>4, RefusedStay, LogInvariance, PTL DEF LogSpec
<1> QED BY <1>2, <1>3, <1>5, LogInvariance, PTL
=============================================================================
