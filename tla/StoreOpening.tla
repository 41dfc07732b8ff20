---------------------------- MODULE StoreOpening ----------------------------
(***************************************************************************)
(* Opening the store (openDb() of src/packages/server/src/storage/db.ts):  *)
(* its format is inspected, a store that needs migrating is opened under   *)
(* the migration lock, backed up and migrated in one transaction.  Engines *)
(* of two versions may open one store.                                     *)
(***************************************************************************)
EXTENDS FileLock

CONSTANTS NewestFormat,
          OldEngines      \* processes whose engine is one format behind

ASSUME OpeningConstants == NewestFormat \in Nat \ {0, 1} /\ OldEngines \subseteq Lockers

VARIABLES storeFormat,    \* PRAGMA user_version, 0 for a store from before formats
          storeEmpty,     \* there is nothing to back up
          opening,        \* where openDb() is
          backups         \* formats there is a backup of

storeVars == <<lockVars, storeFormat, storeEmpty, opening, backups>>

StoreTypeOK ==
    /\ LockTypeOK
    /\ storeFormat \in 0..NewestFormat
    /\ storeEmpty \in BOOLEAN
    /\ opening \in [Lockers -> {"closed", "locking", "inspected", "migrating", "migrated"}]
    /\ backups \subseteq 0..NewestFormat

StoreInit ==
    /\ LockInit
    /\ storeFormat = 0
    /\ storeEmpty \in BOOLEAN
    /\ opening = [p \in Lockers |-> "closed"]
    /\ backups = {}

----------------------------------------------------------------------------
CurrentFormat(p) == IF p \in OldEngines THEN NewestFormat - 1 ELSE NewestFormat
Compatible(p) == storeFormat <= CurrentFormat(p)
RequiresMigration(p) == storeFormat < CurrentFormat(p)
Goes(p, from, to) == opening[p] = from /\ opening' = [opening EXCEPT ![p] = to]

\* Mutant: stores are opened without the migration lock.
OpenUnlocked(p) ==
    /\ Compatible(p)
    /\ Goes(p, "closed", "inspected") /\ locker[p] = "idle" /\ UNCHANGED lockVars
    /\ UNCHANGED <<storeFormat, storeEmpty, backups>>

\* An incompatible store is refused here; a current one is opened without lock.
OpenStore(p) ==
    /\ Compatible(p)
    /\ IF RequiresMigration(p)
       THEN Goes(p, "closed", "locking") /\ Wants(p)
       ELSE Goes(p, "closed", "inspected") /\ locker[p] = "idle" /\ UNCHANGED lockVars
    /\ UNCHANGED <<storeFormat, storeEmpty, backups>>

\* openCompatibleDb() reads the format again and backs up what it will migrate.
BackupForMigration(p) ==
    /\ \/ Goes(p, "locking", "migrating") /\ locker[p] = "holding"
       \/ Goes(p, "inspected", "migrating")
    /\ Compatible(p)
    /\ backups' = IF RequiresMigration(p) /\ ~storeEmpty THEN backups \cup {storeFormat} ELSE backups
    /\ UNCHANGED <<lockVars, storeFormat, storeEmpty>>

\* The transaction runs every migration from the format it finds.
Migrate(p) ==
    /\ Goes(p, "migrating", "migrated")
    /\ Compatible(p)
    /\ storeFormat' = CurrentFormat(p)
    /\ storeEmpty' = FALSE
    /\ UNCHANGED <<lockVars, backups>>

\* A newer engine migrated the store first, the lock was not to be had, or a
\* statement failed: nothing was committed.  The end of openDb() in all cases.
CloseStore(p) ==
    /\ \/ Goes(p, "locking", "closed") /\ locker[p] = "idle" /\ UNCHANGED lockVars
       \/ /\ opening[p] \in {"locking", "migrating", "migrated"}
          /\ opening' = [opening EXCEPT ![p] = "closed"]
          /\ StartRelease(p)
       \/ /\ opening[p] \in {"inspected", "migrating", "migrated"} /\ locker[p] = "idle"
          /\ opening' = [opening EXCEPT ![p] = "closed"] /\ UNCHANGED lockVars
    /\ UNCHANGED <<storeFormat, storeEmpty, backups>>

OpenerDies(p) ==
    /\ Dies(p)
    /\ opening' = [opening EXCEPT ![p] = "closed"]
    /\ UNCHANGED <<storeFormat, storeEmpty, backups>>

StoreNext ==
    \/ \E p \in Lockers : \/ OpenStore(p) \/ BackupForMigration(p) \/ Migrate(p) \/ CloseStore(p)
                          \/ OpenerDies(p)
                          \/ /\ Acquiring(p) \/ Release(p) \/ StartsAgain(p)
                             /\ UNCHANGED <<storeFormat, storeEmpty, opening, backups>>
    \/ StaleLock /\ UNCHANGED <<storeFormat, storeEmpty, opening, backups>>

StoreSpec == StoreInit /\ [][StoreNext]_storeVars

----------------------------------------------------------------------------
\* The format of a store only grows, and no format with data in it is left
\* behind without a backup of it, whichever engines open the store at once.
BackedUpFirst ==
    [][storeFormat' # storeFormat =>
         storeFormat' > storeFormat /\ (storeEmpty \/ storeFormat \in backups)]_storeVars
============================================================================
