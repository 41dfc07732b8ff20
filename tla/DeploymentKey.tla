---------------------------- MODULE DeploymentKey ----------------------------
(* How processes come by the key of the store, and config.toml by its values:  *)
(* resolveEncryptionKey() reads the key file or makes one under a lock, and    *)
(* migrateConfigurationValues() brings a key, settings and secrets over from   *)
(* an old file under a lock of its own, and takes back what it made when a     *)
(* step fails.                                                                 *)
EXTENDS Naturals, FiniteSets

CONSTANTS Starters,       \* processes that start, each once
          Migrations,     \* processes that migrate, each once
          KeySupply,      \* keys there are: one for each process to make, and Imported
          Imported,       \* the key in the old file
          NoKey

ASSUME KeyConstants ==
    /\ Starters \cap Migrations = {} /\ Starters \cup Migrations \subseteq KeySupply
    /\ Imported \in KeySupply \ (Starters \cup Migrations) /\ NoKey \notin KeySupply

KeyProcesses == Starters \cup Migrations
Half == [half |-> Imported]     \* a key file that is being written

VARIABLES keyFile,        \* encryption.key
          tomlFile,       \* who wrote config.toml
          written,        \* keys that values of the store are encrypted with
          keyLock, migrationLock,
          stage,          \* where each process is
          chosen,         \* the key a process goes on with
          request,        \* what a migration finds in its file
          owns,           \* files a migration has made
          crossed         \* history: a start made a key during an import, or a key in use was taken back

keyVars == <<keyFile, tomlFile, written, keyLock, migrationLock, stage, chosen, request, owns, crossed>>

Keys == KeySupply \cup {NoKey}
ASSUME HalfIsNoKey == Half \notin Keys

Stages == {"start", "waiting", "checked", "making", "ready", "writing", "keyed", "settled", "ended"}

DeploymentKeyTypeOK ==
    /\ keyFile \in Keys \cup {Half} /\ tomlFile \in Migrations \cup {"none"}
    /\ written \subseteq KeySupply
    /\ keyLock \in KeyProcesses \cup {NoKey} /\ migrationLock \in Migrations \cup {NoKey}
    /\ stage \in [KeyProcesses -> Stages] /\ chosen \in [KeyProcesses -> Keys]
    /\ request \in [Migrations -> [key : {NoKey, Imported}, deployment : BOOLEAN, secrets : BOOLEAN]]
    /\ owns \in [Migrations -> SUBSET {"key", "toml"}] /\ crossed \in BOOLEAN

DeploymentKeyInit ==
    /\ keyFile \in {NoKey, Imported} /\ written \in {{}, {Imported}} /\ tomlFile = "none"
    /\ written = {Imported} => keyFile = Imported
    /\ keyLock = NoKey /\ migrationLock = NoKey
    /\ stage = [p \in KeyProcesses |-> "start"] /\ chosen = [p \in KeyProcesses |-> NoKey]
    /\ request \in [Migrations -> [key : {NoKey, Imported}, deployment : BOOLEAN, secrets : BOOLEAN]]
    /\ owns = [m \in Migrations |-> {}] /\ crossed = FALSE

GoOn(p, at) == stage' = [stage EXCEPT ![p] = at]
Choose(p, key) == chosen' = [chosen EXCEPT ![p] = key]

-----------------------------------------------------------------------------
\* resolveEncryptionKey(): starters at "start", a migration that brings no key at "keyed".
Resolving(p) == stage[p] = (IF p \in Starters THEN "start" ELSE "keyed")
ResolvedStage(p) == IF p \in Starters THEN "ready" ELSE "settled"
NeedsKey(p) == p \in Migrations => request[p].secrets /\ chosen[p] = NoKey

ReadStored(p) ==
    /\ Resolving(p) /\ NeedsKey(p) /\ keyFile \in KeySupply
    /\ Choose(p, keyFile) /\ GoOn(p, ResolvedStage(p))
    /\ UNCHANGED <<keyFile, tomlFile, written, keyLock, migrationLock, request, owns, crossed>>
SeeNoKey(p) ==
    /\ Resolving(p) /\ NeedsKey(p) /\ keyFile = NoKey
    /\ GoOn(p, "waiting")
    /\ UNCHANGED <<keyFile, tomlFile, written, keyLock, migrationLock, chosen, request, owns, crossed>>
LockKey(p) ==
    /\ stage[p] = "waiting" /\ keyLock = NoKey
    /\ keyLock' = p /\ GoOn(p, "checked")
    /\ UNCHANGED <<keyFile, tomlFile, written, migrationLock, chosen, request, owns, crossed>>
(* Under the lock the file is looked for again. *)
LookAgainUnlooked(p) == GoOn(p, "making") /\ UNCHANGED <<chosen, keyLock>>
LookAgain(p) ==
    IF keyFile \in KeySupply
    THEN Choose(p, keyFile) /\ keyLock' = NoKey /\ GoOn(p, ResolvedStage(p))
    ELSE keyFile = NoKey /\ GoOn(p, "making") /\ UNCHANGED <<chosen, keyLock>>
CheckUnderLock(p) ==
    /\ stage[p] = "checked" /\ LookAgain(p)
    /\ UNCHANGED <<keyFile, tomlFile, written, migrationLock, request, owns, crossed>>
(* A temporary file, written and synced, is renamed to the key file. *)
RenameKey(p) ==
    /\ stage[p] = "making"
    /\ keyFile' = p /\ Choose(p, p) /\ keyLock' = NoKey
    /\ crossed' = (crossed \/ keyFile \in {Half, Imported}
                   \/ \E m \in Migrations \ {p} : migrationLock = m /\ request[m].key # NoKey)
    /\ owns' = [m \in Migrations |-> IF m = p THEN owns[m] \cup {"key"} ELSE owns[m]]
    /\ GoOn(p, ResolvedStage(p))
    /\ UNCHANGED <<tomlFile, written, migrationLock, request>>
(* A half-written file is no key: "Corrupt encryption key". *)
ReadCorrupt(p) ==
    /\ p \in Starters /\ stage[p] \in {"start", "checked"} /\ keyFile = Half
    /\ keyLock' = (IF keyLock = p THEN NoKey ELSE keyLock)
    /\ GoOn(p, "ended")
    /\ UNCHANGED <<keyFile, tomlFile, written, migrationLock, chosen, request, owns, crossed>>
(* A secret is stored. *)
StoreSecret(p) ==
    /\ p \in Starters /\ stage[p] = "ready"
    /\ written' = written \cup {chosen[p]} /\ GoOn(p, "ended")
    /\ UNCHANGED <<keyFile, tomlFile, keyLock, migrationLock, chosen, request, owns, crossed>>

-----------------------------------------------------------------------------
Undo(m) ==
    /\ keyFile' = (IF "key" \in owns[m] THEN NoKey ELSE keyFile)
    /\ tomlFile' = (IF "toml" \in owns[m] THEN "none" ELSE tomlFile)
    /\ crossed' = (crossed \/ ("key" \in owns[m] /\ (keyFile \in written \/ \E p \in Starters : chosen[p] = keyFile)))
    /\ migrationLock' = NoKey
    /\ keyLock' = (IF keyLock = m THEN NoKey ELSE keyLock)
    /\ GoOn(m, "ended")
    /\ UNCHANGED <<written, chosen, request, owns>>

(* The candidate's key is the imported one, else the stored one, else none; a  *)
(* config.toml, another key, or values of the store that the key does not open *)
(* refuse the import before anything is written.                               *)
Candidate(m) == IF request[m].key # NoKey THEN request[m].key ELSE IF keyFile = Half THEN NoKey ELSE keyFile
Importable(m) ==
    /\ keyFile # Half
    /\ request[m].deployment => tomlFile = "none"
    /\ request[m].key # NoKey => keyFile \in {NoKey, request[m].key}
    /\ written \subseteq {Candidate(m)}
BeginMigration(m) ==
    /\ stage[m] = "start" /\ migrationLock = NoKey
    /\ IF Importable(m)
       THEN migrationLock' = m /\ Choose(m, Candidate(m)) /\ GoOn(m, "writing")
       ELSE GoOn(m, "ended") /\ UNCHANGED <<migrationLock, chosen>>
    /\ UNCHANGED <<keyFile, tomlFile, written, keyLock, request, owns, crossed>>
(* The key file is created, then filled; a failure in between leaves it. *)
CreateKeyFile(m) ==
    /\ stage[m] = "writing" /\ request[m].key # NoKey /\ keyFile = NoKey
    /\ keyFile' = Half
    /\ UNCHANGED <<tomlFile, written, keyLock, migrationLock, stage, chosen, request, owns, crossed>>
FillKeyFile(m) ==
    /\ stage[m] = "writing" /\ keyFile = Half
    /\ keyFile' = request[m].key /\ owns' = [owns EXCEPT ![m] = @ \cup {"key"}]
    /\ UNCHANGED <<tomlFile, written, keyLock, migrationLock, stage, chosen, request, crossed>>
\* The file is linked into place, which fails where there is one.
WriteToml(m) ==
    /\ stage[m] = "writing" /\ keyFile # Half /\ (request[m].key # NoKey => keyFile # NoKey)
    /\ request[m].deployment => tomlFile = "none"
    /\ IF request[m].deployment
       THEN tomlFile' = m /\ owns' = [owns EXCEPT ![m] = @ \cup {"toml"}]
       ELSE UNCHANGED <<tomlFile, owns>>
    /\ GoOn(m, "keyed")
    /\ UNCHANGED <<keyFile, written, keyLock, migrationLock, chosen, request, crossed>>
KeyAtHand(m) ==
    /\ stage[m] = "keyed" /\ ~NeedsKey(m)
    /\ GoOn(m, "settled")
    /\ UNCHANGED <<keyFile, tomlFile, written, keyLock, migrationLock, chosen, request, owns, crossed>>
\* One transaction stores the secrets.
ImportSecrets(m) ==
    /\ stage[m] = "settled"
    /\ written' = written \cup (IF request[m].secrets THEN {chosen[m]} ELSE {})
    /\ migrationLock' = NoKey /\ GoOn(m, "ended")
    /\ UNCHANGED <<keyFile, tomlFile, keyLock, chosen, request, owns, crossed>>
MigrationFails(m) == stage[m] \in {"writing", "keyed", "waiting", "checked", "settled"} /\ Undo(m)

(* A process that dies leaves its files; its locks are found stale. *)
KeyProcessDies(p) ==
    /\ stage[p] \notin {"start", "ended"} /\ GoOn(p, "ended")
    /\ keyLock' = (IF keyLock = p THEN NoKey ELSE keyLock)
    /\ migrationLock' = (IF migrationLock = p THEN NoKey ELSE migrationLock)
    /\ UNCHANGED <<keyFile, tomlFile, written, chosen, request, owns, crossed>>

DeploymentKeyNext ==
    \/ \E p \in KeyProcesses :
          \/ ReadStored(p) \/ SeeNoKey(p) \/ LockKey(p) \/ CheckUnderLock(p)
          \/ RenameKey(p) \/ ReadCorrupt(p) \/ KeyProcessDies(p)
    \/ \E p \in Starters : StoreSecret(p)
    \/ \E m \in Migrations :
          \/ BeginMigration(m) \/ CreateKeyFile(m) \/ FillKeyFile(m) \/ WriteToml(m)
          \/ KeyAtHand(m) \/ ImportSecrets(m) \/ MigrationFails(m)
DeploymentKeySpec == DeploymentKeyInit /\ [][DeploymentKeyNext]_keyVars

-----------------------------------------------------------------------------
(* Whoever starts or migrates together, and wherever one dies, the key file    *)
(* holds the key of every value in the store; the exceptions are a start that  *)
(* makes a key while a migration imports one, as the import does not take the  *)
(* key's lock, and a failed migration that takes back a key another has read.  *)
KeyStaysWithData == crossed \/ written \subseteq {keyFile}

(* Both locks are locks as FileLock's files are: taken from nobody, and left   *)
(* by their holder.                                                            *)
KeyAsLock == INSTANCE LockPromise WITH Holders <- KeyProcesses, Nobody <- NoKey, holder <- keyLock
MigrationAsLock == INSTANCE LockPromise WITH Holders <- Migrations, Nobody <- NoKey, holder <- migrationLock
KeyLocksAreLocks == KeyAsLock!Spec /\ MigrationAsLock!Spec
=============================================================================
