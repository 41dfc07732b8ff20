# Fluxmail: models, checks and proofs

Fluxmail gives an agent or a program access to mailboxes (Gmail, Outlook, IMAP)
over MCP, REST and a command line. One instance is one SQLite store that several
processes may open at once: `fluxmail serve`, a stdio MCP server per client,
one-shot commands, `fluxmail scheduled run`. What is hard in it is what happens
between two SQL statements and across an `await`: mail that must leave once,
answers that must be true, locks, tokens and members that change while somebody
waits.

This directory holds TLA+ models of the instance, the TLC configurations that check
them on small sets, and TLAPS proofs about them for sets of any size. Paths below are
relative to `packages/server/src` unless they begin with `packages/` or `scripts/`.

## 1. Inventory

| Component | State | Operations | Talks to | What is hard | Modules |
|---|---|---|---|---|---|
| Scheduled delivery (`storage/scheduledSends.ts`, `service/deliveryCoordinator.ts`, `fire` of `scheduler/sendScheduler.ts`) | `scheduled_sends`, `delivery_operations` (rows linked by a unique `schedule_id`) | schedule, cancel, claim, renew, fire, finish, retry, supersede, report | providers; every process with the store | leases that run out under a living worker; crashes around the provider call; cancel against claim; link against fire; writes by id alone; failing statements | `ScheduledDelivery`, `DeliveryPromise` |
| Scheduler loop (`scheduler/sendScheduler.ts`) | `running`, `active`, `rerun`, `timer`, `quotaHoldUntil` | start, stop, wake, licenseRefreshed, tick, arm | service, license controller, lifecycle | a wake during a tick, or from inside it; stop during a delivery; the quota hold | `SendScheduler` |
| Idempotent delivery (`run`, `schedule`, `get` of the coordinator; `storage/restIdempotency.ts`; `http/rest.ts`) | `delivery_operations` (unique principal and key), `rest_idempotency` | send, forward, schedule under a key; report | REST, MCP and CLI callers | repeated calls, two at once, a call that dies, a late heartbeat, records of an older version | `IdempotentDelivery` |
| Runtime lifecycle (`lifecycle.ts`, `serve` of `cli.ts`) | closing promise, tracked requests, signals, deadline | start, track, close, force | scheduler, license controller, HTTP server, store | a signal while starting; a request that begins while the server drains; a second signal; failures on the way | `RuntimeLifecycle` |
| Licensing (`licensing/*`) | lease row, `over_cap_since`, controller fields, configured key | refresh, wake, stop, activate, deactivate, assert limits | license server, other processes | keys changed during a refresh, here or elsewhere; lease, grace and caps against the clock | `LicenseController`, `Entitlements` |
| File lock and store (`storage/fileLock.ts`, `storage/db.ts`) | lock file, `.reclaim` file, heartbeat thread, store format, backups | lock, reclaim, release, open, migrate | every process | taking over a dead holder's lock; dying while doing so; engines of two versions | `FileLock`, `StoreOpening` |
| Accounts (`accounts/registry.ts`) | credentials with revisions, provider cache | add, reconnect, remove, refresh, evict | providers, OAuth servers | refreshes in two processes; a refresh against a new connection | `AccountRegistry` |
| Connecting (`accounts/oauthCallback.ts`, `storage/gmailConnectionGrants.ts`, `http/app.ts`) | one flow's flags; grants; OAuth states in memory | callback, paste, timeout; create, inspect, claim | browser, terminal | who settles the flow; one use per link; a restart between link and callback | `OAuthCallback`, `HostedConnection` |
| Members (`auth.ts`, `storage/members.ts`, `storage/apiKeys.ts`, `http/identity.ts`) | members, credentials, codes, sessions, attempts, keys | setup, invite, enroll, reset, log in, change, suspend, remove, revoke | every surface, each command line in a process of its own | reads that are stale after the password hash is awaited, or when another process writes; the last administrator; attempt limits | `Members`, `LoginAttempts` |
| Permissions (`permissions.ts`, `mcp/buildServer.ts`, `http/rest.ts`) | the policy of a connection | ask, refuse, follow the instructions | every surface | two tables of capabilities that must agree; instructions that replace a policy | `ConnectionPermissions` |
| Email service (`service/emailService.ts`) | cursors, sign-in status of accounts | search several mailboxes, modify, draft, send, schedule | registry, providers | partial failure of batches; deadlines; page tokens | `MailboxSearch`, `MailboxChanges` and the first three |
| IMAP provider (`packages/provider-imap`, `storage/imapState.ts`) | rows of where a message is, by UIDVALIDITY | read, move, draft, send, search | mail server | moved messages, renumbered mailboxes, pages cut short | `ImapMessages`, `ImapPaging` |
| Gmail and Outlook (`packages/provider-gmail`, `packages/provider-outlook`) | access token, folder cache | requests with retries, drafts, sends, searches, moves | their services | a retry must not repeat a send; pages that end within a batch; Trash | `ProviderRequests`, `ProviderPaging`, `OutlookMoves` |
| Configuration (`config.ts`, `configMigration.ts`, `deploymentConfig.ts`) | `encryption.key`, `config.toml`, `instance_settings`, a copy in each process | load, write, import | every process | a key made while an import brings another; copies read in several statements | `DeploymentKey`, `InstanceSettings` |
| Logging (`logging.ts`) | queue, windows, segments, a lock | add, flush, rotate, close | other processes | everything at its limit; a lock nobody gives back | `LocalLog` |
| Release tooling (`scripts/release.mjs`, `scripts/publish.mjs`) | npm, image, registry, tag, GitHub release, plugin branch | publish, resume | these destinations | a release that stops halfway and is resumed after a newer one | `ReleasePublishing` |
| Core (`packages/core`), rendering, schemas, argument parsing, telemetry, update notices | none | conversions of text | all | little that is not a handler of the above | not modelled (section 6) |

Which hazards each has is in `PROJECT.json` (`hazards`, each at the line where it
bites, with the properties that cover it).

## 2. The modules

    DeliveryPromise                        what a delivery promises (abstract)
      ^ implemented by      ^ implemented by
    ScheduledDelivery     IdempotentDelivery     SendScheduler     LicenseController
     MCScheduledDelivery   MCIdempotentDelivery         ^            ^ extended by
                                                        |          RuntimeLifecycle
                                                        |           MCRuntimeLifecycle
                                                        +--- MCServerProcess ---+

    SchedulerPromise                       what a scheduler promises (abstract)
      ^ implemented by SendScheduler, and by what RuntimeLifecycle has of it
    LockPromise                            what a lock promises (abstract)
      ^ implemented by FileLock, and twice by DeploymentKey

    Members
     MCMembers

    MCInstanceParts                        one of these takes the steps
      Entitlements  LoginAttempts  ConnectionPermissions
      HostedConnection (extends AccountRegistry)  OAuthCallback
      StoreOpening (extends FileLock)
      MailboxSearch  MailboxChanges  ImapMessages  ImapPaging
      ProviderRequests  ProviderPaging  OutlookMoves
      DeploymentKey  InstanceSettings  LocalLog  ReleasePublishing
    Ordering                               lists in order, used by the paging modules and the log

    ScheduledDelivery_proofs  SendScheduler_proofs  IdempotentDelivery_proofs
    RuntimeLifecycle_proofs                (with LicenseController)
    Access_proofs                          Members, Entitlements, LoginAttempts,
                                           ConnectionPermissions, AccountRegistry,
                                           HostedConnection, OAuthCallback
    Mail_proofs                            OutlookMoves, MailboxChanges, MailboxSearch,
                                           ImapMessages, ImapPaging, ProviderRequests,
                                           ProviderPaging
    Deployment_proofs                      FileLock, StoreOpening, DeploymentKey,
                                           InstanceSettings, LocalLog, ReleasePublishing
    InstanceParts_proofs                   their composition in MCInstanceParts

An action is one SQL statement or transaction, one file operation, or one stretch of
JavaScript from an `await` to the next, whichever is the grain at which somebody else
can come in between. Definitions carry the names of the code; a definition marked
"Mutant" is a plausible mistake in the operation that follows it, and with it in place
of that operation the property named in `PROJECT.json` fails.

**DeliveryPromise** has two facts per delivery: the provider accepted the message
(`delivered`) and what its operation tells (`told`). The provider accepts once and
never after a refusal was told; what is told is true; nothing that was told goes
back to being open. **SchedulerPromise**: at most one delivery at a time, none begun while
the scheduler is off, none under way when a `stop()` has returned. **LockPromise**: a lock
is taken from nobody, and left by its holder only.

**ScheduledDelivery.** *Worker*: `Claim` (claimScheduledSend), `Confirm`, `Lookup`,
`InsertOp` (queueScheduled), `MarkOp` (an operation found in `sending` becomes
`uncertain`), `Preflight`, `RejectOp`, `Check`, `Dispatch` (the conditional update that
elects the dispatcher), `Connect`, `ProviderAccepts`/`ProviderRefuses`, `Supersede`,
`MarkOther` (markSent), `Finish`, `Reread`, then `Record`, `Fail` or `Retry` with
`Release`, the write under the claim; `Heartbeat` renews, `Crash` ends the process at any
point. *Client*: `StartSchedule`, `FetchDraft`, `InsertRow`, `Link`; `CancelRow`,
`CancelOp`; `StartSendNow`, `SendNow`, `FindSuperseded`, `MarkSuperseded`; `Poll` (get);
`ClientCrash`. *Time* is abstract: `due[s]` (sendAt and nextAttemptAt have passed),
`live[s]` (claimUntil has not); `LeaseExpires` ends a lease nobody renews, `Stall` one
whose worker is alive. `Poll` does not wait for its five minutes: any delay between two
steps is possible, so it may come at any time. A worker's name stands for its random
claim token. `StatementFails` and `FaultySpec` add a store whose statements may throw.

**SendScheduler.** `Wake`, `Start`, `Stop`, `ScheduleChanged`, `LicenseRefreshed`,
`TimerFires`; `Tick` up to the first row; `Fire` and `FireEnds` per row; `Settle`, the
`finally` block. `loop` gives each promise made by `wake()` an identity, so that a second
loop would be visible. A fire is only "takes a row out of the due ones, and lasts": what
it does is ScheduledDelivery's subject, and `DueIsServed` here is what justifies the
fairness of `Claim` there. `woken`, `waited` and `returned` are history variables.

**IdempotentDelivery.** `Call`, `Legacy` (older REST record), `Insert` (the unique
index), `Select` (same request, or a conflict), `Read`, `Expire`, `Reread` (get),
`Deliver`, `Finish`; readers (`Poll`), time (`GoStale`, `Stall`, `LegacyExpires`),
`Heartbeat`, `Crash`. A key stands for a pair of principal and key, a request for the
hash of account, kind and content; `Later` marks requests with a `sendAt`, whose
operation ends, here, in `queued`. The branch of `run` that reopens a `queued` operation
has no caller and is left out; so are reserving and completing the older records, which
no route does any more.

**LicenseController and RuntimeLifecycle.** The controller is its four fields (`stopped`,
`refreshTimer`, `validating`, `refreshPending`; the second and the third are `timer` and
`running` in the code, which the scheduler has too) and the stored key and lease; a refresh
awaits the license server once and what follows happens in one turn. Keys may also be saved or
removed by another process, which reaches this one at its next timer only. The lifecycle
puts around it the scheduler (asleep, or in a delivery), requests on mailboxes, the start that
may fail or see that it is stopping, two signals, the deadline, and `close()` with its
stages: draining, closing the providers, closing the store, flushing the log.

**FileLock and StoreOpening.** The grain is one file operation: exclusive open, write of
the owner, judging a lock, opening `.reclaim`, removing by name. Processes die anywhere,
and start again with their pid on their machine (`StartsAgain`). `Sleepers` are processes
that may be suspended longer than a lock takes to go stale. `openDb()` runs on top:
inspection, lock, second inspection, backup, transaction, release.

**AccountRegistry and HostedConnection.** Two processes keep provider objects over the
same rows. A refresh awaits the identity provider and writes if the revision is the one
it saw. Adding, reconnecting and removing a mailbox, and the evictions that follow, are
one step each; an evicted provider begins no new refresh (its callers hold it for one
operation). The browser flow steps the registry at the end of a callback.

**OAuthCallback** is the loopback flow of the command line: redirect, pasted URL, timeout,
end of input and failing exchange race for `settle()`.

**Members and LoginAttempts.** The handlers run in the server and in every command line
(`cliInstances.ts` runs the whole application in its own process for a local instance), over
one store. A handler that hashes or checks a password has two steps, what it read before
the await and what it does after (`authCall` is such a pending call). A handler that checks
the members in one statement and writes in another has two steps as well: `UpdateChecked`
and `UpdateWritten`, `RemoveChecked` and `RemoveWritten`, `SessionChecked` and
`SessionIssued`, `KeyChecked` and `KeyIssued`, an invitation and its code; a set-up makes its
member wait (`SetupEnds`) and then active (`SetupDone`). Between these `acting` is what a
process is about to do: the process does nothing else meanwhile, another one may, and
`overtaken` says that another one has changed a role or a status in between. One step are
single transactions, what a recovery writes after its hash, and the statements of a set-up
that store the password, the status and the mark that it is done: no check lies between
them, and none of them reads what it writes.
Which process a waiting call belongs to is left open, so some behaviours have more
processes than the code. Places of sessions, codes and calls are used again, so the bound is
on how many exist at a time. LoginAttempts has the reservations of attempts under the email and under the
address and their release, with the windows of the limit moving meanwhile.

**ConnectionPermissions** translates both tables of capabilities, the tools of MCP and the
routes of REST, and the rounding of a policy to its printed options; `FollowInstructions` is a
person who runs the command a refusal printed.

**MailboxSearch, MailboxChanges.** The worker pools of `searchMessagesBatch` and
`modify`: which mailbox or message a worker has asked for, what it has learnt, the hard
deadline, page tokens bound to a search, and the sign-in status that each provider call
leaves in the account's row.

**ImapMessages, ImapPaging.** Ids are places a message was first seen at; rows follow it.
Each operation reads a row, waits for the mailbox, and acts. The server renumbers a
mailbox at any time. Paging goes from mailbox to mailbox and from the highest UID down,
while messages come, go or are renumbered; `resolveFolders` is an operator over listings.

**ProviderRequests, ProviderPaging, OutlookMoves.** A plan is the sequence of requests an
operation consists of; each request may be answered in any way, or its answer lost,
whether or not it took effect. Paging has the two styles of token, ids (Gmail) and
offsets into a batch that is fetched again (Outlook). OutlookMoves has the snapshot of
folders, the check of all messages, then the moves, one by one.

**DeploymentKey, InstanceSettings.** Making a key under one lock, importing one under
another, reading it under none, and taking back what a failed import made. The settings
have a copy in each process, read statement by statement while `data_version` moves.

**LocalLog** counts records against the duplicate window, the rate and the queue, flushes
in batches, rotates segments under a lock that other processes take too and may keep; a
summary of dropped records counts as a record. Levels info and warn, both destinations.
`offered` has the lines that `consoleWrite()` was called with, `refused` those of them it threw
on: `flush()` clears `consolePending` all the same, so these are lost, and nothing counts
them. Nor does anything count the lines of a batch that the disk refuses (`FlushFailed`).

**ReleasePublishing** has the destinations only, since there is no other progress file. A
publisher dies between any two of them and is resumed with the same version and commit.
Publishers do not overlap (the workflow's concurrency group).

## 3. The runs

| Run | Instance | What it shows |
|---|---|---|
| `delivery` | 2 workers, 3 clients, 2 schedules of 1 draft, 2 faults, 1 retry; several workers, and faults, beside one call, several calls beside one worker | under crashes, stalls and lost leases, and cancel, send now and schedule again against a worker and one another: `NothingBehindTheUsersBack` (a row that is pending, canceled or failed never belongs to a message that has left), `SentWasAccepted`, `SettledForGood` |
| `faulty_store` | 2 workers, 1 client, 1 schedule, 2 faults, 1 retry, with failing statements | one delivery at most and true outcomes (`OutcomesAreTrue`), the abstract promise (`KeepsPromise`), and an end for every schedule (`Drains`) |
| `keyed_delivery` | 3 calls (2 over REST), 1 key, 2 requests (1 for later), 2 faults | `KeyedSafety`, `SendingEnds` |
| `server_process` | the loop: 2 loop identities, 2 rows, 1 fault; the life: 2 keys, 2 administrative calls, 1 request on a mailbox | `LoopInv` (one loop, never dead, no wake-up lost, quiet after stop, no fire under a hold) and `DueIsServed`; `ClosedWhenDrained`, `AnnouncedKeyTried`, and `ServerProgress`: close() ends, announced keys are tried; with deadlock checked |
| `members` | 2 processes, 2 calls, 2 people, 1 session, 1 key, 1 code | `LastAdminRemains` (an administrator is lost to a check that another process overtook, or to nothing), `SuspendedHasNothing`, `CodesWorkOnce` and the types |
| `instance_parts` | the other components, one of them per behaviour | 22 properties of 19 parts and their types, listed below |
| `queued_forever`, `uncertain_requeued`, `two_pending`, `canceled_but_sent`, `deactivated_license`, `last_admin` | small | the disagreements of section 5 |

`instance_parts` checks, besides types: `CapClockRuns` (Entitlements); `AttemptsCounted`
(LoginAttempts); `InterfacesAgree`, `InstructionsSuffice` (ConnectionPermissions);
`ReconnectionWins` (AccountRegistry); `LinksConnectOnce` (HostedConnection);
`FirstCodeWins` (OAuthCallback); `OneHolder` (FileLock); `BackedUpFirst` (StoreOpening);
`BatchAnswersItself` (MailboxSearch); `ModifyTellsTheTruth` (MailboxChanges);
`IdsKeepTheirMessage` (ImapMessages); `PagesMissNothing` (ImapPaging);
`SendsOnceOrSaysSo` (ProviderRequests); `CandidatesSeenOnce` (ProviderPaging);
`LeavesTrashByUntrash` (OutlookMoves); `KeyStaysWithData` (DeploymentKey);
`SettingsTakeEffect`, `AccountsKeepTheirApp` (InstanceSettings); `LogAccountsForRecords`
(LocalLog); `AlwaysResumable`, `ChannelsOnlyAdvance` (ReleasePublishing). Each is stated
in words where it is defined.

**Composition.** Where two components share state, one module steps the other:
RuntimeLifecycle the license controller, HostedConnection the registry, StoreOpening the
lock. MCServerProcess has the scheduler's loop and the life of the process side by side;
`side`, chosen at the start, takes the steps, since what the life needs of the loop (asleep,
or in a delivery) it has itself. The remaining components of MCInstanceParts share no variable, so an interleaving
of two of them says nothing that each does not say alone; `part`, chosen at the start, is
the one that takes steps, which keeps the product out of the state space.

**Bounds and why they are enough.**

- *Delivery.* `MaxFaults` caps crashes, stalls, failed renewals and failed statements
  together; two are enough for the deepest known scenario (a lease is lost under a
  dispatching worker, and the worker that took over dies). `MaxAttempts` = 1 lets a row
  return to `pending` and be fired again. A crashed worker is free again, so two workers
  also stand for a third. One schedule suffices where no supersession is possible;
  `delivery` has two of one draft. Clients make one call each; three allow
  schedule, cancel and schedule again. `SeveralOfOneKind` keeps two workers, and the faults,
  to behaviours with one call, and several calls to behaviours with one worker and no fault;
  the theorems have no such bound. Nothing relates two keys. Symmetry is used in `delivery` and
  `members` only, where no liveness is checked.
- *Server process.* Two keys and two calls let a key change under a refresh of the other,
  twice; one mail request is enough for close() to wait for, or to miss.
- *Members.* Two people can demote and remove one another, two processes can come between
  one another's check and write, two pending calls can go stale against one another; one code
  is used again after it was made anew. `TwoUnderWay`: of processes and calls two are under
  way at a time, each the other's disturbance. `OneField`: an update changes a role or a
  status. `NotStale`: a behaviour ends with a change on an overtaken check, from which on
  `LastAdminRemains` says nothing and `last_admin` shows what follows. The theorems have none
  of these bounds. In `last_admin`, `OneSetup` leaves set-ups that overtake each other out, so
  that the disagreement found is that of demotion and removal. *LoginAttempts*: three logins over limits of
  two, and a clock that leaves a window and reaches the next. *Entitlements*: three leases
  differ in each cap and in expiry; six days exceed both grace periods in sequence.
- *Accounts.* One mailbox, two processes, two provider objects, four token sets: connect,
  refresh in each process, reconnect. Two links and two OAuth states.
- *Lock and store.* Three lockers, two on one machine and one elsewhere; one engine of an
  older version; formats up to 2. `Sleepers` is empty: with one owner that sleeps past
  the stale limit, TLC finds two holders (see the end of section 5).
- *Mail.* Two mailboxes and two workers per batch, two pages, an hour for a token to
  expire; two messages and two workers in `modify`, one call (two calls were run once);
  two mailboxes of IMAP, one renumbered, one operation after another; listings of two
  boxes with limits of one or two so that every limit ends some page; one retry; five
  candidates in batches of two.
- *Deployment.* Two starting processes and one import; two readers, `MaxWrites` = 1 is the
  number of commits after which no change begins (several may be under way by then); three
  records against limits of one or two; two versions and two packages.

Deadlock checking is off where a finished system stops (all calls made, all schedules
settled, the process ended).

**Fairness.** A `fire()` that began runs to its end and a running scheduler polls
(`WorkerStep`, `Claim`); time passes (`BecomeDue`, `LeaseExpires`, `GoStale`); a call
that was made goes on (`CallStep`); timers and microtasks run (`TimerFires`,
`LoopStep`, `HoldEnds`). In the server process, what is under way ends because every
network call has a timeout (`RefreshEnds`, `DeliveryEnds`, `MailEnds`, `Answered`), `close()`
goes on, and its timers fire. Nothing obliges anybody to call, cancel, signal, crash or
stall, and the deadline is not needed for shutdown to end. The fairness of `Poll` in
IdempotentDelivery is that of a client that follows
`docs/public/pages/sending-and-retries.md` ("`sending`: Check the operation again");
without a reader an abandoned operation does stay in `sending`. `Drains` relies on
`MaxAttempts`: the code retries without limit, and a provider that asks for retries for
ever is never done. MCInstanceParts states no fairness and no liveness.

## 4. The proofs

TLC shows a small instance, TLAPS sets of any size and any bound. Every safety property
that a passing run checks is also a theorem. The assumptions are the named ones next to the
declarations of the constants, which TLC evaluates in every run: nulls are none of the
others, names do not collide, bounds are natural numbers, limits that the code has as
positive numbers are not zero. Some say more: messages, mailboxes and candidates are finite
in number, and numbered (a request is a list, a search has an order), there is a search to
make, paths and logins are finite in number; the copies that IMAP mailboxes begin with are
within the bound (`ImapConstants`); a batch of the log fits a segment (`LocalLogAssumption`).
`LockInvariance`, `LockExcludes`, `FilesKeepLockPromise`, `StoreInvariance` and
`MigrationsAreBackedUp`, hence `AccountsAreKept`, and nothing else, also assume
`Sleepers = {}`: no process is suspended for longer than a lock takes to go stale.
Every theorem is about a specification without fairness, and follows the same argument: an
inductive invariant, shown action by action, and the property from it.

### Delivery

- *ScheduledDelivery* has its invariant in layers. `AtMostOnce` is not inductive: it needs
  that only one worker dispatches a schedule (`OneDispatcher`), hence that during a dispatch
  others can only call the operation uncertain (`DispatchedOp`), that a dispatcher's place
  and verdict agree with the provider (`DispatchIsTrue`), and that an acceptance leaves a
  trace nobody erases (`OutcomesOnRecord`): these are `Delivery`. They rest on `Consistent`,
  how rows, drafts, operations and links belong together. With `FailedIsUnsent` and
  `SentWasAccepted` this is `FaultyInv`, and none of it needs the store's statements to
  succeed: `FaultyInvariance`, `TypeCorrect`, `DeliveredAtMostOnce`, `TrueAnswers`,
  `TrueOutcomes`, `SentIsJustified`, `SettledStays` and the refinement `PromiseKept` are
  theorems of `FaultySpec`, hence also of `Spec`. `PromiseKept`: a write of one operation is
  a `Tell` or a stutter (`OneWrite`), an acceptance a `Deliver` (`OneAcceptance`), the link
  of an operation a stutter (`FirstLink`). Only `NothingBehind` is of `Spec` alone, and has
  to be (finding 4): it needs `NoRetraction` and `DepartedRows`, that a worker that could
  still give its row back, fail it or dispatch it does not own it once the message has
  departed (`IInv`, `Invariance`).
- *SendScheduler* (`LoopInv`): besides the properties, listed rows belong to a loop in its
  tick, a round is requested only from an active loop, and an unfinished `stop()` awaits
  the active loop. `LoopInvariance`, `LoopsAreOne`, `LoopNeverDies`, `WakesAreServed`,
  `StopIsQuiet`, `HoldsAreIdle`, `StoppedStaysStopped`, and the refinement
  `SchedulerKeepsPromise`.
- *IdempotentDelivery* (`KeyedInv`): the call that inserted the operation is the only one
  at work on it and nothing is decided without it (`OneAtWork`); its verdict, then the
  stored status, then every answer say what happened (`StatusIsTrue`, `AnswersOnRecord`).
  `KeyedInvariance`, `KeyedSafely` with `OneEffect`, `OwnAnswers`, `AnswersAreFinal`;
  `DecisionsStand`, and the refinement `KeysKeepPromise`.

### Process

- *RuntimeLifecycle* and *LicenseController* (`LicenseInv`, `LifecycleInv`): a stopped
  controller has no timer and no request for another round; a draining process awaits all
  that is under way, and begins nothing. `LicenseInvariance`, `ProcessRunsController` (the
  lifecycle's steps are the controller's, or stutters), `LifecycleInvariance`,
  `ClosesWhenDrained`, `AnnouncedKeysAreTried`, and `ProcessRunsAScheduler`. The lifecycle
  has the scheduler in three values, where SendScheduler has the loop itself: both are
  shown to keep one promise, `SchedulerPromise`, which is less than showing that the loop
  may stand where the three values stand.
- *FileLock* (`LockInv`): a file has a creator; who tends a lock keeps it fresh; who
  reclaims holds `.reclaim`, which nobody takes, so what it judged abandoned stays so.
  `LockInvariance`, `LockExcludes`, and the refinement `FilesKeepLockPromise`.
- *StoreOpening* (`StoreInv`) takes only the lock's steps (`StoreOpenersLock`), so `LockInv`
  comes with it. `MigrationsAreBackedUp` needs that who migrates holds the lock and has
  backed up the format it leaves (`MigratorsAreReady`), and for those who inspected without
  the lock, that the store was as new as their engine and cannot get older
  (`InspectedIsCurrent`), so that what they do is no migration.
- *DeploymentKey* (`KeyInv`): there are two locks, and each of the two ways to a key holds
  one of them, so who makes a key saw none and only an import can have left one since
  (`MakersSawNone`), and whoever has chosen a key has the stored one (`StartersHaveStored`,
  `WritersHaveTheirs`, `WrittenHaveStored`) until one of the crossings named in
  `KeyStaysWithData` happens. `KeyInvariance`, `KeyHoldsData`, and `KeyLocksKeepPromise`:
  what this module takes a lock to be is what FileLock is shown to be.
- *InstanceSettings* (`SettingsInv`): a version a process has seen never lies ahead of the
  commits, so what was read under one version is of one moment (`ReadIsOfOneMoment`), and a
  copy under the current version is what is stored (`CopyIsCurrent`); until an account has
  its application, every copy and every read under way has the one it was connected with
  (`AppIsKept`). `SettingsInvariance`, `CopiesFollow`, `OldAccountsKeepTheirApp`.
- *LocalLog* (`LogInv`): what is queued comes after what is written (`Placed`), what was
  offered to the console and the segments are in order, and what was offered, or is still in
  the queue, with what is told or still counted never exceeds the records, and tells something
  if one is missing (`Accounted`). The lines that the console or the disk then loses are
  outside of what is claimed: the code does not count them. What `close()` reports stays reported (`StagesReported`). Both hold at
  each step inside a handler, which is why they are stated over counters that may be ahead
  of the variables. The numbers told are summed as the
  cardinality of a set (`Total`): `TotalIsANumber`, `TotalExtended` and `TotalMoved` are the
  facts about sums. `LogInvariance`, `LogAlwaysAccounts`.
- *ReleasePublishing* (`ReleaseInv`): what is out is out in the order of the stages
  (`OutInOrder`), the plugin follows the main package's tag (`PluginFollows`), and an
  attempt knows what the stages before it left (`AttemptKnows`). From the first, wherever an
  attempt dies its version can be resumed (`AttemptsAlwaysResumable`); from the last, a stage
  moves a channel only when no newer version has it (`ChannelsNeverGoBack`).

### Access

- *Members* (`MembersInv`): codes, calls and what processes are about to do belong to
  members, before the set-up everybody is an administrator, and what a process has checked
  holds until it is overtaken (`ChecksHold`): there is another administrator, or who gets a
  session is active. So the administrator and the emptiness of a suspended member's hands can
  be lost to an overtaken check only: `MembersInvariance`, `AnAdminRemains`,
  `SuspensionIsComplete`, `CodesAreForOneUse`, and the types (`MembersAreTyped`). With one process nothing overtakes, and the
  exceptions go (`OneProcessKeepsAnAdmin`; it assumes that a set-up is not resumed in an
  instance that was set up meanwhile, which takes a second command line).
- *LoginAttempts* (`LoginInv`): the address's row counts the logins of its window, as a
  cardinality (`RowCounts`), and a login that holds a reservation is of that window or its
  window has ended, so a release never takes from a window it did not add to
  (`WindowsEnd`). `LoginInvariance`, `AttemptsAlwaysCounted`.
- *Entitlements*: `CapClockRuns` is inductive with the types (`CapClockAlwaysRuns`).
- *ConnectionPermissions* (`PermissionsInv`): a policy keeps the shape the commands give it.
  `InstructionsAlwaysSuffice` follows for every such policy, and
  `InterfacesAlwaysAgree` from the tables alone, for every list of capabilities, rather than
  for the ones a run reaches.
- *AccountRegistry* (`RegistryInv`): rows under work exist; the stored tokens are of the
  last connection; a cached provider uses what it saw. `RegistryInvariance`,
  `ReconnectionAlwaysWins`.
- *HostedConnection* takes only the registry's steps (`HostedRefinesRegistry`), so
  `HostedReconnectionWins`. `LinksWorkOnce` needs that a state which can still complete
  belongs to a used link that completed nothing (`PendingLinksAreUsed`), and that no other
  state of the link can (`OnePending`): `HostedInv`, `HostedInvariance`.
- *OAuthCallback* (`CallbackInv`): an exchange is of a claimed flow and a claimed flow has
  begun. `FirstCodeAlwaysWins`.

### Mail

- *MailboxSearch* (`SearchInv`): workers ask for the page the request wants
  (`SearchersAsk`), as do the answers (`PagesAreAsked`); a mailbox that was taken has its
  answer or a worker that will give one (`TakenAreAnswered`). `BatchAlwaysAnswersItself`.
- *MailboxChanges* (`ChangesInv`): each message is untouched until its turn, then asked for
  with at most two attempts, then told of (`MessageInv`). `ChangesInvariance`,
  `ModifyAlwaysTellsTheTruth`.
- *ImapMessages* (`ImapInv`): rows, ids, and the rows that calls have read all lead to the
  message the id was given out for, or to nothing (`Leads`), as long as no change used a UID of
  an earlier numbering (`strayed`). `ImapInvariance`, `IdsAlwaysKeepTheirMessage`.
- *ImapPaging* (`PagingInv`): what lies ahead of the token and the
  page under way was not shown, and of the rest what matched all along was shown once
  (`Ahead`, `PassedOnce`); what a mailbox did not have when it was entered is neither
  (`SkippedBelow`). `PagesNeverMiss`.
- *ProviderRequests* (`RequestsInv`): requests before the one under way were made and
  answered, those after it were not made (`RequestsDone`). `AlwaysSendsOnceOrSaysSo`.
- *ProviderPaging* (`CandidatesInv`): a candidate waits, in the batch or beyond its edge, or
  was looked at once (`WaitingOrSeen`); lists rise (`LoadedInOrder`) and a batch has all
  between its ends (`BatchIsWhole`). `CandidatesAlwaysSeenOnce`.
- *OutlookMoves* (`MovesInv`): a fresh snapshot is true unless somebody else moved
  something, and what was checked and is still to be moved lies outside Trash.
  `MovesInvariance`, `TrashIsLeftByUntrash`.

### The instance

*InstanceParts_proofs* is about MCInstanceParts, the module that puts these parts next to
one another. A behaviour of the instance is one of every part (`AccessComposed`,
`AccountsComposed`, `MailComposed`, `DeploymentComposed`), so what was shown of a part holds
in the instance: `PartsAreTyped`, all types at once, and the properties of `instance_parts`
by theme, `AccessIsKept`, `AccountsAreKept`, `MailIsTold`, `DeploymentIsKept`. The types of
most parts come with their invariants; Entitlements, LoginAttempts, MailboxChanges,
MailboxSearch, LocalLog, StoreOpening and the paging modules have a type argument of their
own, because theirs need less, or something else.

`Ordering` lists a finite set of numbers in order; what such lists and their ends are is
shown at the beginning of `Mail_proofs`. Several properties
(`AtMostOnce`, `AnswersAreTrue`, `OneLoop`, `OneEffectPerKey`, `DecidedForGood`,
`StopBeginsNothing`) are parts of what the runs check or are left to the proof alone, as are
the four refinements of `SchedulerPromise` and `LockPromise`.

*Only model-checked*: `Drains`, `DueIsServed`, `SendingEnds` and `ServerProgress`, since
liveness needs fairness and `ENABLED`, which are out of the prover's reach; and the
disagreements of section 5, which are counterexamples. Induction over data is out of reach as well (the library's
theorems on it take an operator as a parameter): the models define what they
count as a cardinality where a proof needs it, and nothing recursive is proved about.

## 5. Where the code and its documents differ

1. **`queued_forever`** (`QueuedIsDecided`). Sending a scheduled draft at once marks the
   row as sent but leaves its operation `queued`; the documents tell a client to wait for
   it. A cancel that runs before `schedule()` has linked the operation, or dies halfway,
   has the same end.
2. **`uncertain_requeued`** (`UncertainStaysUnsent`). `schedule()` has no heartbeat. If
   creating the draft takes over five minutes, a reader stores `uncertain`; the link then
   writes `queued` by id alone, and the message is sent. The documents say that an
   uncertain operation is never retried.
3. **`two_pending`** (`OnePendingPerDraft`). A draft whose schedule is being sent can be
   scheduled again, and a retryable rejection puts the first row back: two pending rows,
   although a test and an error message say that there is at most one.
4. **`canceled_but_sent`** (`CanceledStaysUnsent`). `fire()` takes a statement that failed
   after the provider had accepted the message for an error worth a retry, and
   `retryClaim` shows the row as pending. It is not sent again, but it can be canceled, and
   the answer says that its draft is kept. `NothingBehindTheUsersBack` is therefore a
   property of `Spec` and not of `FaultySpec`; `OutcomesAreTrue` holds in both.
5. **`deactivated_license`** (`DeactivatedIsPersonal`). Deactivation clears the lease while
   a refresh may be on its way; `refreshLicense` then stores the lease it receives without
   looking whether its key is still configured, so the paid limits last until it expires,
   although the route is documented to return the instance to the limits of Personal.
6. **`last_admin`** (`AdminAlwaysRemains`). `updateMember` and `removeMember` count the active
   administrators before the transaction that writes, which does not look again, and a
   command line runs them in a process of its own over the server's store. Two processes that
   both count two administrators each remove, demote or suspend one, and none is left,
   although an error message and a test say that the last one is protected. A break-glass
   recovery needs an administrator too, so it helps after a suspension only.

Met while modelling, without a text that promises otherwise, hence no findings: a process
that dies while it holds `.reclaim` leaves it for good, and migrations wait until they
time out; a dead owner's lock is kept while another process runs under its pid; a process
suspended past the stale limit while it holds a lock can end with two holders; a
process that dies while it writes `encryption.key` leaves half a key; changes, draft
updates and sends over IMAP act on the row they read even when the server has renumbered
the mailbox meanwhile (history variable `strayed`; reads notice); an import over a stored
Microsoft application does not pin the old one to its accounts; a release cannot tell a
resume from another commit until its tag exists; a session or a key may be issued to a
member whom another process suspends between the check and the row (`lateGrants`; it is of
no use until the member is active again, since every request looks at the status); a set-up that
claims a member of an instance that another set-up has finished makes its administrator wait
until its next statement, or until a recovery if it dies there; lines that a throwing console
or a refusing disk loses are not counted.

## 6. Not modelled, and what is left

Left out for good, because nothing but a conversion happens there: schemas, argument
parsing and rendering of the three surfaces; parsing of queries, addresses and MIME (which
messages a search wants is a constant of the paging modules); the redaction and wording of
records; the signature of a lease; what a migration does to the tables, beyond the format it
leaves; vendor protocols. Telemetry and update notices send what nobody waits for.

Left out so far, and why:

- Choosing the sender and the recipients of a reply, the label and category caches of the
  providers: sequential, over data the models abstract.
- IMAP connections (pooling, timeouts): the models lose an answer without saying why.
- Updating a draft at Outlook in several requests is in ProviderRequests, but not the state
  of a draft whose update stopped halfway.
- The local fallback of a release run beside the workflow; `prepare` and `doctor`.
- Expiry of sessions, the audit log, names of members.
- Records that arrive while the log's `close()` waits may vanish, and are not counted.

Next, most important first: that RuntimeLifecycle stays correct with the loop of
SendScheduler in the place of the scheduler it has, so that the lifecycle is proved over the
loop itself; a model of the log's `close()` that counts the records that arrive meanwhile;
the state of a draft at Outlook whose update stopped halfway.
