------------------------- MODULE LicenseController -------------------------
(***************************************************************************)
(* The license of an instance: the background controller that validates    *)
(* the configured key with the license server, and the administrative      *)
(* calls that replace or remove that key meanwhile.  An action runs from   *)
(* one await to the next: a response of the license server, what it makes  *)
(* of the stored lease and key, and the controller's reaction happen in    *)
(* the same turn of the event loop.                                        *)
(***************************************************************************)
CONSTANTS Keys,      \* license keys
          NoKey,     \* no key configured, no lease stored, no refresh under way
          Requests   \* administrative calls, each made once

ASSUME LicenseConstants == NoKey \notin Keys

VARIABLES
    stopped, refreshTimer, validating, refreshPending,  \* the controller's fields (timer;
                \* running, here the key under validation)
    key,        \* the configured key
    lease,      \* the key whose lease is stored
    call,       \* what each administrative call is waiting for
    announced,  \* history: the key the last wake() of a started controller
                \* saw, unless another process has changed it since
    tried       \* history: the key the controller validated last

controller  == <<stopped, refreshTimer, validating, refreshPending, announced, tried>>
licenseVars == <<controller, key, lease, call>>

MaybeKey == Keys \cup {NoKey}
CallState == [at : {"idle", "activating", "releasing", "done"}, key : MaybeKey]

LicenseTypeOK ==
    /\ stopped \in BOOLEAN /\ refreshTimer \in BOOLEAN /\ refreshPending \in BOOLEAN
    /\ validating \in MaybeKey /\ key \in MaybeKey /\ lease \in MaybeKey
    /\ call \in [Requests -> CallState]
    /\ announced \in MaybeKey /\ tried \in MaybeKey

LicenseInit ==
    /\ stopped = TRUE /\ refreshTimer = FALSE /\ refreshPending = FALSE
    /\ validating = NoKey
    /\ key \in MaybeKey /\ lease \in {NoKey, key}
    /\ call = [r \in Requests |-> [at |-> "idle", key |-> NoKey]]
    /\ announced = NoKey /\ tried = NoKey

----------------------------------------------------------------------------
\* refreshNow() of an idle controller that is not stopped, over the key k.
RefreshNow(k) ==
    /\ validating' = k
    /\ refreshTimer' = (k = NoKey)
    /\ tried' = IF k = NoKey THEN tried ELSE k

\* start(): validate at once, or arm the timer when the stored lease is less
\* than a day old.
StartController ==
    /\ stopped /\ validating = NoKey
    /\ stopped' = FALSE
    /\ \/ RefreshNow(key)
       \/ lease # NoKey /\ key # NoKey /\ refreshTimer' = TRUE /\ UNCHANGED <<validating, tried>>
    /\ UNCHANGED <<refreshPending, announced>>

\* stop(), up to its await of the running refresh.
StopController ==
    /\ stopped' = TRUE /\ refreshPending' = FALSE /\ refreshTimer' = FALSE
    /\ announced' = NoKey
    /\ UNCHANGED <<validating, tried>>

\* Mutant: wake() leaves it to the running refresh.
WakeForgets(k) ==
    /\ announced' = IF stopped THEN announced ELSE k
    /\ IF stopped THEN refreshTimer' = FALSE /\ UNCHANGED <<validating, refreshPending, tried>>
       ELSE IF validating # NoKey
       THEN refreshTimer' = FALSE /\ UNCHANGED <<validating, refreshPending, tried>>
       ELSE RefreshNow(k) /\ UNCHANGED refreshPending
    /\ UNCHANGED stopped

\* wake() after the configured key became k.
WakeController(k) ==
    /\ announced' = IF stopped THEN announced ELSE k
    /\ IF stopped THEN refreshTimer' = FALSE /\ UNCHANGED <<validating, refreshPending, tried>>
       ELSE IF validating # NoKey
       THEN refreshTimer' = FALSE /\ refreshPending' = TRUE /\ UNCHANGED <<validating, tried>>
       ELSE RefreshNow(k) /\ UNCHANGED refreshPending
    /\ UNCHANGED stopped

\* The end of run() and its finally: arm the timer, or start over at once.
SettleRefresh ==
    /\ refreshPending' = FALSE
    /\ IF refreshPending /\ ~stopped THEN RefreshNow(key)
       ELSE validating' = NoKey /\ refreshTimer' = ~stopped /\ UNCHANGED tried
    /\ UNCHANGED <<stopped, announced>>

\* The license server answers with a lease that verifies.
Refreshed ==
    /\ validating # NoKey
    /\ lease' = validating
    /\ SettleRefresh
    /\ UNCHANGED <<key, call>>

\* It refuses, cannot be reached, answers with a lease that does not verify,
\* or storing the lease fails: whatever lease there is stays.
NotRefreshed ==
    /\ validating # NoKey
    /\ SettleRefresh
    /\ UNCHANGED <<lease, key, call>>

LicenseTimerFires ==
    /\ refreshTimer
    /\ RefreshNow(key)
    /\ UNCHANGED <<stopped, refreshPending, announced, key, lease, call>>

----------------------------------------------------------------------------
SetCall(r, at, k) == call' = [call EXCEPT ![r] = [at |-> at, key |-> k]]

\* POST license/activate: the new key is validated before it is stored.
Activate(r, k) ==
    /\ call[r].at = "idle"
    /\ SetCall(r, "activating", k)
    /\ UNCHANGED <<controller, key, lease>>

Activated(r) ==
    /\ call[r].at = "activating"
    /\ lease' = call[r].key /\ key' = call[r].key
    /\ WakeController(call[r].key)
    /\ SetCall(r, "done", NoKey)

\* An outage: the key is stored, and the controller is to try again.
SavedForRetry(r) ==
    /\ call[r].at = "activating"
    /\ key' = call[r].key
    /\ WakeController(call[r].key)
    /\ SetCall(r, "done", NoKey)
    /\ UNCHANGED lease

ActivationRefused(r) ==
    /\ call[r].at = "activating"
    /\ SetCall(r, "done", NoKey)
    /\ UNCHANGED <<controller, key, lease>>

\* DELETE license: release the key that is configured now, if there is one.
Deactivate(r) ==
    /\ call[r].at = "idle" /\ key # NoKey
    /\ SetCall(r, "releasing", key)
    /\ UNCHANGED <<controller, key, lease>>

\* The server answered, or not: remove the key, clear the lease, wake.
Deactivated(r) ==
    /\ \/ call[r].at = "releasing"
       \/ call[r].at = "idle" /\ key = NoKey
    /\ key' = NoKey /\ lease' = NoKey
    /\ WakeController(NoKey)
    /\ SetCall(r, "done", NoKey)

\* Another process on the same store, which has no controller at work, saves a
\* key, validated or not, or removes it; nobody wakes this one.
SetElsewhere(r, k) ==
    /\ call[r].at = "idle"
    /\ key' = k
    /\ announced' = NoKey
    /\ SetCall(r, "done", NoKey)
    /\ UNCHANGED <<stopped, refreshTimer, validating, refreshPending, tried>>

SavedElsewhere(r) == \E k \in Keys : SetElsewhere(r, k) /\ lease' \in {lease, k}
RemovedElsewhere(r) == SetElsewhere(r, NoKey) /\ lease' = NoKey

CallBegins(r) == Deactivate(r) \/ \E k \in Keys : Activate(r, k)
CallEnds(r) == Activated(r) \/ SavedForRetry(r) \/ ActivationRefused(r) \/ Deactivated(r)
Refresh == Refreshed \/ NotRefreshed

LicenseNext ==
    \/ (StartController \/ StopController) /\ UNCHANGED <<key, lease, call>>
    \/ Refresh \/ LicenseTimerFires
    \/ \E r \in Requests : CallBegins(r) \/ CallEnds(r) \/ SavedElsewhere(r) \/ RemovedElsewhere(r)

LicenseSpec == LicenseInit /\ [][LicenseNext]_licenseVars

----------------------------------------------------------------------------
\* What every state of the controller has in common.  A wake-up during a refresh
\* is not lost: unless the refresh is for the announced key, another will follow.
LicenseInv ==
    /\ LicenseTypeOK
    /\ ~stopped => (refreshTimer <=> validating = NoKey)
    /\ stopped => ~refreshTimer /\ ~refreshPending /\ announced = NoKey
    /\ announced # NoKey =>
         /\ key = announced
         /\ tried = announced \/ (validating # NoKey /\ refreshPending)

\* A key that was announced by wake() is validated by the controller's next
\* refresh: it never goes to rest on its timer with another one tried last,
\* however activations, deactivations and a refresh under way interleave.
AnnouncedKeyTried ==
    (~stopped /\ validating = NoKey /\ announced # NoKey) => tried = announced

\* The controller is never dead: unless it is stopped, either a refresh is
\* under way or a timer will begin one, and never both.
ControllerAlive == ~stopped => (refreshTimer <=> validating = NoKey)

\* "Release the stored license and return this instance to Personal limits"
\* (src/packages/server/src/http/admin.ts:1017): when no key is configured,
\* no lease grants paid limits.
DeactivatedIsPersonal == key = NoKey => lease = NoKey
============================================================================
