----------------------- MODULE RuntimeLifecycle_proofs -----------------------
(***************************************************************************)
(* Proofs about a server process, for any number of license keys, calls    *)
(* and requests.  The license controller has an inductive invariant of its *)
(* own, LicenseInv; every step of the process is one of the controller's   *)
(* or leaves it alone; and LifecycleInv adds what close() relies on: once  *)
(* it has begun nothing starts, and it waits for all that is under way.    *)
(***************************************************************************)
EXTENDS RuntimeLifecycle, TLAPS

----------------------------------------------------------------------------
\* The license controller.

LEMMA WakeKeepsLicense ==
    ASSUME LicenseInv, NEW k \in MaybeKey, WakeController(k), key' = k,
           lease' \in MaybeKey, call' \in [Requests -> CallState]
    PROVE  LicenseInv'
<1> USE DEF LicenseInv, LicenseTypeOK, MaybeKey
<1>1. CASE stopped
  BY <1>1 DEF WakeController
<1>2. CASE ~stopped /\ validating # NoKey
  BY <1>2 DEF WakeController
<1>3. CASE ~stopped /\ validating = NoKey
  BY <1>3, LicenseConstants DEF WakeController, RefreshNow
<1> QED BY <1>1, <1>2, <1>3

LEMMA SettleKeepsLicense ==
    ASSUME LicenseInv, validating # NoKey, SettleRefresh, lease' \in MaybeKey, UNCHANGED <<key, call>>
    PROVE  LicenseInv'
<1> USE DEF LicenseInv, LicenseTypeOK, MaybeKey
<1>1. CASE refreshPending /\ ~stopped
  BY <1>1, LicenseConstants DEF SettleRefresh, RefreshNow
<1>2. CASE ~(refreshPending /\ ~stopped)
  BY <1>2 DEF SettleRefresh
<1> QED BY <1>1, <1>2

LEMMA CallsTyped ==
    ASSUME LicenseTypeOK, NEW r \in Requests, NEW k \in MaybeKey,
           NEW at \in {"idle", "activating", "releasing", "done"}, SetCall(r, at, k)
    PROVE  call' \in [Requests -> CallState]
BY DEF LicenseTypeOK, SetCall, CallState

\* What every step of the controller, of a call or of another process preserves.
LEMMA LicenseStep == LicenseInv /\ [LicenseNext]_licenseVars => LicenseInv'
<1> SUFFICES ASSUME LicenseInv, [LicenseNext]_licenseVars PROVE LicenseInv'
  OBVIOUS
<1>0. LicenseTypeOK /\ NoKey \in MaybeKey
  BY DEF LicenseInv, MaybeKey
<1>1. ASSUME StartController, UNCHANGED <<key, lease, call>> PROVE LicenseInv'
  <2> USE DEF LicenseInv, LicenseTypeOK, MaybeKey
  <2>1. CASE RefreshNow(key)
    BY <1>1, <2>1, LicenseConstants DEF StartController, RefreshNow
  <2>2. CASE refreshTimer' = TRUE /\ UNCHANGED <<validating, tried>>
    BY <1>1, <2>2 DEF StartController
  <2> QED BY <1>1, <2>1, <2>2 DEF StartController
<1>2. ASSUME StopController, UNCHANGED <<key, lease, call>> PROVE LicenseInv'
  BY <1>2 DEF StopController, LicenseInv, LicenseTypeOK, MaybeKey
<1>3. ASSUME Refresh PROVE LicenseInv'
  <2>1. /\ validating # NoKey /\ SettleRefresh /\ UNCHANGED <<key, call>>
        /\ lease' \in {lease, validating}
    BY <1>3 DEF Refresh, Refreshed, NotRefreshed
  <2> QED BY <2>1, SettleKeepsLicense DEF LicenseInv, LicenseTypeOK
<1>4. ASSUME LicenseTimerFires PROVE LicenseInv'
  BY <1>4, LicenseConstants DEF LicenseTimerFires, RefreshNow, LicenseInv, LicenseTypeOK, MaybeKey
<1>5. ASSUME NEW r \in Requests, CallBegins(r) PROVE LicenseInv'
  <2>1. \E at \in {"activating", "releasing"}, k \in MaybeKey :
           SetCall(r, at, k) /\ UNCHANGED <<controller, key, lease>>
    BY <1>0, <1>5 DEF CallBegins, Activate, Deactivate, MaybeKey, LicenseTypeOK
  <2>2. call' \in [Requests -> CallState]
    BY <1>0, <2>1, CallsTyped
  <2> QED BY <2>1, <2>2 DEF controller, LicenseInv, LicenseTypeOK
<1>6. ASSUME NEW r \in Requests, CallEnds(r) PROVE LicenseInv'
  <2>1. SetCall(r, "done", NoKey)
    BY <1>6 DEF CallEnds, Activated, SavedForRetry, ActivationRefused, Deactivated
  <2>2. call' \in [Requests -> CallState]
    BY <1>0, <2>1, CallsTyped
  <2>3. call[r].key \in MaybeKey
    BY <1>0 DEF LicenseTypeOK, CallState
  <2>4. CASE Activated(r)
    BY <2>2, <2>3, <2>4, WakeKeepsLicense DEF Activated
  <2>5. CASE SavedForRetry(r)
    BY <1>0, <2>2, <2>3, <2>5, WakeKeepsLicense DEF SavedForRetry, LicenseTypeOK
  <2>6. CASE ActivationRefused(r)
    BY <2>2, <2>6 DEF ActivationRefused, controller, LicenseInv, LicenseTypeOK
  <2>7. CASE Deactivated(r)
    BY <1>0, <2>2, <2>7, WakeKeepsLicense DEF Deactivated
  <2> QED BY <1>6, <2>4, <2>5, <2>6, <2>7 DEF CallEnds
<1>7. ASSUME NEW r \in Requests, SavedElsewhere(r) \/ RemovedElsewhere(r) PROVE LicenseInv'
  <2>1. \E k \in MaybeKey : SetElsewhere(r, k) /\ lease' \in {lease, k}
    BY <1>7 DEF SavedElsewhere, RemovedElsewhere, MaybeKey
  <2>2. call' \in [Requests -> CallState]
    BY <1>0, <2>1, CallsTyped DEF SetElsewhere
  <2> QED BY <2>1, <2>2 DEF SetElsewhere, LicenseInv, LicenseTypeOK, MaybeKey
<1>8. CASE UNCHANGED licenseVars
  BY <1>8 DEF licenseVars, controller, LicenseInv, LicenseTypeOK
<1>9. CASE LicenseNext
  <2>1. CASE (StartController \/ StopController) /\ UNCHANGED <<key, lease, call>>
    BY <1>1, <1>2, <2>1
  <2>2. CASE \E r \in Requests : CallBegins(r) \/ CallEnds(r) \/ SavedElsewhere(r) \/ RemovedElsewhere(r)
    BY <1>5, <1>6, <1>7, <2>2
  <2> QED BY <1>3, <1>4, <1>9, <2>1, <2>2 DEF LicenseNext
<1> QED BY <1>8, <1>9

LEMMA LicenseBegins == LicenseInit => LicenseInv
<1> SUFFICES ASSUME LicenseInit PROVE LicenseInv
  OBVIOUS
<1> USE DEF LicenseInit, MaybeKey
<1>1. stopped /\ ~refreshTimer /\ ~refreshPending
  OBVIOUS
<1>2. stopped \in BOOLEAN /\ refreshTimer \in BOOLEAN /\ refreshPending \in BOOLEAN
  OBVIOUS
<1>3. /\ validating \in MaybeKey /\ key \in MaybeKey /\ lease \in MaybeKey
      /\ announced = NoKey /\ tried = NoKey
  OBVIOUS
<1>4. call \in [Requests -> CallState]
  BY DEF CallState
<1>5. LicenseTypeOK
  BY <1>2, <1>3, <1>4 DEF LicenseTypeOK
<1>6. stopped => ~refreshTimer /\ ~refreshPending /\ announced = NoKey
  BY <1>1, <1>3
<1>7. ~stopped => (refreshTimer <=> validating = NoKey)
  BY <1>1
<1>8. announced # NoKey =>
        /\ key = announced
        /\ tried = announced \/ (validating # NoKey /\ refreshPending)
  BY <1>3
<1> HIDE DEF LicenseInit, MaybeKey
<1> QED BY <1>5, <1>6, <1>7, <1>8, Zenon DEF LicenseInv

\* The controller's fields agree with each other, whatever calls and other processes do.
THEOREM LicenseInvariance == LicenseSpec => []LicenseInv
BY LicenseBegins, LicenseStep, PTL DEF LicenseSpec

\* A controller that is not stopped has a refresh under way or a timer, never both.
THEOREM ControllerStaysAlive == LicenseSpec => []ControllerAlive
<1>1. LicenseInv => ControllerAlive
  BY DEF LicenseInv, ControllerAlive
<1> QED BY <1>1, LicenseInvariance, PTL

----------------------------------------------------------------------------
\* The process.

\* A step of the process is one of the license controller, or leaves it alone.
LEMMA ProcessStep == [LifecycleNext]_lifecycleVars => [LicenseNext]_licenseVars
<1> SUFFICES ASSUME LifecycleNext PROVE LicenseNext \/ UNCHANGED licenseVars
  BY DEF lifecycleVars
<1> USE DEF licenseVars, LicenseNext
<1>1. CASE Started \/ StartFails \/ Signal
  BY <1>1 DEF Started, Listening, StartFails, Signal, Close
<1>2. CASE SecondSignal \/ Deadline \/ Resignal \/ CloseStep
  BY <1>2 DEF SecondSignal, Deadline, Resignal, Forced, CloseStep
<1>3. CASE TaskEnds
  BY <1>3 DEF TaskEnds, RefreshEnds, DeliveryEnds, Answered, MailEnds
<1>4. CASE ControllerTimer \/ KeyFromElsewhere \/ FireBegins
  BY <1>4 DEF ControllerTimer, KeyFromElsewhere, FireBegins
<1>5. CASE (\E r \in Requests : Served(r)) \/ \E m \in Mails : MailBegins(m)
  BY <1>5 DEF Served, MailBegins
<1> QED BY <1>1, <1>2, <1>3, <1>4, <1>5 DEF LifecycleNext

\* A server process is one way of running the license controller.
THEOREM ProcessRunsController == LifecycleSpec => LicenseSpec
<1>1. LifecycleInit => LicenseInit
  BY DEF LifecycleInit
<1> QED BY <1>1, ProcessStep, PTL DEF LifecycleSpec, LicenseSpec

\* The tasks under way are tasks, and each ends without another.
LEMMA UnderwayIsTasks == Underway \subseteq Requests \cup mail \cup {"refresh", "fire"}
BY DEF Underway

\* A call leaves the set of tasks under way when it ends, and no other task does.
LEMMA CallLeaves ==
    ASSUME LicenseInv, NEW r \in Requests, CallEnds(r), stopped, UNCHANGED <<mail, scheduler>>,
           mail \subseteq Mails
    PROVE  Underway' \subseteq Underway \ {r}
<1>1. SetCall(r, "done", NoKey) /\ UNCHANGED validating
  BY DEF CallEnds, Activated, SavedForRetry, ActivationRefused, Deactivated, WakeController, controller
<1>2. call' = [call EXCEPT ![r] = [at |-> "done", key |-> NoKey]] /\ call \in [Requests -> CallState]
  BY <1>1 DEF SetCall, LicenseInv, LicenseTypeOK
<1>3. \A q \in Requests : q # r => call'[q] = call[q]
  BY <1>2
<1>4. call'[r].at = "done"
  BY <1>2
<1>5. r \notin mail /\ r \notin {"refresh", "fire"}
  BY LifecycleConstants
<1> QED BY <1>1, <1>3, <1>4, <1>5 DEF Underway

LEMMA LifecycleBegins == LifecycleInit => LifecycleInv
<1> SUFFICES ASSUME LifecycleInit PROVE LifecycleInv
  OBVIOUS
<1>1. LicenseInv
  BY LicenseBegins DEF LifecycleInit
<1>2. LifecycleTypeOK
  BY <1>1 DEF LifecycleInit, LifecycleTypeOK, LicenseInv, Stages, Tasks
<1> QED BY <1>1, <1>2 DEF LifecycleInit, LifecycleInv, Stopping

\* What every step of the process preserves.
LEMMA LifecycleStep == LifecycleInv /\ [LifecycleNext]_lifecycleVars => LifecycleInv'
<1> SUFFICES ASSUME LifecycleInv, [LifecycleNext]_lifecycleVars PROVE LifecycleInv'
  OBVIOUS
<1>0. /\ LifecycleTypeOK /\ LicenseInv /\ LicenseInv' /\ LicenseTypeOK'
      /\ mail \subseteq Mails
  BY ProcessStep, LicenseStep DEF LifecycleInv, LicenseInv, LifecycleTypeOK
<1> DEFINE Rest == /\ startup = "starting" => scheduler = "off"
                   /\ Stopping => stopped /\ scheduler # "asleep"
                   /\ closing = "draining" => Underway \subseteq awaited
                   /\ closing \in {"closing", "flushing", "closed"} => Underway = {} /\ ~providers
                   /\ closing \in {"no", "draining"} => providers
                   /\ store <=> closing \in {"no", "draining", "closing"}
<1>r. Rest
  BY DEF LifecycleInv
<1>s. SUFFICES LifecycleTypeOK' /\ Rest'
  BY <1>0, Zenon DEF LifecycleInv
<1> USE DEF LifecycleTypeOK, Stages, Tasks, Stopping
<1>1. ASSUME Started PROVE LifecycleTypeOK' /\ Rest'
  <2>1. CASE Stopping
    BY <1>0, <1>r, <1>1, <2>1 DEF Started, Listening, controller, Underway
  <2>2. CASE ~Stopping
    BY <1>0, <1>r, <1>1, <2>2 DEF Started, Listening, StartController
  <2> QED BY <2>1, <2>2
<1>2. ASSUME Close, UNCHANGED <<key, lease, call, mail, mailed, providers, store, terminated>>,
             ~Stopping, startup' \in {startup, "failed"}, signaled' \in BOOLEAN
      PROVE  LifecycleTypeOK' /\ Rest'
  <2>1. Underway' = Underway
    BY <1>2 DEF Close, StopController, Underway
  <2>2. awaited' = Underway /\ awaited' \subseteq Requests \cup Mails \cup {"refresh", "fire"}
    BY <1>0, <1>2, UnderwayIsTasks DEF Close
  <2> QED BY <1>0, <1>r, <1>2, <2>1, <2>2 DEF Close, StopController
<1>3. ASSUME StartFails PROVE LifecycleTypeOK' /\ Rest'
  <2>1. CASE Stopping
    BY <1>0, <1>r, <1>3, <2>1 DEF StartFails, controller, Underway
  <2>2. CASE ~Stopping
    BY <1>0, <1>2, <1>3, <2>2 DEF StartFails
  <2> QED BY <2>1, <2>2
<1>4. ASSUME Signal PROVE LifecycleTypeOK' /\ Rest'
  BY <1>0, <1>2, <1>4 DEF Signal
<1>5. ASSUME SecondSignal \/ Deadline \/ Resignal PROVE LifecycleTypeOK' /\ Rest'
  <2>1. /\ UNCHANGED <<licenseVars, startup, scheduler, mail, mailed, closing, awaited>>
        /\ UNCHANGED <<providers, store, signaled>> /\ terminated' = TRUE
    BY <1>5 DEF SecondSignal, Deadline, Resignal, Forced
  <2>2. Underway' = Underway
    BY <2>1 DEF licenseVars, controller, Underway
  <2> QED BY <1>0, <1>r, <2>1, <2>2 DEF licenseVars, controller
<1>6. ASSUME CloseStep PROVE LifecycleTypeOK' /\ Rest'
  <2>1. Underway' = Underway
    BY <1>6 DEF CloseStep, licenseVars, controller, Underway
  <2>2. /\ UNCHANGED <<licenseVars, startup, scheduler, mail, mailed, awaited, signaled, terminated>>
        /\ UNCHANGED stopped
    BY <1>6 DEF CloseStep, licenseVars, controller
  <2>3. CASE Drained /\ UNCHANGED store
    BY <1>0, <1>r, <2>1, <2>2, <2>3 DEF Drained
  <2>4. CASE closing = "closing" /\ closing' = "flushing" /\ store' = FALSE /\ UNCHANGED providers
    BY <1>0, <1>r, <2>1, <2>2, <2>4
  <2>5. CASE closing = "flushing" /\ closing' = "closed" /\ UNCHANGED <<providers, store>>
    BY <1>0, <1>r, <2>1, <2>2, <2>5
  <2> QED BY <1>6, <2>3, <2>4, <2>5 DEF CloseStep
<1>7. ASSUME RefreshEnds PROVE LifecycleTypeOK' /\ Rest'
  <2>1. /\ UNCHANGED <<call, mail, mailed, scheduler, startup, closing, providers, store, stopped>>
        /\ awaited' = awaited \ {"refresh"} /\ UNCHANGED <<signaled, terminated>>
        /\ Refresh
    BY <1>7 DEF RefreshEnds, Ends, others, Refresh, Refreshed, NotRefreshed, SettleRefresh
  <2>2. stopped => validating' = NoKey
    BY <2>1 DEF Refresh, Refreshed, NotRefreshed, SettleRefresh
  <2>3. Stopping => Underway' \subseteq Underway \ {"refresh"}
    BY <1>0, <1>r, <2>1, <2>2, LifecycleConstants DEF Underway
  <2> QED BY <1>0, <1>r, <2>1, <2>3
<1>8. ASSUME DeliveryEnds PROVE LifecycleTypeOK' /\ Rest'
  <2>1. Stopping => Underway' \subseteq Underway \ {"fire"}
    BY <1>0, <1>8, LifecycleConstants DEF DeliveryEnds, licenseVars, controller, others, Underway
  <2> QED BY <1>0, <1>r, <1>8, <2>1 DEF DeliveryEnds, Ends, licenseVars, controller, others
<1>9. ASSUME NEW r \in Requests, Answered(r) PROVE LifecycleTypeOK' /\ Rest'
  <2>1. /\ UNCHANGED <<mail, mailed, scheduler, startup, closing, providers, store, signaled, terminated>>
        /\ awaited' = awaited \ {r} /\ CallEnds(r)
    BY <1>9 DEF Answered, Ends, others
  <2>2. UNCHANGED stopped
    BY <2>1 DEF CallEnds, Activated, SavedForRetry, ActivationRefused, Deactivated, WakeController, controller
  <2>3. Stopping => Underway' \subseteq Underway \ {r}
    BY <1>0, <1>r, <2>1, CallLeaves
  <2> QED BY <1>0, <1>r, <2>1, <2>2, <2>3
<1>10. ASSUME NEW m \in Mails, MailEnds(m) PROVE LifecycleTypeOK' /\ Rest'
  <2>1. Underway' \subseteq Underway \ {m}
    BY <1>0, <1>10, LifecycleConstants DEF MailEnds, licenseVars, controller, Underway
  <2> QED BY <1>0, <1>r, <1>10, <2>1 DEF MailEnds, Ends, licenseVars, controller, others
<1>11. ASSUME ControllerTimer PROVE LifecycleTypeOK' /\ Rest'
  <2>1. ~stopped
    BY <1>0, <1>11 DEF ControllerTimer, LicenseTimerFires, LicenseInv
  <2> QED BY <1>0, <1>r, <1>11, <2>1 DEF ControllerTimer, LicenseTimerFires, others
<1>12. ASSUME KeyFromElsewhere PROVE LifecycleTypeOK' /\ Rest'
  <2>1. PICK r \in Requests, k \in MaybeKey : SetElsewhere(r, k)
    BY <1>12 DEF KeyFromElsewhere, SavedElsewhere, RemovedElsewhere, MaybeKey
  <2>2. /\ call' = [call EXCEPT ![r] = [at |-> "done", key |-> NoKey]] /\ call \in [Requests -> CallState]
        /\ UNCHANGED <<stopped, validating>> /\ call[r].at = "idle"
    BY <1>0, <2>1 DEF SetElsewhere, SetCall, LicenseTypeOK, LicenseInv
  <2>3. \A q \in Requests : q # r => call'[q] = call[q]
    BY <2>2
  <2>4. call'[r].at = "done"
    BY <2>2
  <2>5. Underway' = Underway
    BY <1>12, <2>2, <2>3, <2>4 DEF KeyFromElsewhere, others, Underway
  <2> QED BY <1>0, <1>r, <1>12, <2>2, <2>5 DEF KeyFromElsewhere, others
<1>13. ASSUME FireBegins PROVE LifecycleTypeOK' /\ Rest'
  BY <1>0, <1>r, <1>13 DEF FireBegins, licenseVars, controller, others
<1>14. ASSUME NEW r \in Requests, Served(r) PROVE LifecycleTypeOK' /\ Rest'
  BY <1>0, <1>r, <1>14 DEF Served, others
<1>15. ASSUME NEW m \in Mails, MailBegins(m) PROVE LifecycleTypeOK' /\ Rest'
  BY <1>0, <1>r, <1>15 DEF MailBegins, others, licenseVars, controller
<1>16. CASE UNCHANGED lifecycleVars
  BY <1>0, <1>r, <1>16 DEF lifecycleVars, licenseVars, controller, Underway
<1>17. CASE LifecycleNext
  <2>1. CASE TaskEnds
    BY <1>7, <1>8, <1>9, <1>10, <2>1 DEF TaskEnds
  <2>2. CASE Started \/ StartFails \/ Signal
    BY <1>1, <1>3, <1>4, <2>2
  <2>3. CASE SecondSignal \/ Deadline \/ Resignal \/ CloseStep
    BY <1>5, <1>6, <2>3
  <2>4. CASE ControllerTimer \/ KeyFromElsewhere \/ FireBegins
    BY <1>11, <1>12, <1>13, <2>4
  <2>5. CASE (\E r \in Requests : Served(r)) \/ \E m \in Mails : MailBegins(m)
    BY <1>14, <1>15, <2>5
  <2> QED BY <1>17, <2>1, <2>2, <2>3, <2>4, <2>5 DEF LifecycleNext
<1> QED BY <1>16, <1>17

\* Once close() has begun nothing starts, and it waits for all that is under way.
THEOREM LifecycleInvariance == LifecycleSpec => []LifecycleInv
BY LifecycleBegins, LifecycleStep, PTL DEF LifecycleSpec

\* Nothing uses the providers, or the store, once close() has taken them away.
THEOREM ClosesWhenDrained == LifecycleSpec => []ClosedWhenDrained
<1>1. LifecycleInv => ClosedWhenDrained
  BY DEF LifecycleInv, LifecycleTypeOK, Stages, ClosedWhenDrained
<1> QED BY <1>1, LifecycleInvariance, PTL

\* The controller does not rest before it has tried the key that was announced to it.
THEOREM AnnouncedKeysAreTried == LifecycleSpec => []AnnouncedKeyTried
<1>1. LicenseInv => AnnouncedKeyTried
  BY DEF LicenseInv, AnnouncedKeyTried
<1> QED BY <1>1, ProcessRunsController, LicenseInvariance, PTL

----------------------------------------------------------------------------
(* The scheduler of the process.  The process starts it once, tells it to  *)
(* stop when close() begins, and goes on to close the providers when the   *)
(* delivery at hand is over, as is in SchedulerPromise.                    *)

LEMMA ProcessStepKeepsPromise ==
    ASSUME LifecycleInv, LifecycleInv', [LifecycleNext]_lifecycleVars
    PROVE  [SchedulerHere!Next]_(SchedulerHere!promiseVars)
<1> DEFINE Gone == {"closing", "flushing", "closed"}
           On == scheduler # "off" /\ ~Stopping
           Firing == scheduler = "firing"
           Quiet == closing \in Gone
<1>0. /\ LifecycleTypeOK /\ (startup = "starting" => scheduler = "off")
      /\ (Stopping => scheduler # "asleep") /\ (Quiet => Underway = {})
      /\ (closing = "draining" => Underway \subseteq awaited)
  BY DEF LifecycleInv
<1> USE DEF LifecycleTypeOK, Stages, Stopping
<1>k. ASSUME UNCHANGED <<scheduler, closing>> PROVE UNCHANGED <<On, Firing, Quiet>>
  BY <1>k
<1>s. ASSUME SchedulerHere!Start \/ SchedulerHere!Stop \/ SchedulerHere!Begin \/ SchedulerHere!End
             \/ UNCHANGED <<On, Firing, Quiet>>
      PROVE  [SchedulerHere!Next]_(SchedulerHere!promiseVars)
  BY <1>s DEF SchedulerHere!Next, SchedulerHere!promiseVars
<1>1. CASE Started
  <2>1. CASE Stopping
    BY <1>1, <1>k, <1>s, <2>1 DEF Started, Listening
  <2>2. CASE ~Stopping
    <3>1. scheduler = "off" /\ scheduler' = "asleep" /\ closing = "no" /\ closing' = "no"
      BY <1>0, <1>1, <2>2 DEF Started, Listening
    <3>2. SchedulerHere!Start
      BY <3>1 DEF SchedulerHere!Start
    <3> QED BY <1>s, <3>2
  <2> QED BY <2>1, <2>2
<1>2. ASSUME Close, ~Stopping PROVE SchedulerHere!Stop
  <2>1. /\ closing = "no" /\ closing' = "draining"
        /\ scheduler' = IF scheduler = "firing" THEN "firing" ELSE "off"
    BY <1>2 DEF Close
  <2> QED BY <2>1 DEF SchedulerHere!Stop
<1>3. CASE StartFails \/ Signal
  <2>1. CASE Stopping
    BY <1>3, <1>k, <1>s, <2>1 DEF StartFails, Signal
  <2>2. CASE ~Stopping
    BY <1>2, <1>3, <1>s, <2>2 DEF StartFails, Signal
  <2> QED BY <2>1, <2>2
<1>4. CASE SecondSignal \/ Deadline \/ Resignal
  BY <1>4, <1>k, <1>s DEF SecondSignal, Deadline, Resignal, Forced
<1>5. CASE CloseStep
  <2>1. UNCHANGED scheduler /\ Stopping /\ Stopping' /\ Quiet'
    BY <1>5 DEF CloseStep, Drained
  <2>2. CASE Drained
    <3>1. ~Firing
      BY <1>0, <2>2 DEF Drained, Underway
    <3> QED BY <1>s, <2>1, <3>1 DEF SchedulerHere!Stop
  <2>3. CASE ~Drained
    <3>1. Quiet
      BY <1>5, <2>3 DEF CloseStep
    <3> QED BY <1>s, <2>1, <3>1
  <2> QED BY <2>2, <2>3
<1>6. CASE FireBegins
  <2>1. scheduler = "asleep" /\ scheduler' = "firing" /\ ~Stopping /\ closing' = closing
    BY <1>0, <1>6 DEF FireBegins, others
  <2>2. SchedulerHere!Begin
    BY <2>1 DEF SchedulerHere!Begin
  <2> QED BY <1>s, <2>2
<1>7. CASE DeliveryEnds
  <2>1. /\ scheduler = "firing" /\ closing' = closing
        /\ scheduler' = IF Stopping THEN "off" ELSE "asleep"
    BY <1>7 DEF DeliveryEnds, others
  <2>2. SchedulerHere!End
    BY <2>1 DEF SchedulerHere!End
  <2> QED BY <1>s, <2>2
<1>8. CASE RefreshEnds \/ (\E r \in Requests : Answered(r)) \/ \E m \in Mails : MailEnds(m)
  <2>1. UNCHANGED <<scheduler, closing>>
    BY <1>8 DEF RefreshEnds, Answered, MailEnds, others
  <2> QED BY <1>k, <1>s, <2>1
<1>9. CASE ControllerTimer \/ KeyFromElsewhere \/ (\E r \in Requests : Served(r)) \/ \E m \in Mails : MailBegins(m)
  <2>1. UNCHANGED <<scheduler, closing>>
    BY <1>9 DEF ControllerTimer, KeyFromElsewhere, Served, MailBegins, others
  <2> QED BY <1>k, <1>s, <2>1
<1>10. CASE UNCHANGED lifecycleVars
  BY <1>10, <1>k, <1>s DEF lifecycleVars
<1> QED BY <1>1, <1>3, <1>4, <1>5, <1>6, <1>7, <1>8, <1>9, <1>10 DEF LifecycleNext, TaskEnds

\* What RuntimeLifecycle has of the scheduler is a scheduler in the sense of SchedulerPromise:
\* it starts one, and what close() closes is closed behind a stop() that has returned.
THEOREM ProcessRunsAScheduler == LifecycleSpec => RunsAScheduler
<1>1. LifecycleInit => SchedulerHere!Init
  BY DEF LifecycleInit, SchedulerHere!Init, Stopping
<1>2. LifecycleInv /\ LifecycleInv' /\ [LifecycleNext]_lifecycleVars => [SchedulerHere!Next]_(SchedulerHere!promiseVars)
  BY ProcessStepKeepsPromise
<1> QED BY <1>1, <1>2, LifecycleInvariance, PTL DEF LifecycleSpec, RunsAScheduler, SchedulerHere!Spec
============================================================================
