-------------------------- MODULE RuntimeLifecycle --------------------------
(***************************************************************************)
(* A server process from its start to its end: RuntimeLifecycle of         *)
(* src/packages/server/src/lifecycle.ts around the license controller, the *)
(* send scheduler (here: asleep, or in the middle of a fire) and the       *)
(* requests, all of which use the store and the providers that close()     *)
(* takes away.                                                             *)
(***************************************************************************)
EXTENDS LicenseController

CONSTANT Mails    \* requests that use a provider, each made once

ASSUME LifecycleConstants ==
    Requests \cap Mails = {} /\ (Requests \cup Mails) \cap {"refresh", "fire"} = {}

VARIABLES
    startup,      \* "starting", "up", "failed", or "left": it saw it was stopping
    scheduler,    \* "off", "asleep", "firing"
    mail,         \* requests on mailboxes under way
    mailed,       \* history: those made
    closing,      \* how far close() has come
    awaited,      \* what close() still waits for
    providers, store,  \* open
    signaled,     \* a signal began the shutdown: its deadline is set
    terminated

lifecycleVars == <<licenseVars, startup, scheduler, mail, mailed, closing,
                   awaited, providers, store, signaled, terminated>>

Stages == {"no", "draining", "closing", "flushing", "closed"}
Tasks == Requests \cup Mails \cup {"refresh", "fire"}

\* The tasks that are under way now.
Underway ==
    {r \in Requests : call[r].at \in {"activating", "releasing"}}
        \cup mail
        \cup (IF validating # NoKey THEN {"refresh"} ELSE {})
        \cup (IF scheduler = "firing" THEN {"fire"} ELSE {})

LifecycleTypeOK ==
    /\ LicenseTypeOK
    /\ startup \in {"starting", "up", "failed", "left"}
    /\ scheduler \in {"off", "asleep", "firing"}
    /\ mail \subseteq mailed /\ mailed \subseteq Mails
    /\ closing \in Stages /\ awaited \subseteq Tasks
    /\ providers \in BOOLEAN /\ store \in BOOLEAN
    /\ signaled \in BOOLEAN /\ terminated \in BOOLEAN

LifecycleInit ==
    /\ LicenseInit
    /\ startup = "starting" /\ scheduler = "off"
    /\ mail = {} /\ mailed = {}
    /\ closing = "no" /\ awaited = {}
    /\ providers = TRUE /\ store = TRUE
    /\ signaled = FALSE /\ terminated = FALSE

----------------------------------------------------------------------------
Stopping == closing # "no"

\* Mutant: requests that were already there are not waited for.
CloseIgnoresRequests ==
    /\ closing' = "draining"
    /\ awaited' = Underway \cap {"refresh", "fire"}
    /\ StopController
    /\ scheduler' = IF scheduler = "firing" THEN "firing" ELSE "off"

\* close(), up to its await of what is under way.
Close ==
    /\ closing' = "draining"
    /\ awaited' = Underway
    /\ StopController
    /\ scheduler' = IF scheduler = "firing" THEN "firing" ELSE "off"

\* The server listens; serve goes on unless a signal has arrived meanwhile.
Listening ==
    /\ startup = "starting"
    /\ IF Stopping THEN startup' = "left" /\ UNCHANGED <<controller, scheduler>>
       ELSE startup' = "up" /\ StartController /\ scheduler' = "asleep"

Started ==
    /\ Listening
    /\ UNCHANGED <<key, lease, call, mail, mailed, closing, awaited, providers,
                   store, signaled, terminated>>

\* The port is taken, or something before the start throws: the catch closes.
StartFails ==
    /\ startup = "starting" /\ startup' = "failed"
    /\ IF Stopping THEN UNCHANGED <<controller, scheduler, closing, awaited>> ELSE Close
    /\ UNCHANGED <<key, lease, call, mail, mailed, providers, store, signaled,
                   terminated>>

\* The first signal sets the deadline and closes, unless close() is at work.
Signal ==
    /\ ~Stopping
    /\ signaled' = TRUE
    /\ Close
    /\ UNCHANGED <<key, lease, call, startup, mail, mailed, providers, store,
                   terminated>>

\* force(): a signal during close(), the deadline, or the end of close().
Forced ==
    /\ Stopping
    /\ terminated' = TRUE
    /\ UNCHANGED <<licenseVars, startup, scheduler, mail, mailed, closing, awaited,
                   providers, store, signaled>>

SecondSignal == closing # "closed" /\ Forced
Deadline == signaled /\ closing # "closed" /\ Forced
Resignal == signaled /\ closing = "closed" /\ Forced

\* Mutant: a drain that fails ends close() with the store still open.
DrainedAll ==
    /\ closing = "draining" /\ awaited = {}
    /\ \/ closing' = "closing" /\ providers' = FALSE
       \/ closing' = "closed" /\ UNCHANGED providers

\* Everything has settled, successfully or not: close the providers.
Drained ==
    /\ closing = "draining" /\ awaited = {}
    /\ closing' = "closing" /\ providers' = FALSE

CloseStep ==
    /\ \/ Drained /\ UNCHANGED store
       \/ /\ closing = "closing"
          /\ closing' = "flushing" /\ store' = FALSE /\ UNCHANGED providers
       \/ /\ closing = "flushing"
          /\ closing' = "closed" /\ UNCHANGED <<providers, store>>
    /\ UNCHANGED <<licenseVars, startup, scheduler, mail, mailed, awaited, signaled,
                   terminated>>

----------------------------------------------------------------------------
\* The rest of the process.  A request that arrives once close() has begun is
\* answered with 503 and touches nothing.
Ends(task) == awaited' = awaited \ {task}

others == <<startup, closing, providers, store, signaled, terminated>>

Served(r) ==
    /\ startup = "up" /\ ~Stopping
    /\ CallBegins(r)
    /\ UNCHANGED <<scheduler, mail, mailed, awaited, others>>

Answered(r) ==
    /\ startup = "up"
    /\ call[r].at = "idle" => ~Stopping
    /\ CallEnds(r)
    /\ Ends(r)
    /\ UNCHANGED <<scheduler, mail, mailed, others>>

RefreshEnds ==
    /\ Refresh
    /\ Ends("refresh")
    /\ UNCHANGED <<scheduler, mail, mailed, others>>

ControllerTimer ==
    /\ LicenseTimerFires
    /\ UNCHANGED <<scheduler, mail, mailed, awaited, others>>

KeyFromElsewhere ==
    /\ \E r \in Requests : SavedElsewhere(r) \/ RemovedElsewhere(r)
    /\ UNCHANGED <<scheduler, mail, mailed, awaited, others>>

MailBegins(m) ==
    /\ startup = "up" /\ ~Stopping /\ m \notin mailed
    /\ mail' = mail \cup {m} /\ mailed' = mailed \cup {m}
    /\ UNCHANGED <<licenseVars, scheduler, awaited, others>>

MailEnds(m) ==
    /\ m \in mail
    /\ mail' = mail \ {m}
    /\ Ends(m)
    /\ UNCHANGED <<licenseVars, scheduler, mailed, others>>

\* One fire of the scheduler's tick; a tick that was told to stop fires no more.
FireBegins ==
    /\ scheduler = "asleep" /\ scheduler' = "firing"
    /\ UNCHANGED <<licenseVars, mail, mailed, awaited, others>>

DeliveryEnds ==
    /\ scheduler = "firing"
    /\ scheduler' = IF Stopping THEN "off" ELSE "asleep"
    /\ Ends("fire")
    /\ UNCHANGED <<licenseVars, mail, mailed, others>>

TaskEnds ==
    \/ RefreshEnds \/ DeliveryEnds
    \/ (\E r \in Requests : Answered(r)) \/ \E m \in Mails : MailEnds(m)

LifecycleNext ==
    /\ ~terminated
    /\ \/ Started \/ StartFails \/ Signal
       \/ SecondSignal \/ Deadline \/ Resignal \/ CloseStep
       \/ TaskEnds \/ ControllerTimer \/ KeyFromElsewhere \/ FireBegins
       \/ \E r \in Requests : Served(r)
       \/ \E m \in Mails : MailBegins(m)

LifecycleSpec == LifecycleInit /\ [][LifecycleNext]_lifecycleVars

\* What is under way ends: network calls have timeouts, close() goes on, and
\* the timers of the controller and of the deadline fire.
Running(A) == ~terminated /\ A
LifecycleFairness ==
    /\ WF_lifecycleVars(Running(RefreshEnds)) /\ WF_lifecycleVars(Running(DeliveryEnds))
    /\ \A r \in Requests : WF_lifecycleVars(Running(Answered(r) /\ call[r].at # "idle"))
    /\ \A m \in Mails : WF_lifecycleVars(Running(MailEnds(m)))
    /\ WF_lifecycleVars(Running(CloseStep)) /\ WF_lifecycleVars(Running(Resignal))
    /\ WF_lifecycleVars(Running(ControllerTimer))

FairLifecycleSpec == LifecycleSpec /\ LifecycleFairness

----------------------------------------------------------------------------
\* What every state of the process has in common: once close() has begun nothing
\* starts any more, and it waits for all that is under way.
LifecycleInv ==
    /\ LifecycleTypeOK /\ LicenseInv
    /\ startup = "starting" => scheduler = "off"
    /\ Stopping => stopped /\ scheduler # "asleep"
    /\ closing = "draining" => Underway \subseteq awaited
    /\ closing \in {"closing", "flushing", "closed"} => Underway = {} /\ ~providers
    /\ closing \in {"no", "draining"} => providers
    /\ store <=> closing \in {"no", "draining", "closing"}

\* The providers are closed, and after them the store, only when no request,
\* refresh or fire is left that would use them - also when the process was told
\* to stop while it was starting, or had just been asked to refresh once more.
ClosedWhenDrained ==
    ~terminated =>
        /\ ~providers => Underway = {}
        /\ ~store => ~providers

\* The scheduler of this process, as far as it is modelled here, keeps the promise that
\* SendScheduler keeps: it is started once, and the providers are closed behind a stop()
\* that has returned.
SchedulerHere ==
    INSTANCE SchedulerPromise WITH on <- scheduler # "off" /\ ~Stopping, delivering <- scheduler = "firing",
                                   quiet <- closing \in {"closing", "flushing", "closed"}
RunsAScheduler == SchedulerHere!Spec

\* close() comes to its end with the store closed, whatever fails on the way
\* and also when no signal, and so no deadline, began it.
CloseEnds == Stopping ~> (terminated \/ (closing = "closed" /\ ~store))

\* A key that another process stored, or that a call announced, is tried in
\* the end unless it is replaced or the process stops.
KeyIsTried ==
    \A k \in Keys : (key = k /\ ~stopped) ~> (tried = k \/ key # k \/ stopped)

\* What the process was told to do, it does: close() ends, and keys are tried.
ServerProgress == CloseEnds /\ KeyIsTried
============================================================================
