--------------------------- MODULE SendScheduler ---------------------------
(***************************************************************************)
(* The event loop of one scheduler process: start, stop, wake, the         *)
(* license controller's licenseRefreshed, the poll timer, the quota hold   *)
(* and the tick that fires due rows one after the other.  JavaScript runs  *)
(* a function up to its next await without interruption; an action is such *)
(* a stretch.  What a fire does to its row is ScheduledDelivery's subject: *)
(* here it takes a row out of the due ones, and lasts.                     *)
(***************************************************************************)
EXTENDS Naturals

CONSTANTS Loops,      \* identities for the promises that wake() creates
          Rows,       \* schedules
          None,       \* undefined
          MaxFaults   \* bound: statements that fail on the database

ASSUME LoopConstants == None \notin Loops /\ Loops # {} /\ MaxFaults \in Nat

LoopState == {"free", "deferred", "next", "firing", "settling"}

VARIABLES
    running, active, rerun, timer,  \* the scheduler's fields
    hold,                           \* quotaHoldUntil lies in the future
    loop,                           \* where each loop is in tick() and its finally
    batch,                          \* rows its tick has listed and not yet fired
    due,                            \* rows that listClaimable would return
    quota,                          \* enforceQuota passes
    faults,
    woken,                          \* history: a wake() no scan has answered yet
    waited, returned                \* history: loops awaited by a stop() since the
                                    \* last start(), and whether such a stop() returned

fields  == <<running, active, rerun, timer>>
history == <<woken, waited, returned>>
vars    == <<fields, hold, loop, batch, due, quota, faults, history>>

TypeOK ==
    /\ running \in BOOLEAN /\ rerun \in BOOLEAN /\ timer \in BOOLEAN
    /\ active \in Loops \cup {None}
    /\ hold \in BOOLEAN /\ quota \in BOOLEAN
    /\ loop \in [Loops -> LoopState]
    /\ batch \in [Loops -> SUBSET Rows]
    /\ due \in SUBSET Rows
    /\ faults \in Nat
    /\ woken \in BOOLEAN /\ waited \in SUBSET Loops /\ returned \in BOOLEAN

Init ==
    /\ running = FALSE /\ rerun = FALSE /\ timer = FALSE
    /\ active = None
    /\ hold = FALSE /\ quota \in BOOLEAN
    /\ loop = [l \in Loops |-> "free"]
    /\ batch = [l \in Loops |-> {}]
    /\ due \in SUBSET Rows
    /\ faults = 0
    /\ woken = FALSE /\ waited = {} /\ returned = FALSE

----------------------------------------------------------------------------
Fault == faults < MaxFaults /\ faults' = faults + 1

Move(l, from, to) == loop[l] = from /\ loop' = [loop EXCEPT ![l] = to]

\* wake() of a running scheduler: ask the active loop for another round, or
\* start a loop whose tick is deferred to a microtask.
Wake ==
    /\ timer' = FALSE
    /\ woken' = TRUE
    /\ \/ active # None /\ rerun' = TRUE /\ UNCHANGED <<active, loop>>
       \/ /\ active = None
          /\ \E l \in Loops : Move(l, "free", "deferred") /\ active' = l
          /\ UNCHANGED rerun

\* start() of a scheduler that is not running.
Start ==
    /\ ~running
    /\ running' = TRUE
    /\ Wake
    /\ waited' = {} /\ returned' = FALSE
    /\ UNCHANGED <<hold, batch, due, quota, faults>>

\* stop() switches everything off and waits for the promise it finds in active.
Stop ==
    /\ running' = FALSE /\ rerun' = FALSE /\ timer' = FALSE
    /\ woken' = FALSE
    /\ \/ active = None /\ returned' = TRUE /\ UNCHANGED waited
       \/ active # None /\ waited' = waited \cup {active} /\ UNCHANGED returned
    /\ UNCHANGED <<active, hold, loop, batch, due, quota, faults>>

\* A schedule was created, canceled or superseded by a call in this process.
ScheduleChanged ==
    /\ running
    /\ Wake
    /\ UNCHANGED <<running, hold, batch, due, quota, faults, waited, returned>>

\* The license controller obtained a fresh license.
LicenseRefreshed ==
    /\ hold' = FALSE
    /\ \/ running /\ Wake
       \/ ~running /\ UNCHANGED <<active, rerun, timer, loop, woken>>
    /\ UNCHANGED <<running, batch, due, quota, faults, waited, returned>>

\* The poll timer, or the timer for the next due row, fires.
TimerFires ==
    /\ timer
    /\ Wake
    /\ UNCHANGED <<running, hold, batch, due, quota, faults, waited, returned>>

----------------------------------------------------------------------------
\* The loop: tick(), fire() and the finally block.

\* tick() up to its first fire.  A wake() that the quota check makes
\* synchronously finds the loop active and asks for another round.
Tick(l) ==
    /\ \/ /\ ~running \/ hold \/ due = {}
          /\ Move(l, "deferred", "settling")
          /\ woken' = FALSE
          /\ UNCHANGED <<rerun, hold, batch, faults>>
       \/ /\ running /\ ~hold
          /\ Fault
          /\ Move(l, "deferred", "settling")
          /\ woken' = FALSE
          /\ UNCHANGED <<rerun, hold, batch>>
       \/ /\ running /\ ~hold /\ due # {}
          /\ \E wakes \in BOOLEAN : rerun' = (rerun \/ wakes) /\ woken' = wakes
          /\ \/ /\ quota
                /\ Move(l, "deferred", "next")
                /\ batch' = [batch EXCEPT ![l] = due]
                /\ UNCHANGED hold
             \/ /\ ~quota
                /\ Move(l, "deferred", "settling")
                /\ hold' = TRUE
                /\ UNCHANGED batch
          /\ UNCHANGED faults
    /\ UNCHANGED <<running, active, timer, due, quota, waited, returned>>

\* The next listed row is claimed and fired, unless somebody else took it, the
\* scheduler was stopped or the claim fails on the database.
Fire(l) ==
    /\ \/ /\ ~running \/ batch[l] = {}
          /\ Move(l, "next", "settling")
          /\ batch' = [batch EXCEPT ![l] = {}]
          /\ UNCHANGED <<due, faults>>
       \/ /\ running /\ batch[l] # {}
          /\ Fault
          /\ Move(l, "next", "settling")
          /\ batch' = [batch EXCEPT ![l] = {}]
          /\ UNCHANGED due
       \/ /\ running
          /\ \E r \in batch[l] :
              /\ Move(l, "next", IF r \in due THEN "firing" ELSE "next")
              /\ due' = due \ {r}
              /\ batch' = [batch EXCEPT ![l] = @ \ {r}]
          /\ UNCHANGED faults
    /\ UNCHANGED <<fields, hold, quota, history>>

\* fire() has recorded an outcome; a failure to record it ends the tick.
FireEnds(l) ==
    /\ \/ Move(l, "firing", "next") /\ UNCHANGED <<batch, faults>>
       \/ /\ Move(l, "firing", "settling")
          /\ batch' = [batch EXCEPT ![l] = {}]
          /\ Fault
    /\ UNCHANGED <<fields, hold, due, quota, history>>

\* Mutant: the finally block forgets the requested round.
SettleAndArm(l) ==
    /\ Move(l, "settling", "free")
    /\ active' = None
    /\ rerun' = FALSE
    /\ timer' = running
    /\ waited' = waited \ {l}
    /\ returned' = (returned \/ l \in waited)
    /\ UNCHANGED <<running, hold, batch, due, quota, faults, woken>>

\* Mutant: the finally block polls only if it was woken.
SettleAndSleep(l) ==
    /\ \/ running /\ rerun /\ rerun' = FALSE /\ active' = l /\ Move(l, "settling", "deferred")
       \/ ~(running /\ rerun) /\ active' = None /\ Move(l, "settling", "free") /\ UNCHANGED rerun
    /\ waited' = waited \ {l}
    /\ returned' = (returned \/ l \in waited)
    /\ UNCHANGED <<running, timer, hold, batch, due, quota, faults, woken>>

\* The finally block: the promise is forgotten, whoever awaits it goes on, and
\* a running scheduler begins another round or arms its timer.
Settle(l) ==
    /\ \/ /\ ~running
          /\ Move(l, "settling", "free")
          /\ active' = None
          /\ UNCHANGED <<rerun, timer>>
       \/ /\ running /\ rerun
          /\ rerun' = FALSE /\ timer' = FALSE
          /\ Move(l, "settling", "deferred")
          /\ active' = l
       \/ /\ running /\ ~rerun
          /\ Move(l, "settling", "free")
          /\ active' = None
          /\ timer' = TRUE
          /\ UNCHANGED rerun
    /\ waited' = waited \ {l}
    /\ returned' = (returned \/ l \in waited)
    /\ UNCHANGED <<running, hold, batch, due, quota, faults, woken>>

----------------------------------------------------------------------------
\* The world.

\* sendAt, a backoff or another worker's lease has passed.
BecomeDue(r) ==
    /\ r \notin due
    /\ due' = due \cup {r}
    /\ UNCHANGED <<fields, hold, loop, batch, quota, faults, history>>

\* Another process claims the row, or its owner cancels it.
Taken(r) ==
    /\ r \in due
    /\ due' = due \ {r}
    /\ UNCHANGED <<fields, hold, loop, batch, quota, faults, history>>

\* The license, or the use made of it, changes.
QuotaChanges ==
    /\ quota' = ~quota
    /\ UNCHANGED <<fields, hold, loop, batch, due, faults, history>>

\* Fifteen minutes have passed.
HoldEnds ==
    /\ hold
    /\ hold' = FALSE
    /\ UNCHANGED <<fields, loop, batch, due, quota, faults, history>>

LoopStep(l) == Tick(l) \/ Fire(l) \/ FireEnds(l) \/ Settle(l)

Next ==
    \/ Start \/ Stop \/ ScheduleChanged \/ LicenseRefreshed \/ TimerFires
    \/ \E l \in Loops : LoopStep(l)
    \/ \E r \in Rows : BecomeDue(r) \/ Taken(r)
    \/ QuotaChanges \/ HoldEnds

Spec == Init /\ [][Next]_vars

\* Microtasks and timers run, fires end, time passes.
Fairness ==
    /\ \A l \in Loops : WF_vars(LoopStep(l))
    /\ WF_vars(TimerFires) /\ WF_vars(HoldEnds)

FairSpec == Spec /\ Fairness

----------------------------------------------------------------------------
\* Properties.

\* There is at most one loop, and it is the one that active names: two fires of one
\* process never overlap, whoever wakes, starts or stops it (wake, and its finally block).
OneLoop == \A l \in Loops : loop[l] # "free" <=> active = l

\* A running scheduler is never left for dead: a loop is active or a timer is armed, and
\* never both, so that no timer is orphaned (wake and arm).
NeverDead ==
    /\ running => active # None \/ timer
    /\ timer => running /\ active = None

\* The scheduler does not go to sleep on a wake() that no scan has seen: a schedule
\* created while a tick is at work is found at once, not at the next poll (rerun).
NoLostWake == woken /\ running => rerun \/ (active # None /\ loop[active] = "deferred")

\* Once a stop() has returned, and until the next start(), nothing runs and nothing is
\* armed: the caller may close the database (stop awaits the active loop).
QuietAfterStop == returned => ~running /\ ~timer /\ \A l \in Loops : loop[l] = "free"

\* Nothing is fired while the quota is held.
HoldIsIdle == hold => \A l \in Loops : loop[l] \notin {"next", "firing"}

\* Stopping lets the delivery at hand finish and begins no other.
StopBeginsNothing ==
    [][~running => \A l \in Loops : loop'[l] = "firing" => loop[l] = "firing"]_vars

\* A row that stays due is fired while the scheduler runs, once the quota allows it.
DueIsServed ==
    <>[]quota => \A r \in Rows : r \in due ~> (r \notin due \/ ~running)

\* The scheduler as the process that runs it sees it.
Firing == \E l \in Loops : loop[l] = "firing"
AsScheduler == INSTANCE SchedulerPromise WITH on <- running, delivering <- Firing, quiet <- returned
KeepsSchedulerPromise == AsScheduler!Spec

----------------------------------------------------------------------------
\* The inductive invariant.

\* Listed rows belong to a loop in its tick.
BatchInTick == \A l \in Loops : loop[l] \notin {"next", "firing"} => batch[l] = {}

\* A round is requested from an active loop only, of a running scheduler.
RerunOfActive == rerun => running /\ active # None

\* A stop() in progress awaits the active loop of a scheduler that was not started again.
WaitsForActive == (waited # {} \/ returned) => ~running /\ waited \subseteq {active}

LoopInv ==
    /\ TypeOK /\ OneLoop /\ NeverDead /\ NoLostWake /\ QuietAfterStop /\ HoldIsIdle
    /\ BatchInTick /\ RerunOfActive /\ WaitsForActive
============================================================================
