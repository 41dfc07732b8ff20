------------------------ MODULE SendScheduler_proofs ------------------------
(***************************************************************************)
(* Proofs about SendScheduler, for any number of rows and of promises.     *)
(***************************************************************************)
EXTENDS SendScheduler, TLAPS

LEMMA InitLoopInv == Init => LoopInv
<1> SUFFICES ASSUME Init PROVE LoopInv
  OBVIOUS
<1> USE LoopConstants
<1>1. TypeOK
  BY DEF Init, TypeOK, LoopState
<1>2. OneLoop /\ NeverDead /\ NoLostWake /\ QuietAfterStop
  BY DEF Init, OneLoop, NeverDead, NoLostWake, QuietAfterStop
<1>3. HoldIsIdle /\ BatchInTick /\ RerunOfActive /\ WaitsForActive
  BY DEF Init, HoldIsIdle, BatchInTick, RerunOfActive, WaitsForActive
<1> QED BY <1>1, <1>2, <1>3 DEF LoopInv

\* Every step preserves the types.
LEMMA TypeStep == TypeOK /\ [Next]_vars => TypeOK'
<1> SUFFICES ASSUME TypeOK, [Next]_vars PROVE TypeOK'
  OBVIOUS
<1> USE LoopConstants DEF TypeOK, LoopState, fields, history
<1>1. CASE Start
  BY <1>1 DEF Start, Wake, Move
<1>2. CASE Stop
  BY <1>2 DEF Stop
<1>3. CASE ScheduleChanged
  BY <1>3 DEF ScheduleChanged, Wake, Move
<1>4. CASE LicenseRefreshed
  BY <1>4 DEF LicenseRefreshed, Wake, Move
<1>5. CASE TimerFires
  BY <1>5 DEF TimerFires, Wake, Move
<1>6. ASSUME NEW l \in Loops, Tick(l) PROVE TypeOK'
  <2>1. loop' \in [Loops -> LoopState] /\ batch' \in [Loops -> SUBSET Rows]
    BY <1>6 DEF Tick, Move
  <2>2. faults' \in Nat
    BY <1>6 DEF Tick, Fault
  <2>3. rerun' \in BOOLEAN /\ woken' \in BOOLEAN /\ hold' \in BOOLEAN
    BY <1>6 DEF Tick
  <2> QED BY <1>6, <2>1, <2>2, <2>3 DEF Tick
<1>7. ASSUME NEW l \in Loops, Fire(l) PROVE TypeOK'
  BY <1>7 DEF Fire, Move, Fault
<1>8. ASSUME NEW l \in Loops, FireEnds(l) PROVE TypeOK'
  BY <1>8 DEF FireEnds, Move, Fault
<1>9. ASSUME NEW l \in Loops, Settle(l) PROVE TypeOK'
  BY <1>9 DEF Settle, Move
<1>10. ASSUME NEW r \in Rows, BecomeDue(r) PROVE TypeOK'
  BY <1>10 DEF BecomeDue
<1>11. ASSUME NEW r \in Rows, Taken(r) PROVE TypeOK'
  BY <1>11 DEF Taken
<1>12. CASE QuotaChanges
  BY <1>12 DEF QuotaChanges
<1>13. CASE HoldEnds
  BY <1>13 DEF HoldEnds
<1>14. CASE UNCHANGED vars
  BY <1>14 DEF vars
<1> QED
  BY <1>1, <1>2, <1>3, <1>4, <1>5, <1>6, <1>7, <1>8, <1>9, <1>10, <1>11, <1>12, <1>13, <1>14
     DEF Next, LoopStep

\* One loop, known to active.
LEMMA OneLoopStep ==
    ASSUME TypeOK, OneLoop, [Next]_vars
    PROVE  OneLoop'
<1> USE LoopConstants DEF TypeOK, LoopState, fields, history
<1>1. CASE Start
  BY <1>1 DEF Start, Wake, Move, OneLoop
<1>2. CASE Stop
  BY <1>2 DEF Stop, OneLoop
<1>3. CASE ScheduleChanged
  BY <1>3 DEF ScheduleChanged, Wake, Move, OneLoop
<1>4. CASE LicenseRefreshed
  BY <1>4 DEF LicenseRefreshed, Wake, Move, OneLoop
<1>5. CASE TimerFires
  BY <1>5 DEF TimerFires, Wake, Move, OneLoop
<1>6. ASSUME NEW l \in Loops, Tick(l) PROVE OneLoop'
  BY <1>6 DEF Tick, Move, Fault, OneLoop
<1>7. ASSUME NEW l \in Loops, Fire(l) PROVE OneLoop'
  BY <1>7 DEF Fire, Move, Fault, OneLoop
<1>8. ASSUME NEW l \in Loops, FireEnds(l) PROVE OneLoop'
  BY <1>8 DEF FireEnds, Move, Fault, OneLoop
<1>9. ASSUME NEW l \in Loops, Settle(l) PROVE OneLoop'
  BY <1>9 DEF Settle, Move, OneLoop
<1>10. ASSUME NEW r \in Rows, BecomeDue(r) PROVE OneLoop'
  BY <1>10 DEF BecomeDue, OneLoop
<1>11. ASSUME NEW r \in Rows, Taken(r) PROVE OneLoop'
  BY <1>11 DEF Taken, OneLoop
<1>12. CASE QuotaChanges
  BY <1>12 DEF QuotaChanges, OneLoop
<1>13. CASE HoldEnds
  BY <1>13 DEF HoldEnds, OneLoop
<1>14. CASE UNCHANGED vars
  BY <1>14 DEF vars, OneLoop
<1> QED
  BY <1>1, <1>2, <1>3, <1>4, <1>5, <1>6, <1>7, <1>8, <1>9, <1>10, <1>11, <1>12, <1>13, <1>14
     DEF Next, LoopStep

\* Listed rows.
LEMMA BatchStep ==
    ASSUME TypeOK, OneLoop, BatchInTick, [Next]_vars
    PROVE  BatchInTick'
<1> USE LoopConstants DEF TypeOK, LoopState, fields, history
<1>1. CASE Start
  BY <1>1 DEF Start, Wake, Move, OneLoop, BatchInTick
<1>2. CASE Stop
  BY <1>2 DEF Stop, OneLoop, BatchInTick
<1>3. CASE ScheduleChanged
  BY <1>3 DEF ScheduleChanged, Wake, Move, OneLoop, BatchInTick
<1>4. CASE LicenseRefreshed
  BY <1>4 DEF LicenseRefreshed, Wake, Move, OneLoop, BatchInTick
<1>5. CASE TimerFires
  BY <1>5 DEF TimerFires, Wake, Move, OneLoop, BatchInTick
<1>6. ASSUME NEW l \in Loops, Tick(l) PROVE BatchInTick'
  BY <1>6 DEF Tick, Move, Fault, OneLoop, BatchInTick
<1>7. ASSUME NEW l \in Loops, Fire(l) PROVE BatchInTick'
  BY <1>7 DEF Fire, Move, Fault, OneLoop, BatchInTick
<1>8. ASSUME NEW l \in Loops, FireEnds(l) PROVE BatchInTick'
  BY <1>8 DEF FireEnds, Move, Fault, OneLoop, BatchInTick
<1>9. ASSUME NEW l \in Loops, Settle(l) PROVE BatchInTick'
  BY <1>9 DEF Settle, Move, OneLoop, BatchInTick
<1>10. ASSUME NEW r \in Rows, BecomeDue(r) PROVE BatchInTick'
  BY <1>10 DEF BecomeDue, OneLoop, BatchInTick
<1>11. ASSUME NEW r \in Rows, Taken(r) PROVE BatchInTick'
  BY <1>11 DEF Taken, OneLoop, BatchInTick
<1>12. CASE QuotaChanges
  BY <1>12 DEF QuotaChanges, OneLoop, BatchInTick
<1>13. CASE HoldEnds
  BY <1>13 DEF HoldEnds, OneLoop, BatchInTick
<1>14. CASE UNCHANGED vars
  BY <1>14 DEF vars, OneLoop, BatchInTick
<1> QED
  BY <1>1, <1>2, <1>3, <1>4, <1>5, <1>6, <1>7, <1>8, <1>9, <1>10, <1>11, <1>12, <1>13, <1>14
     DEF Next, LoopStep

\* The fields.
LEMMA FieldsStep ==
    ASSUME TypeOK, OneLoop, NeverDead, RerunOfActive, NoLostWake, [Next]_vars
    PROVE  NeverDead' /\ RerunOfActive' /\ NoLostWake'
<1> USE LoopConstants DEF TypeOK, LoopState, fields, history
<1>1. CASE Start
  BY <1>1 DEF Start, Wake, Move, OneLoop, NeverDead, RerunOfActive, NoLostWake
<1>2. CASE Stop
  BY <1>2 DEF Stop, OneLoop, NeverDead, RerunOfActive, NoLostWake
<1>3. CASE ScheduleChanged
  BY <1>3 DEF ScheduleChanged, Wake, Move, OneLoop, NeverDead, RerunOfActive, NoLostWake
<1>4. CASE LicenseRefreshed
  BY <1>4 DEF LicenseRefreshed, Wake, Move, OneLoop, NeverDead, RerunOfActive, NoLostWake
<1>5. CASE TimerFires
  BY <1>5 DEF TimerFires, Wake, Move, OneLoop, NeverDead, RerunOfActive, NoLostWake
<1>6. ASSUME NEW l \in Loops, Tick(l) PROVE NeverDead' /\ RerunOfActive' /\ NoLostWake'
  BY <1>6 DEF Tick, Move, Fault, OneLoop, NeverDead, RerunOfActive, NoLostWake
<1>7. ASSUME NEW l \in Loops, Fire(l) PROVE NeverDead' /\ RerunOfActive' /\ NoLostWake'
  BY <1>7 DEF Fire, Move, Fault, OneLoop, NeverDead, RerunOfActive, NoLostWake
<1>8. ASSUME NEW l \in Loops, FireEnds(l) PROVE NeverDead' /\ RerunOfActive' /\ NoLostWake'
  BY <1>8 DEF FireEnds, Move, Fault, OneLoop, NeverDead, RerunOfActive, NoLostWake
<1>9. ASSUME NEW l \in Loops, Settle(l) PROVE NeverDead' /\ RerunOfActive' /\ NoLostWake'
  BY <1>9 DEF Settle, Move, OneLoop, NeverDead, RerunOfActive, NoLostWake
<1>10. ASSUME NEW r \in Rows, BecomeDue(r) PROVE NeverDead' /\ RerunOfActive' /\ NoLostWake'
  BY <1>10 DEF BecomeDue, OneLoop, NeverDead, RerunOfActive, NoLostWake
<1>11. ASSUME NEW r \in Rows, Taken(r) PROVE NeverDead' /\ RerunOfActive' /\ NoLostWake'
  BY <1>11 DEF Taken, OneLoop, NeverDead, RerunOfActive, NoLostWake
<1>12. CASE QuotaChanges
  BY <1>12 DEF QuotaChanges, OneLoop, NeverDead, RerunOfActive, NoLostWake
<1>13. CASE HoldEnds
  BY <1>13 DEF HoldEnds, OneLoop, NeverDead, RerunOfActive, NoLostWake
<1>14. CASE UNCHANGED vars
  BY <1>14 DEF vars, OneLoop, NeverDead, RerunOfActive, NoLostWake
<1> QED
  BY <1>1, <1>2, <1>3, <1>4, <1>5, <1>6, <1>7, <1>8, <1>9, <1>10, <1>11, <1>12, <1>13, <1>14
     DEF Next, LoopStep

\* The quota hold.
LEMMA HoldStep ==
    ASSUME TypeOK, OneLoop, HoldIsIdle, [Next]_vars
    PROVE  HoldIsIdle'
<1> USE LoopConstants DEF TypeOK, LoopState, fields, history
<1>1. CASE Start
  BY <1>1 DEF Start, Wake, Move, OneLoop, HoldIsIdle
<1>2. CASE Stop
  BY <1>2 DEF Stop, OneLoop, HoldIsIdle
<1>3. CASE ScheduleChanged
  BY <1>3 DEF ScheduleChanged, Wake, Move, OneLoop, HoldIsIdle
<1>4. CASE LicenseRefreshed
  BY <1>4 DEF LicenseRefreshed, Wake, Move, OneLoop, HoldIsIdle
<1>5. CASE TimerFires
  BY <1>5 DEF TimerFires, Wake, Move, OneLoop, HoldIsIdle
<1>6. ASSUME NEW l \in Loops, Tick(l) PROVE HoldIsIdle'
  BY <1>6 DEF Tick, Move, Fault, OneLoop, HoldIsIdle
<1>7. ASSUME NEW l \in Loops, Fire(l) PROVE HoldIsIdle'
  BY <1>7 DEF Fire, Move, Fault, OneLoop, HoldIsIdle
<1>8. ASSUME NEW l \in Loops, FireEnds(l) PROVE HoldIsIdle'
  BY <1>8 DEF FireEnds, Move, Fault, OneLoop, HoldIsIdle
<1>9. ASSUME NEW l \in Loops, Settle(l) PROVE HoldIsIdle'
  BY <1>9 DEF Settle, Move, OneLoop, HoldIsIdle
<1>10. ASSUME NEW r \in Rows, BecomeDue(r) PROVE HoldIsIdle'
  BY <1>10 DEF BecomeDue, OneLoop, HoldIsIdle
<1>11. ASSUME NEW r \in Rows, Taken(r) PROVE HoldIsIdle'
  BY <1>11 DEF Taken, OneLoop, HoldIsIdle
<1>12. CASE QuotaChanges
  BY <1>12 DEF QuotaChanges, OneLoop, HoldIsIdle
<1>13. CASE HoldEnds
  BY <1>13 DEF HoldEnds, OneLoop, HoldIsIdle
<1>14. CASE UNCHANGED vars
  BY <1>14 DEF vars, OneLoop, HoldIsIdle
<1> QED
  BY <1>1, <1>2, <1>3, <1>4, <1>5, <1>6, <1>7, <1>8, <1>9, <1>10, <1>11, <1>12, <1>13, <1>14
     DEF Next, LoopStep

\* Stopping.
LEMMA QuietStep ==
    ASSUME TypeOK, OneLoop, NeverDead, QuietAfterStop, WaitsForActive, [Next]_vars
    PROVE  QuietAfterStop' /\ WaitsForActive'
<1> USE LoopConstants DEF TypeOK, LoopState, fields, history
<1>1. CASE Start
  BY <1>1 DEF Start, Wake, Move, OneLoop, NeverDead, QuietAfterStop, WaitsForActive
<1>2. CASE Stop
  BY <1>2 DEF Stop, OneLoop, NeverDead, QuietAfterStop, WaitsForActive
<1>3. CASE ScheduleChanged
  BY <1>3 DEF ScheduleChanged, Wake, Move, OneLoop, NeverDead, QuietAfterStop, WaitsForActive
<1>4. CASE LicenseRefreshed
  BY <1>4 DEF LicenseRefreshed, Wake, Move, OneLoop, NeverDead, QuietAfterStop, WaitsForActive
<1>5. CASE TimerFires
  BY <1>5 DEF TimerFires, Wake, Move, OneLoop, NeverDead, QuietAfterStop, WaitsForActive
<1>6. ASSUME NEW l \in Loops, Tick(l) PROVE QuietAfterStop' /\ WaitsForActive'
  BY <1>6 DEF Tick, Move, Fault, OneLoop, NeverDead, QuietAfterStop, WaitsForActive
<1>7. ASSUME NEW l \in Loops, Fire(l) PROVE QuietAfterStop' /\ WaitsForActive'
  BY <1>7 DEF Fire, Move, Fault, OneLoop, NeverDead, QuietAfterStop, WaitsForActive
<1>8. ASSUME NEW l \in Loops, FireEnds(l) PROVE QuietAfterStop' /\ WaitsForActive'
  BY <1>8 DEF FireEnds, Move, Fault, OneLoop, NeverDead, QuietAfterStop, WaitsForActive
<1>9. ASSUME NEW l \in Loops, Settle(l) PROVE QuietAfterStop' /\ WaitsForActive'
  BY <1>9 DEF Settle, Move, OneLoop, NeverDead, QuietAfterStop, WaitsForActive
<1>10. ASSUME NEW r \in Rows, BecomeDue(r) PROVE QuietAfterStop' /\ WaitsForActive'
  BY <1>10 DEF BecomeDue, OneLoop, NeverDead, QuietAfterStop, WaitsForActive
<1>11. ASSUME NEW r \in Rows, Taken(r) PROVE QuietAfterStop' /\ WaitsForActive'
  BY <1>11 DEF Taken, OneLoop, NeverDead, QuietAfterStop, WaitsForActive
<1>12. CASE QuotaChanges
  BY <1>12 DEF QuotaChanges, OneLoop, NeverDead, QuietAfterStop, WaitsForActive
<1>13. CASE HoldEnds
  BY <1>13 DEF HoldEnds, OneLoop, NeverDead, QuietAfterStop, WaitsForActive
<1>14. CASE UNCHANGED vars
  BY <1>14 DEF vars, OneLoop, NeverDead, QuietAfterStop, WaitsForActive
<1> QED
  BY <1>1, <1>2, <1>3, <1>4, <1>5, <1>6, <1>7, <1>8, <1>9, <1>10, <1>11, <1>12, <1>13, <1>14
     DEF Next, LoopStep

\* Stopping lets the delivery at hand finish and begins no other.
BeginsNothing == ~running => \A l \in Loops : loop'[l] = "firing" => loop[l] = "firing"

\* No fire begins.
LEMMA StopStep ==
    ASSUME TypeOK, [Next]_vars
    PROVE  BeginsNothing
<1> USE LoopConstants DEF TypeOK, LoopState, fields, history
<1>1. CASE Start
  BY <1>1 DEF Start, Wake, Move, BeginsNothing
<1>2. CASE Stop
  BY <1>2 DEF Stop, BeginsNothing
<1>3. CASE ScheduleChanged
  BY <1>3 DEF ScheduleChanged, Wake, Move, BeginsNothing
<1>4. CASE LicenseRefreshed
  BY <1>4 DEF LicenseRefreshed, Wake, Move, BeginsNothing
<1>5. CASE TimerFires
  BY <1>5 DEF TimerFires, Wake, Move, BeginsNothing
<1>6. ASSUME NEW l \in Loops, Tick(l) PROVE BeginsNothing
  BY <1>6 DEF Tick, Move, Fault, BeginsNothing
<1>7. ASSUME NEW l \in Loops, Fire(l) PROVE BeginsNothing
  BY <1>7 DEF Fire, Move, Fault, BeginsNothing
<1>8. ASSUME NEW l \in Loops, FireEnds(l) PROVE BeginsNothing
  BY <1>8 DEF FireEnds, Move, Fault, BeginsNothing
<1>9. ASSUME NEW l \in Loops, Settle(l) PROVE BeginsNothing
  BY <1>9 DEF Settle, Move, BeginsNothing
<1>10. ASSUME NEW r \in Rows, BecomeDue(r) PROVE BeginsNothing
  BY <1>10 DEF BecomeDue, BeginsNothing
<1>11. ASSUME NEW r \in Rows, Taken(r) PROVE BeginsNothing
  BY <1>11 DEF Taken, BeginsNothing
<1>12. CASE QuotaChanges
  BY <1>12 DEF QuotaChanges, BeginsNothing
<1>13. CASE HoldEnds
  BY <1>13 DEF HoldEnds, BeginsNothing
<1>14. CASE UNCHANGED vars
  BY <1>14 DEF vars, BeginsNothing
<1> QED
  BY <1>1, <1>2, <1>3, <1>4, <1>5, <1>6, <1>7, <1>8, <1>9, <1>10, <1>11, <1>12, <1>13, <1>14
     DEF Next, LoopStep

\* The invariant holds in every reachable state.
THEOREM LoopInvariance == Spec => []LoopInv
<1>1. LoopInv /\ [Next]_vars => LoopInv'
  BY TypeStep, OneLoopStep, BatchStep, FieldsStep, HoldStep, QuietStep DEF LoopInv
<1> QED BY InitLoopInv, <1>1, PTL DEF Spec

\* Two fires of one process never overlap: every loop that is not over is the active one.
THEOREM LoopsAreOne == Spec => []OneLoop
  BY LoopInvariance, PTL DEF LoopInv

\* A running scheduler always has a loop at work or a timer armed, and never both.
THEOREM LoopNeverDies == Spec => []NeverDead
  BY LoopInvariance, PTL DEF LoopInv

\* No wake() is slept on.
THEOREM WakesAreServed == Spec => []NoLostWake
  BY LoopInvariance, PTL DEF LoopInv

\* A stop() that returned leaves nothing behind.
THEOREM StopIsQuiet == Spec => []QuietAfterStop
  BY LoopInvariance, PTL DEF LoopInv

\* Nothing is fired during a quota hold.
THEOREM HoldsAreIdle == Spec => []HoldIsIdle
  BY LoopInvariance, PTL DEF LoopInv

\* A stopped scheduler begins no delivery.
THEOREM StoppedStaysStopped == Spec => StopBeginsNothing
<1>1. LoopInv /\ [Next]_vars => BeginsNothing
  BY StopStep DEF LoopInv
<1> QED BY LoopInvariance, <1>1, PTL DEF Spec, StopBeginsNothing, BeginsNothing

----------------------------------------------------------------------------
\* The scheduler keeps the promise of SchedulerPromise.

\* A loop that is not firing becomes firing when it fires a row, and no other step makes it so.
LEMMA FiringIs ==
    ASSUME TypeOK, OneLoop
    PROVE  Firing <=> active # None /\ loop[active] = "firing"
<1>1. ASSUME NEW l \in Loops, loop[l] = "firing" PROVE active = l
  BY <1>1 DEF OneLoop
<1>2. active # None => active \in Loops
  BY DEF TypeOK
<1> QED BY <1>1, <1>2, LoopConstants DEF Firing

\* While a delivery is under way it is the only one, and the loop is waited for.
LEMMA SchedulerStepKeepsPromise ==
    ASSUME LoopInv, LoopInv', [Next]_vars
    PROVE  [AsScheduler!Next]_<<running, Firing, returned>>
<1>0. TypeOK /\ OneLoop /\ TypeOK' /\ OneLoop' /\ QuietAfterStop /\ WaitsForActive /\ HoldIsIdle
  BY DEF LoopInv
<1> USE LoopConstants DEF fields, history
<1> DEFINE Kept == /\ running' = running /\ returned' = returned /\ Firing' = Firing
<1>k. Kept => [AsScheduler!Next]_<<running, Firing, returned>>
  OBVIOUS
\* A wake() moves a free loop to its tick, and no loop to or from a fire.
<1>w. ASSUME Wake PROVE Firing' = Firing
  <2>1. \A l \in Loops : loop'[l] = "firing" <=> loop[l] = "firing"
    BY <1>0, <1>w DEF Wake, Move, TypeOK
  <2> QED BY <2>1 DEF Firing
<1>1. CASE Start
  <2>1. AsScheduler!Start
    BY <1>w, <1>1 DEF Start, AsScheduler!Start
  <2> QED BY <2>1 DEF AsScheduler!Next
<1>2. CASE Stop
  <2>1. Firing' = Firing
    BY <1>2 DEF Stop, Firing
  <2>2. active = None => ~Firing
    BY <1>0, FiringIs
  <2>3. AsScheduler!Stop
    BY <1>2, <2>1, <2>2 DEF Stop, AsScheduler!Stop
  <2> QED BY <2>3 DEF AsScheduler!Next
<1>3. CASE ScheduleChanged \/ TimerFires
  <2>1. Kept
    BY <1>w, <1>3 DEF ScheduleChanged, TimerFires
  <2> QED BY <1>k, <2>1
<1>4. CASE LicenseRefreshed
  <2>1. running' = running /\ returned' = returned
    BY <1>4 DEF LicenseRefreshed
  <2>2. Firing' = Firing
    BY <1>w, <1>4 DEF LicenseRefreshed, Firing
  <2> QED BY <1>k, <2>1, <2>2
<1>5. ASSUME NEW l \in Loops, Tick(l) PROVE Kept
  <2>1. running' = running /\ returned' = returned
    BY <1>5 DEF Tick
  <2>2. \A x \in Loops : loop'[x] = "firing" <=> loop[x] = "firing"
    BY <1>0, <1>5 DEF Tick, Move, TypeOK
  <2> QED BY <2>1, <2>2 DEF Firing
<1>6. ASSUME NEW l \in Loops, Fire(l) PROVE [AsScheduler!Next]_<<running, Firing, returned>>
  <2>1. running' = running /\ returned' = returned
    BY <1>6 DEF Fire
  <2>2. loop[l] = "next" /\ ~Firing
    BY <1>0, <1>6, FiringIs DEF Fire, Move, OneLoop
  <2>3. CASE loop'[l] = "firing"
    <3>1. running
      BY <1>6, <2>3, <1>0 DEF Fire, Move, TypeOK
    <3>2. Firing'
      BY <2>3 DEF Firing
    <3>3. AsScheduler!Begin
      BY <2>1, <2>2, <3>1, <3>2 DEF AsScheduler!Begin, Firing
    <3> QED BY <3>3 DEF AsScheduler!Next
  <2>4. CASE loop'[l] # "firing"
    <3>1. \A x \in Loops : loop'[x] = "firing" => loop[x] = "firing"
      BY <1>0, <1>6, <2>4 DEF Fire, Move, TypeOK
    <3> QED BY <2>1, <2>2, <3>1, <1>k DEF Firing
  <2> QED BY <2>3, <2>4
<1>7. ASSUME NEW l \in Loops, FireEnds(l) PROVE [AsScheduler!Next]_<<running, Firing, returned>>
  <2>1. running' = running /\ returned' = returned /\ loop[l] = "firing"
    BY <1>7 DEF FireEnds, Move
  <2>2. active = l /\ active' = l /\ loop'[l] # "firing"
    BY <1>0, <1>7, <2>1 DEF FireEnds, Move, OneLoop, TypeOK
  <2>3. Firing /\ ~Firing'
    BY <1>0, <2>1, <2>2 DEF Firing, OneLoop
  <2>4. AsScheduler!End
    BY <2>1, <2>3 DEF AsScheduler!End
  <2> QED BY <2>4 DEF AsScheduler!Next
<1>8. ASSUME NEW l \in Loops, Settle(l) PROVE [AsScheduler!Next]_<<running, Firing, returned>>
  <2>1. running' = running /\ loop[l] = "settling" /\ returned' = (returned \/ l \in waited)
    BY <1>8 DEF Settle, Move
  <2>2. active = l /\ ~Firing
    BY <1>0, <2>1, FiringIs DEF OneLoop
  <2>3. \A x \in Loops : loop'[x] = "firing" => loop[x] = "firing"
    BY <1>0, <1>8 DEF Settle, Move, TypeOK
  <2>4. ~Firing'
    BY <2>2, <2>3 DEF Firing
  <2>f. Firing' = Firing
    BY <2>2, <2>4 DEF Firing
  <2>5. CASE l \in waited
    <3>1. running = FALSE
      BY <1>0, <2>5 DEF WaitsForActive, TypeOK
    <3>2. AsScheduler!Stop
      <4>1. running' = FALSE /\ returned' = TRUE
        BY <2>1, <2>5, <3>1, <1>0 DEF TypeOK
      <4> QED BY <2>2, <2>f, <4>1 DEF AsScheduler!Stop
    <3> QED BY <3>2 DEF AsScheduler!Next
  <2>6. CASE l \notin waited
    <3>1. returned' = returned
      BY <1>0, <2>1, <2>6 DEF TypeOK
    <3> QED BY <2>1, <2>f, <3>1, <1>k
  <2> QED BY <2>5, <2>6
<1>9. CASE (\E r \in Rows : BecomeDue(r) \/ Taken(r)) \/ QuotaChanges \/ HoldEnds \/ UNCHANGED vars
  <2>1. Kept
    BY <1>9 DEF BecomeDue, Taken, QuotaChanges, HoldEnds, vars, Firing
  <2> QED BY <1>k, <2>1
<1> QED BY <1>1, <1>2, <1>3, <1>4, <1>5, <1>6, <1>7, <1>8, <1>9, <1>k DEF Next, LoopStep

\* A process that runs a scheduler may rely on SchedulerPromise: one delivery at a time,
\* none begun after a stop(), none left when a stop() has returned.
THEOREM SchedulerKeepsPromise == Spec => KeepsSchedulerPromise
<1>1. Init => AsScheduler!Init
  BY LoopConstants DEF Init, AsScheduler!Init, Firing
<1>2. LoopInv /\ LoopInv' /\ [Next]_vars => [AsScheduler!Next]_<<running, Firing, returned>>
  BY SchedulerStepKeepsPromise
<1> QED BY <1>1, <1>2, LoopInvariance, PTL DEF Spec, KeepsSchedulerPromise, AsScheduler!Spec, AsScheduler!promiseVars
=============================================================================
