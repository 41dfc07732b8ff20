--------------------------- MODULE SchedulerPromise ---------------------------
(***************************************************************************)
(* What a process relies on that runs a send scheduler: it delivers one    *)
(* row at a time, begins a delivery only between a start() and the next    *)
(* stop(), and a stop() returns when no delivery is left, so that the      *)
(* store may be closed.                                                    *)
(***************************************************************************)
VARIABLES on,          \* start() was called, and no stop() since
          delivering,  \* a delivery is under way
          quiet        \* a stop() has returned since the last start()

promiseVars == <<on, delivering, quiet>>

Init == on = FALSE /\ delivering = FALSE /\ quiet = FALSE

Start ==
    /\ ~on
    /\ on' = TRUE /\ quiet' = FALSE
    /\ UNCHANGED delivering

\* stop() is called, or returns; the delivery at hand goes on.
Stop ==
    /\ on' = FALSE
    /\ \/ quiet' = quiet
       \/ ~delivering /\ quiet' = TRUE
    /\ UNCHANGED delivering

Begin ==
    /\ on /\ ~delivering
    /\ delivering' = TRUE
    /\ UNCHANGED <<on, quiet>>

End ==
    /\ delivering
    /\ delivering' = FALSE
    /\ UNCHANGED <<on, quiet>>

Next == Start \/ Stop \/ Begin \/ End

Spec == Init /\ [][Next]_promiseVars
=============================================================================
