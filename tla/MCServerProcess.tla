-------------------------- MODULE MCServerProcess --------------------------
(***************************************************************************)
(* A server process on small sets, seen from two sides that share no       *)
(* variable: the loop of its send scheduler, statement by statement, and   *)
(* its life from start to end, where that loop is asleep or in the middle  *)
(* of a delivery.  `side', chosen at the start, takes the steps; the other *)
(* one waits to be started, so that no fairness asks anything of it.       *)
(* The scheduler has two identities, so that a second loop could come to   *)
(* life, and two rows, so that a tick has a next one to fire.  The process *)
(* has two license keys, two administrative calls, one of which may be a   *)
(* change made by another process, and a request on a mailbox: enough for  *)
(* a call, a refresh, a delivery and a request to be under way together    *)
(* when close() begins.                                                    *)
(***************************************************************************)
EXTENDS SendScheduler, RuntimeLifecycle

VARIABLE side

processVars == <<side, vars, lifecycleVars>>

ProcessInit ==
    /\ side \in {"loop", "life"}
    /\ Init /\ LifecycleInit
    /\ side # "loop" => quota /\ due = {}
    /\ side # "life" => key = NoKey /\ lease = NoKey

LoopSide == side = "loop" /\ Next /\ UNCHANGED <<side, lifecycleVars>>
LifeSide == side = "life" /\ LifecycleNext /\ UNCHANGED <<side, vars>>

\* A process that was killed, or is closed, may take no step; any other has one to take.
Over == side = "life" /\ (terminated \/ closing = "closed") /\ UNCHANGED processVars

ProcessNext == LoopSide \/ LifeSide \/ Over

ProcessSpec == ProcessInit /\ [][ProcessNext]_processVars /\ Fairness /\ LifecycleFairness
============================================================================
