---------------------- MODULE ScheduledDelivery_proofs ----------------------
(***************************************************************************)
(* Proofs about ScheduledDelivery, for any number of workers, clients,     *)
(* schedules, drafts, retries and faults.                                  *)
(*                                                                         *)
(* The inductive invariant comes in layers. TypeOK and Consistent tie the  *)
(* frames of the workers and the calls of the clients to the two tables;   *)
(* they prove each other's steps and need nothing else. Delivery, proved   *)
(* on top of them, says what the operations may tell once a message has    *)
(* left. On it rest what a row that failed or was sent says, which holds   *)
(* even when statements of the store fail (FaultyInv), and what a row that *)
(* was put back says, which does not (IInv). The safety properties, the    *)
(* action property and the refinement are read off these.                  *)
(***************************************************************************)
EXTENDS ScheduledDelivery, TLAPS

\* A write under the claim keeps the columns it touches in their types.
LEMMA ReleaseTypes ==
    ASSUME RowsTyped, NEW w \in Workers, NEW status \in SchedStatus, Release(w, status)
    PROVE  /\ sched' \in [Schedules -> SchedStatus]
           /\ owner' \in [Schedules -> Workers \cup {None}]
           /\ live' \in [Schedules -> BOOLEAN]
  BY DEF RowsTyped, Release

\* Every step keeps the types: the only values a step reads from a frame and stores in a table
\* are a verdict and an operation, and the frames vouch for those.
LEMMA TypeStep == ASSUME TypeOK, Consistent, [Next]_vars PROVE TypeOK'
<1> USE ConstantsOK DEF Goto, CallGoto, rows, ops, frames, calls, provider
<1> /\ RowsTyped /\ OpsTyped /\ FramesTyped /\ CallsTyped /\ ProviderTyped /\ faults \in Nat
    /\ BusyHasRow /\ HoldsLinkedOp /\ ResultsGiven /\ LinkedLast
  BY DEF TypeOK, Consistent
<1>1. ASSUME NEW w \in Workers, NEW s \in Schedules, Claim(w, s) PROVE TypeOK'
  BY <1>1 DEF Claim, Claimable, RowsTyped, SchedStatus, OpsTyped, OpStatus, Ops, FramesTyped,
     WorkerPC, Verdicts, CallsTyped, ClientPC, ProviderTyped, Fault, TypeOK
<1>2. ASSUME NEW w \in Workers, Confirm(w) PROVE TypeOK'
  <2>1. RowsTyped'
    BY <1>2 DEF Confirm, Owns, Disowned, Return, DropFrame, RowsTyped, SchedStatus
  <2>2. FramesTyped'
    BY <1>2 DEF Confirm, Owns, Disowned, Return, DropFrame, FramesTyped, OpsTyped, WorkerPC,
       Verdicts
  <2>3. (OpsTyped /\ CallsTyped /\ ProviderTyped /\ faults \in Nat)'
    BY <1>2 DEF Confirm, Owns, Disowned, Return, DropFrame, OpsTyped, OpStatus, Ops, CallsTyped,
       ClientPC, ProviderTyped, Fault
  <2> QED BY <2>1, <2>2, <2>3 DEF TypeOK
<1>3. ASSUME NEW w \in Workers, Lookup(w) PROVE TypeOK'
  <2>1. (RowsTyped /\ FramesTyped)'
    BY <1>3 DEF Lookup, Linked, RowsTyped, SchedStatus, FramesTyped, OpsTyped, WorkerPC,
       Verdicts
  <2>2. (OpsTyped /\ CallsTyped)'
    BY <1>3 DEF Lookup, Linked, OpsTyped, OpStatus, Ops, CallsTyped, ClientPC
  <2>3. (ProviderTyped /\ faults \in Nat)'
    BY <1>3 DEF Lookup, Linked, ProviderTyped, Fault
  <2> QED BY <2>1, <2>2, <2>3 DEF TypeOK
<1>4. ASSUME NEW w \in Workers, InsertOp(w) PROVE TypeOK'
  <2>1. OpsTyped'
    <3>1. job[w] \in Schedules /\ job[w] \in Ops
      BY <1>4 DEF InsertOp, BusyHasRow, FramesTyped, Ops
    <3> QED BY <1>4, <3>1 DEF InsertOp, OpsTyped, OpStatus
  <2>2. (RowsTyped /\ FramesTyped)'
    BY <1>4 DEF InsertOp, Linked, RowsTyped, SchedStatus, FramesTyped, OpsTyped, WorkerPC,
       Verdicts
  <2>3. (CallsTyped /\ ProviderTyped /\ faults \in Nat)'
    BY <1>4 DEF InsertOp, Linked, CallsTyped, ClientPC, ProviderTyped, Fault
  <2> QED BY <2>1, <2>2, <2>3 DEF TypeOK
<1>5. ASSUME NEW w \in Workers, MarkOp(w) PROVE TypeOK'
  BY <1>5 DEF MarkOp, RowsTyped, SchedStatus, OpsTyped, OpStatus, Ops, FramesTyped, WorkerPC,
     Verdicts, CallsTyped, ClientPC, ProviderTyped, Fault, TypeOK
<1>6. ASSUME NEW w \in Workers, Preflight(w) PROVE TypeOK'
  BY <1>6 DEF Preflight, RowsTyped, SchedStatus, OpsTyped, OpStatus, Ops, FramesTyped, WorkerPC,
     Verdicts, CallsTyped, ClientPC, ProviderTyped, Fault, TypeOK
<1>7. ASSUME NEW w \in Workers, RejectOp(w) PROVE TypeOK'
  BY <1>7 DEF RejectOp, RowsTyped, SchedStatus, OpsTyped, OpStatus, Ops, FramesTyped, WorkerPC,
     Verdicts, CallsTyped, ClientPC, ProviderTyped, Fault, TypeOK
<1>8. ASSUME NEW w \in Workers, Check(w) PROVE TypeOK'
  <2>1. RowsTyped'
    BY <1>8 DEF Check, Owns, Disowned, Return, DropFrame, RowsTyped, SchedStatus
  <2>2. FramesTyped'
    BY <1>8 DEF Check, Owns, Disowned, Return, DropFrame, FramesTyped, OpsTyped, WorkerPC,
       Verdicts
  <2>3. (OpsTyped /\ CallsTyped /\ ProviderTyped /\ faults \in Nat)'
    BY <1>8 DEF Check, Owns, Disowned, Return, DropFrame, OpsTyped, OpStatus, Ops, CallsTyped,
       ClientPC, ProviderTyped, Fault
  <2> QED BY <2>1, <2>2, <2>3 DEF TypeOK
<1>9. ASSUME NEW w \in Workers, Dispatch(w) PROVE TypeOK'
  <2>1. OpsTyped'
    BY <1>9 DEF Dispatch, OpsTyped, OpStatus, Ops
  <2>2. (RowsTyped /\ FramesTyped)'
    BY <1>9 DEF Dispatch, RowsTyped, SchedStatus, FramesTyped, OpsTyped, WorkerPC, Verdicts
  <2>3. (CallsTyped /\ ProviderTyped /\ faults \in Nat)'
    BY <1>9 DEF Dispatch, CallsTyped, ClientPC, ProviderTyped, Fault
  <2> QED BY <2>1, <2>2, <2>3 DEF TypeOK
<1>10. ASSUME NEW w \in Workers, Connect(w) PROVE TypeOK'
  <2>1. RowsTyped'
    BY <1>10 DEF Connect, Owns, Disowned, RowsTyped, SchedStatus
  <2>2. FramesTyped'
    <3>1. pc' \in [Workers -> WorkerPC] /\ lost' \in [Workers -> BOOLEAN]
      BY <1>10 DEF Connect, FramesTyped, WorkerPC
    <3>2. verdict' \in [Workers -> Verdicts \cup {None}]
      BY <1>10 DEF Connect, FramesTyped, Verdicts
    <3> QED BY <1>10, <3>1, <3>2 DEF Connect, FramesTyped
  <2>3. (OpsTyped /\ CallsTyped /\ ProviderTyped /\ faults \in Nat)'
    BY <1>10 DEF Connect, Owns, Disowned, OpsTyped, OpStatus, Ops, CallsTyped, ClientPC,
       ProviderTyped, Fault
  <2> QED BY <2>1, <2>2, <2>3 DEF TypeOK
<1>11. ASSUME NEW w \in Workers, ProviderAccepts(w) PROVE TypeOK'
  <2>1. ProviderTyped'
    <3>1. job[w] \in Schedules /\ accepted[job[w]] + 1 \in Nat
      BY <1>11 DEF ProviderAccepts, BusyHasRow, FramesTyped, ProviderTyped
    <3>2. accepted' \in [Schedules -> Nat]
      BY <1>11, <3>1 DEF ProviderAccepts, ProviderTyped
    <3>3. exists' \in [Drafts -> BOOLEAN]
      BY <1>11 DEF ProviderAccepts, ProviderTyped
    <3> QED BY <1>11, <3>2, <3>3 DEF ProviderAccepts, ProviderTyped
  <2>2. (RowsTyped /\ FramesTyped)'
    BY <1>11 DEF ProviderAccepts, RowsTyped, SchedStatus, FramesTyped, OpsTyped, WorkerPC,
       Verdicts
  <2>3. (OpsTyped /\ CallsTyped)'
    BY <1>11 DEF ProviderAccepts, OpsTyped, OpStatus, Ops, CallsTyped, ClientPC
  <2>4. (faults \in Nat)'
    BY <1>11 DEF ProviderAccepts, Fault
  <2> QED BY <2>1, <2>2, <2>3, <2>4 DEF TypeOK
<1>12. ASSUME NEW w \in Workers, ProviderRefuses(w) PROVE TypeOK'
  BY <1>12 DEF ProviderRefuses, RowsTyped, SchedStatus, OpsTyped, OpStatus, Ops, FramesTyped,
     WorkerPC, Verdicts, CallsTyped, ClientPC, ProviderTyped, Fault, TypeOK
<1>13. ASSUME NEW w \in Workers, Supersede(w) PROVE TypeOK'
  <2>1. (RowsTyped /\ FramesTyped)'
    BY <1>13 DEF Supersede, PendingFor, RowsTyped, SchedStatus, FramesTyped, OpsTyped, WorkerPC,
       Verdicts
  <2>2. (OpsTyped /\ CallsTyped)'
    BY <1>13 DEF Supersede, PendingFor, OpsTyped, OpStatus, Ops, CallsTyped, ClientPC
  <2>3. (ProviderTyped /\ faults \in Nat)'
    BY <1>13 DEF Supersede, PendingFor, ProviderTyped, Fault
  <2> QED BY <2>1, <2>2, <2>3 DEF TypeOK
<1>14. ASSUME NEW w \in Workers, MarkOther(w) PROVE TypeOK'
  BY <1>14 DEF MarkOther, RowsTyped, SchedStatus, OpsTyped, OpStatus, Ops, FramesTyped,
     WorkerPC, Verdicts, CallsTyped, ClientPC, ProviderTyped, Fault, TypeOK
<1>15. ASSUME NEW w \in Workers, Finish(w) PROVE TypeOK'
  <2>1. OpsTyped'
    <3>1. verdict[w] \in Verdicts /\ wop[w] \in Ops
      BY <1>15 DEF Finish, ResultsGiven, HoldsLinkedOp, HasOp
    <3>2. opStatus' \in [Ops -> OpStatus]
      BY <1>15, <3>1 DEF Finish, OpsTyped, OpStatus, Verdicts
    <3> QED BY <1>15, <3>2 DEF Finish, OpsTyped
  <2>2. (RowsTyped /\ FramesTyped)'
    BY <1>15 DEF Finish, RowsTyped, SchedStatus, FramesTyped, OpsTyped, WorkerPC, Verdicts
  <2>3. (CallsTyped /\ ProviderTyped /\ faults \in Nat)'
    BY <1>15 DEF Finish, CallsTyped, ClientPC, ProviderTyped, Fault
  <2> QED BY <2>1, <2>2, <2>3 DEF TypeOK
<1>16. ASSUME NEW w \in Workers, Reread(w) PROVE TypeOK'
  BY <1>16 DEF Reread, RowsTyped, SchedStatus, OpsTyped, OpStatus, Ops, FramesTyped, WorkerPC,
     Verdicts, CallsTyped, ClientPC, ProviderTyped, Fault, TypeOK, HoldsLinkedOp, HasOp
<1>17. ASSUME NEW w \in Workers, Record(w) PROVE TypeOK'
  <2>1. RowsTyped'
    BY <1>17, ReleaseTypes DEF Record, RowsTyped, SchedStatus
  <2>2. FramesTyped'
    BY <1>17 DEF Record, Return, DropFrame, Release, HoldsClaim, FramesTyped, OpsTyped,
       WorkerPC, Verdicts
  <2>3. (OpsTyped /\ CallsTyped /\ ProviderTyped /\ faults \in Nat)'
    BY <1>17 DEF Record, Return, DropFrame, Release, HoldsClaim, OpsTyped, OpStatus, Ops,
       CallsTyped, ClientPC, ProviderTyped, Fault
  <2> QED BY <2>1, <2>2, <2>3 DEF TypeOK
<1>18. ASSUME NEW w \in Workers, Fail(w) PROVE TypeOK'
  <2>1. RowsTyped'
    BY <1>18, ReleaseTypes DEF Fail, RowsTyped, SchedStatus
  <2>2. FramesTyped'
    BY <1>18 DEF Fail, Return, DropFrame, Release, HoldsClaim, FramesTyped, OpsTyped, WorkerPC,
       Verdicts
  <2>3. (OpsTyped /\ CallsTyped /\ ProviderTyped /\ faults \in Nat)'
    BY <1>18 DEF Fail, Return, DropFrame, Release, HoldsClaim, OpsTyped, OpStatus, Ops,
       CallsTyped, ClientPC, ProviderTyped, Fault
  <2> QED BY <2>1, <2>2, <2>3 DEF TypeOK
<1>19. ASSUME NEW w \in Workers, Retry(w) PROVE TypeOK'
  <2>1. RowsTyped'
    <3>1. due' \in [Schedules -> BOOLEAN]
      BY <1>19 DEF Retry, RowsTyped
    <3>2. attempts' \in [Schedules -> Nat]
      BY <1>19 DEF Retry, RowsTyped
    <3> QED BY <1>19, <3>1, <3>2, ReleaseTypes DEF Retry, RowsTyped, SchedStatus
  <2>2. FramesTyped'
    BY <1>19 DEF Retry, Return, DropFrame, Release, HoldsClaim, FramesTyped, OpsTyped, WorkerPC,
       Verdicts
  <2>3. (OpsTyped /\ CallsTyped /\ ProviderTyped /\ faults \in Nat)'
    BY <1>19 DEF Retry, Return, DropFrame, Release, HoldsClaim, OpsTyped, OpStatus, Ops,
       CallsTyped, ClientPC, ProviderTyped, Fault
  <2> QED BY <2>1, <2>2, <2>3 DEF TypeOK
<1>20. ASSUME NEW w \in Workers, Heartbeat(w) PROVE TypeOK'
  <2>1. (RowsTyped /\ FramesTyped)'
    BY <1>20 DEF Heartbeat, Owns, Disowned, RowsTyped, SchedStatus, FramesTyped, OpsTyped,
       WorkerPC, Verdicts
  <2>2. (OpsTyped /\ CallsTyped /\ ProviderTyped /\ faults \in Nat)'
    BY <1>20 DEF Heartbeat, Owns, Disowned, OpsTyped, OpStatus, Ops, CallsTyped, ClientPC,
       ProviderTyped, Fault
  <2> QED BY <2>1, <2>2 DEF TypeOK
<1>21. ASSUME NEW w \in Workers, Crash(w) PROVE TypeOK'
  BY <1>21 DEF Crash, DropFrame, RowsTyped, SchedStatus, OpsTyped, OpStatus, Ops, FramesTyped,
     WorkerPC, Verdicts, CallsTyped, ClientPC, ProviderTyped, Fault, TypeOK
<1>22. ASSUME NEW c \in Clients, FetchDraft(c) PROVE TypeOK'
  <2>1. (RowsTyped /\ FramesTyped)'
    BY <1>22 DEF FetchDraft, RowsTyped, SchedStatus, FramesTyped, OpsTyped, WorkerPC, Verdicts
  <2>2. (OpsTyped /\ CallsTyped /\ ProviderTyped /\ faults \in Nat)'
    BY <1>22 DEF FetchDraft, OpsTyped, OpStatus, Ops, CallsTyped, ClientPC, ProviderTyped, Fault
  <2> QED BY <2>1, <2>2 DEF TypeOK
<1>23. ASSUME NEW c \in Clients, InsertRow(c) PROVE TypeOK'
  <2>1. RowsTyped'
    <3>1. cdraft[c] \in Drafts
      BY <1>23 DEF InsertRow, LinkedLast
    <3> QED BY <1>23, <3>1 DEF InsertRow, RowsTyped, SchedStatus
  <2>2. FramesTyped'
    BY <1>23 DEF InsertRow, PendingFor, FramesTyped, OpsTyped, WorkerPC, Verdicts
  <2>3. (OpsTyped /\ CallsTyped /\ ProviderTyped /\ faults \in Nat)'
    BY <1>23 DEF InsertRow, PendingFor, OpsTyped, OpStatus, Ops, CallsTyped, ClientPC,
       ProviderTyped, Fault
  <2> QED BY <2>1, <2>2, <2>3 DEF TypeOK
<1>24. ASSUME NEW c \in Clients, Link(c) PROVE TypeOK'
  <2>1. OpsTyped'
    <3>1. cjob[c] \in Schedules /\ c \in Ops
      BY <1>24 DEF Link, LinkedLast, Ops
    <3> QED BY <1>24, <3>1 DEF Link, OpsTyped, OpStatus
  <2>2. (RowsTyped /\ FramesTyped)'
    BY <1>24 DEF Link, Linked, RowsTyped, SchedStatus, FramesTyped, OpsTyped, WorkerPC, Verdicts
  <2>3. (CallsTyped /\ ProviderTyped /\ faults \in Nat)'
    BY <1>24 DEF Link, Linked, CallsTyped, ClientPC, ProviderTyped, Fault
  <2> QED BY <2>1, <2>2, <2>3 DEF TypeOK
<1>25. ASSUME NEW c \in Clients, CancelOp(c) PROVE TypeOK'
  BY <1>25 DEF CancelOp, RowsTyped, SchedStatus, OpsTyped, OpStatus, Ops, FramesTyped, WorkerPC,
     Verdicts, CallsTyped, ClientPC, ProviderTyped, Fault, TypeOK
<1>26. ASSUME NEW c \in Clients, SendNow(c) PROVE TypeOK'
  <2>1. (RowsTyped /\ FramesTyped)'
    BY <1>26 DEF SendNow, RowsTyped, SchedStatus, FramesTyped, OpsTyped, WorkerPC, Verdicts
  <2>2. (OpsTyped /\ CallsTyped)'
    BY <1>26 DEF SendNow, OpsTyped, OpStatus, Ops, CallsTyped, ClientPC
  <2>3. (ProviderTyped /\ faults \in Nat)'
    BY <1>26 DEF SendNow, ProviderTyped, Fault
  <2> QED BY <2>1, <2>2, <2>3 DEF TypeOK
<1>27. ASSUME NEW c \in Clients, FindSuperseded(c) PROVE TypeOK'
  <2>1. (RowsTyped /\ FramesTyped)'
    BY <1>27 DEF FindSuperseded, PendingFor, RowsTyped, SchedStatus, FramesTyped, OpsTyped,
       WorkerPC, Verdicts
  <2>2. (OpsTyped /\ CallsTyped /\ ProviderTyped /\ faults \in Nat)'
    BY <1>27 DEF FindSuperseded, PendingFor, OpsTyped, OpStatus, Ops, CallsTyped, ClientPC,
       ProviderTyped, Fault
  <2> QED BY <2>1, <2>2 DEF TypeOK
<1>28. ASSUME NEW c \in Clients, MarkSuperseded(c) PROVE TypeOK'
  BY <1>28 DEF MarkSuperseded, RowsTyped, SchedStatus, OpsTyped, OpStatus, Ops, FramesTyped,
     WorkerPC, Verdicts, CallsTyped, ClientPC, ProviderTyped, Fault, TypeOK
<1>29. ASSUME NEW c \in Clients, ClientCrash(c) PROVE TypeOK'
  BY <1>29 DEF ClientCrash, RowsTyped, SchedStatus, OpsTyped, OpStatus, Ops, FramesTyped,
     WorkerPC, Verdicts, CallsTyped, ClientPC, ProviderTyped, Fault, TypeOK
<1>30. ASSUME NEW c \in Clients, NEW d \in Drafts, StartSchedule(c, d) PROVE TypeOK'
  BY <1>30 DEF StartSchedule, RowsTyped, SchedStatus, OpsTyped, OpStatus, Ops, FramesTyped,
     WorkerPC, Verdicts, CallsTyped, ClientPC, ProviderTyped, Fault, TypeOK
<1>31. ASSUME NEW c \in Clients, NEW d \in Drafts, StartSendNow(c, d) PROVE TypeOK'
  BY <1>31 DEF StartSendNow, RowsTyped, SchedStatus, OpsTyped, OpStatus, Ops, FramesTyped,
     WorkerPC, Verdicts, CallsTyped, ClientPC, ProviderTyped, Fault, TypeOK
<1>32. ASSUME NEW c \in Clients, NEW s \in Schedules, CancelRow(c, s) PROVE TypeOK'
  BY <1>32 DEF CancelRow, RowsTyped, SchedStatus, OpsTyped, OpStatus, Ops, FramesTyped,
     WorkerPC, Verdicts, CallsTyped, ClientPC, ProviderTyped, Fault, TypeOK
<1>33. ASSUME NEW o \in Ops, Poll(o) PROVE TypeOK'
  BY <1>33 DEF Poll, RowsTyped, SchedStatus, OpsTyped, OpStatus, Ops, FramesTyped, WorkerPC,
     Verdicts, CallsTyped, ClientPC, ProviderTyped, Fault, TypeOK
<1>34. ASSUME NEW s \in Schedules, BecomeDue(s) PROVE TypeOK'
  BY <1>34 DEF BecomeDue, RowsTyped, SchedStatus, OpsTyped, OpStatus, Ops, FramesTyped,
     WorkerPC, Verdicts, CallsTyped, ClientPC, ProviderTyped, Fault, TypeOK
<1>35. ASSUME NEW s \in Schedules, LeaseExpires(s) PROVE TypeOK'
  BY <1>35 DEF LeaseExpires, RowsTyped, SchedStatus, OpsTyped, OpStatus, Ops, FramesTyped,
     WorkerPC, Verdicts, CallsTyped, ClientPC, ProviderTyped, Fault, TypeOK
<1>36. ASSUME NEW s \in Schedules, Stall(s) PROVE TypeOK'
  BY <1>36 DEF Stall, RowsTyped, SchedStatus, OpsTyped, OpStatus, Ops, FramesTyped, WorkerPC,
     Verdicts, CallsTyped, ClientPC, ProviderTyped, Fault, TypeOK
<1>37. CASE UNCHANGED vars
  BY <1>37 DEF vars, TypeOK, RowsTyped, OpsTyped, FramesTyped, CallsTyped, ProviderTyped
<1> QED
  BY <1>1, <1>2, <1>3, <1>4, <1>5, <1>6, <1>7, <1>8, <1>9, <1>10, <1>11, <1>12, <1>13, <1>14,
     <1>15, <1>16, <1>17, <1>18, <1>19, <1>20, <1>21, <1>22, <1>23, <1>24, <1>25, <1>26, <1>27,
     <1>28, <1>29, <1>30, <1>31, <1>32, <1>33, <1>34, <1>35, <1>36, <1>37 DEF Next, WorkerStep,
     CallStep

\* Every step keeps frames, calls and tables consistent with each other.
LEMMA ConsistentStep == ASSUME TypeOK, Consistent, [Next]_vars PROVE Consistent'
<1> USE ConstantsOK DEF Goto, CallGoto, rows, ops, frames, calls, provider
<1> /\ RowsTyped /\ OpsTyped /\ FramesTyped /\ CallsTyped /\ ProviderTyped
    /\ BusyHasRow /\ RowsHaveDrafts /\ HoldsLinkedOp /\ ResultsGiven /\ OneOpEach /\ LinkedLast
    /\ Superseding
  BY DEF TypeOK, Consistent
<1>1. ASSUME NEW w \in Workers, NEW s \in Schedules, Claim(w, s) PROVE Consistent'
  BY <1>1 DEF Claim, Claimable, BusyHasRow, RowsTyped, FramesTyped, RowsHaveDrafts, Superseding,
     LinkedLast, HoldsLinkedOp, HasOp, OpsTyped, Ops, OneOpEach, ResultsGiven, Verdicts,
     CallsTyped, ProviderTyped, Consistent
<1>2. ASSUME NEW w \in Workers, Confirm(w) PROVE Consistent'
  <2>1. (BusyHasRow /\ RowsHaveDrafts)'
    BY <1>2 DEF Confirm, Owns, Disowned, Return, DropFrame, BusyHasRow, RowsTyped, FramesTyped,
       RowsHaveDrafts, Superseding, LinkedLast
  <2>2. ResultsGiven'
    BY <1>2 DEF Confirm, Owns, Disowned, Return, DropFrame, ResultsGiven, FramesTyped, Verdicts,
       OpsTyped, HoldsLinkedOp, HasOp
  <2>3. Superseding'
    BY <1>2 DEF Confirm, Owns, Disowned, Return, DropFrame, Superseding, LinkedLast,
       RowsHaveDrafts, RowsTyped, BusyHasRow, CallsTyped, FramesTyped, ProviderTyped
  <2>4. HoldsLinkedOp'
    BY <1>2 DEF Confirm, Owns, Disowned, Return, DropFrame, HoldsLinkedOp, HasOp, OpsTyped,
       FramesTyped, LinkedLast, Ops, OneOpEach
  <2>5. (OneOpEach /\ LinkedLast)'
    BY <1>2 DEF Confirm, Owns, Disowned, Return, DropFrame, OneOpEach, OpsTyped, Ops,
       FramesTyped, CallsTyped, LinkedLast, BusyHasRow
  <2> QED BY <2>1, <2>2, <2>3, <2>4, <2>5 DEF Consistent
<1>3. ASSUME NEW w \in Workers, Lookup(w) PROVE Consistent'
  <2>1. (BusyHasRow /\ RowsHaveDrafts /\ ResultsGiven /\ Superseding)'
    BY <1>3 DEF Lookup, Linked, BusyHasRow, RowsTyped, FramesTyped, RowsHaveDrafts, Superseding,
       LinkedLast, ResultsGiven, Verdicts, OpsTyped, HoldsLinkedOp, HasOp, CallsTyped,
       ProviderTyped
  <2>2. HoldsLinkedOp'
    BY <1>3 DEF Lookup, Linked, HoldsLinkedOp, HasOp, OpsTyped, FramesTyped, LinkedLast, Ops,
       OneOpEach
  <2>3. (OneOpEach /\ LinkedLast)'
    BY <1>3 DEF Lookup, Linked, OneOpEach, OpsTyped, Ops, FramesTyped, CallsTyped, LinkedLast,
       BusyHasRow
  <2> QED BY <2>1, <2>2, <2>3 DEF Consistent
<1>4. ASSUME NEW w \in Workers, InsertOp(w) PROVE Consistent'
  <2>1. HoldsLinkedOp'
    <3>1. job[w] \in Schedules /\ job[w] \in Ops
      BY <1>4 DEF InsertOp, BusyHasRow, FramesTyped, Ops
    <3>2. CASE Linked(job[w]) = {}
      <4>1. \A v \in Workers : HasOp(v) => wop[v] # job[w]
        BY <3>1, <3>2 DEF Linked, HoldsLinkedOp, HasOp, BusyHasRow, OneOpEach
      <4>2. opSched' = [opSched EXCEPT ![job[w]] = job[w]]
        BY <1>4, <3>2 DEF InsertOp
      <4> QED
        BY <1>4, <3>1, <4>1, <4>2 DEF HoldsLinkedOp, HasOp, InsertOp, FramesTyped, OpsTyped
    <3>3. CASE Linked(job[w]) # {}
      BY <1>4, <3>3 DEF InsertOp, HoldsLinkedOp, HasOp, FramesTyped
    <3> QED BY <3>2, <3>3
  <2>2. (BusyHasRow /\ RowsHaveDrafts /\ ResultsGiven /\ Superseding)'
    BY <1>4 DEF InsertOp, Linked, BusyHasRow, RowsTyped, FramesTyped, RowsHaveDrafts,
       Superseding, LinkedLast, ResultsGiven, Verdicts, OpsTyped, HoldsLinkedOp, HasOp,
       CallsTyped, ProviderTyped
  <2>3. (OneOpEach /\ LinkedLast)'
    BY <1>4 DEF InsertOp, Linked, OneOpEach, OpsTyped, Ops, FramesTyped, CallsTyped, LinkedLast,
       BusyHasRow
  <2> QED BY <2>1, <2>2, <2>3 DEF Consistent
<1>5. ASSUME NEW w \in Workers, MarkOp(w) PROVE Consistent'
  BY <1>5 DEF MarkOp, BusyHasRow, RowsTyped, FramesTyped, RowsHaveDrafts, Superseding,
     LinkedLast, HoldsLinkedOp, HasOp, OpsTyped, Ops, OneOpEach, ResultsGiven, Verdicts,
     CallsTyped, ProviderTyped, Consistent
<1>6. ASSUME NEW w \in Workers, Preflight(w) PROVE Consistent'
  BY <1>6 DEF Preflight, BusyHasRow, RowsTyped, FramesTyped, RowsHaveDrafts, Superseding,
     LinkedLast, HoldsLinkedOp, HasOp, OpsTyped, Ops, OneOpEach, ResultsGiven, Verdicts,
     CallsTyped, ProviderTyped, Consistent
<1>7. ASSUME NEW w \in Workers, RejectOp(w) PROVE Consistent'
  BY <1>7 DEF RejectOp, BusyHasRow, RowsTyped, FramesTyped, RowsHaveDrafts, Superseding,
     LinkedLast, HoldsLinkedOp, HasOp, OpsTyped, Ops, OneOpEach, ResultsGiven, Verdicts,
     CallsTyped, ProviderTyped, Consistent
<1>8. ASSUME NEW w \in Workers, Check(w) PROVE Consistent'
  <2>1. (BusyHasRow /\ RowsHaveDrafts)'
    BY <1>8 DEF Check, Owns, Disowned, Return, DropFrame, BusyHasRow, RowsTyped, FramesTyped,
       RowsHaveDrafts, Superseding, LinkedLast
  <2>2. ResultsGiven'
    BY <1>8 DEF Check, Owns, Disowned, Return, DropFrame, ResultsGiven, FramesTyped, Verdicts,
       OpsTyped, HoldsLinkedOp, HasOp
  <2>3. Superseding'
    BY <1>8 DEF Check, Owns, Disowned, Return, DropFrame, Superseding, LinkedLast,
       RowsHaveDrafts, RowsTyped, BusyHasRow, CallsTyped, FramesTyped, ProviderTyped
  <2>4. HoldsLinkedOp'
    BY <1>8 DEF Check, Owns, Disowned, Return, DropFrame, HoldsLinkedOp, HasOp, OpsTyped,
       FramesTyped, LinkedLast, Ops, OneOpEach
  <2>5. (OneOpEach /\ LinkedLast)'
    BY <1>8 DEF Check, Owns, Disowned, Return, DropFrame, OneOpEach, OpsTyped, Ops, FramesTyped,
       CallsTyped, LinkedLast, BusyHasRow
  <2> QED BY <2>1, <2>2, <2>3, <2>4, <2>5 DEF Consistent
<1>9. ASSUME NEW w \in Workers, Dispatch(w) PROVE Consistent'
  BY <1>9 DEF Dispatch, BusyHasRow, RowsTyped, FramesTyped, RowsHaveDrafts, Superseding,
     LinkedLast, HoldsLinkedOp, HasOp, OpsTyped, Ops, OneOpEach, ResultsGiven, Verdicts,
     CallsTyped, ProviderTyped, Consistent
<1>10. ASSUME NEW w \in Workers, Connect(w) PROVE Consistent'
  <2>1. (BusyHasRow /\ RowsHaveDrafts /\ ResultsGiven /\ Superseding)'
    BY <1>10 DEF Connect, Owns, Disowned, BusyHasRow, RowsTyped, FramesTyped, RowsHaveDrafts,
       Superseding, LinkedLast, ResultsGiven, Verdicts, OpsTyped, HoldsLinkedOp, HasOp,
       CallsTyped, ProviderTyped
  <2>2. HoldsLinkedOp'
    BY <1>10 DEF Connect, Owns, Disowned, HoldsLinkedOp, HasOp, OpsTyped, FramesTyped,
       LinkedLast, Ops, OneOpEach
  <2>3. (OneOpEach /\ LinkedLast)'
    BY <1>10 DEF Connect, Owns, Disowned, OneOpEach, OpsTyped, Ops, FramesTyped, CallsTyped,
       LinkedLast, BusyHasRow
  <2> QED BY <2>1, <2>2, <2>3 DEF Consistent
<1>11. ASSUME NEW w \in Workers, ProviderAccepts(w) PROVE Consistent'
  BY <1>11 DEF ProviderAccepts, BusyHasRow, RowsTyped, FramesTyped, RowsHaveDrafts, Superseding,
     LinkedLast, HoldsLinkedOp, HasOp, OpsTyped, Ops, OneOpEach, ResultsGiven, Verdicts,
     CallsTyped, ProviderTyped, Consistent
<1>12. ASSUME NEW w \in Workers, ProviderRefuses(w) PROVE Consistent'
  BY <1>12 DEF ProviderRefuses, BusyHasRow, RowsTyped, FramesTyped, RowsHaveDrafts, Superseding,
     LinkedLast, HoldsLinkedOp, HasOp, OpsTyped, Ops, OneOpEach, ResultsGiven, Verdicts,
     CallsTyped, ProviderTyped, Consistent
<1>13. ASSUME NEW w \in Workers, Supersede(w) PROVE Consistent'
  <2>1. (BusyHasRow /\ RowsHaveDrafts /\ ResultsGiven /\ Superseding)'
    BY <1>13 DEF Supersede, PendingFor, BusyHasRow, RowsTyped, FramesTyped, RowsHaveDrafts,
       Superseding, LinkedLast, ResultsGiven, Verdicts, OpsTyped, HoldsLinkedOp, HasOp,
       CallsTyped, ProviderTyped
  <2>2. HoldsLinkedOp'
    BY <1>13 DEF Supersede, PendingFor, HoldsLinkedOp, HasOp, OpsTyped, FramesTyped, LinkedLast,
       Ops, OneOpEach
  <2>3. (OneOpEach /\ LinkedLast)'
    BY <1>13 DEF Supersede, PendingFor, OneOpEach, OpsTyped, Ops, FramesTyped, CallsTyped,
       LinkedLast, BusyHasRow
  <2> QED BY <2>1, <2>2, <2>3 DEF Consistent
<1>14. ASSUME NEW w \in Workers, MarkOther(w) PROVE Consistent'
  BY <1>14 DEF MarkOther, BusyHasRow, RowsTyped, FramesTyped, RowsHaveDrafts, Superseding,
     LinkedLast, HoldsLinkedOp, HasOp, OpsTyped, Ops, OneOpEach, ResultsGiven, Verdicts,
     CallsTyped, ProviderTyped, Consistent
<1>15. ASSUME NEW w \in Workers, Finish(w) PROVE Consistent'
  BY <1>15 DEF Finish, BusyHasRow, RowsTyped, FramesTyped, RowsHaveDrafts, Superseding,
     LinkedLast, HoldsLinkedOp, HasOp, OpsTyped, Ops, OneOpEach, ResultsGiven, Verdicts,
     CallsTyped, ProviderTyped, Consistent
<1>16. ASSUME NEW w \in Workers, Reread(w) PROVE Consistent'
  BY <1>16 DEF Reread, BusyHasRow, RowsTyped, FramesTyped, RowsHaveDrafts, Superseding,
     LinkedLast, HoldsLinkedOp, HasOp, OpsTyped, Ops, OneOpEach, ResultsGiven, Verdicts,
     CallsTyped, ProviderTyped, Consistent
<1>17. ASSUME NEW w \in Workers, Record(w) PROVE Consistent'
  BY <1>17 DEF Record, Return, DropFrame, Release, HoldsClaim, BusyHasRow, RowsTyped,
     FramesTyped, RowsHaveDrafts, Superseding, LinkedLast, HoldsLinkedOp, HasOp, OpsTyped, Ops,
     OneOpEach, ResultsGiven, Verdicts, CallsTyped, ProviderTyped, Consistent
<1>18. ASSUME NEW w \in Workers, Fail(w) PROVE Consistent'
  BY <1>18 DEF Fail, Return, DropFrame, Release, HoldsClaim, BusyHasRow, RowsTyped, FramesTyped,
     RowsHaveDrafts, Superseding, LinkedLast, HoldsLinkedOp, HasOp, OpsTyped, Ops, OneOpEach,
     ResultsGiven, Verdicts, CallsTyped, ProviderTyped, Consistent
<1>19. ASSUME NEW w \in Workers, Retry(w) PROVE Consistent'
  BY <1>19 DEF Retry, Return, DropFrame, Release, HoldsClaim, BusyHasRow, RowsTyped,
     FramesTyped, RowsHaveDrafts, Superseding, LinkedLast, HoldsLinkedOp, HasOp, OpsTyped, Ops,
     OneOpEach, ResultsGiven, Verdicts, CallsTyped, ProviderTyped, Consistent
<1>20. ASSUME NEW w \in Workers, Heartbeat(w) PROVE Consistent'
  BY <1>20 DEF Heartbeat, Owns, Disowned, BusyHasRow, RowsTyped, FramesTyped, RowsHaveDrafts,
     Superseding, LinkedLast, HoldsLinkedOp, HasOp, OpsTyped, Ops, OneOpEach, ResultsGiven,
     Verdicts, CallsTyped, ProviderTyped, Consistent
<1>21. ASSUME NEW w \in Workers, Crash(w) PROVE Consistent'
  BY <1>21 DEF Crash, DropFrame, BusyHasRow, RowsTyped, FramesTyped, RowsHaveDrafts,
     Superseding, LinkedLast, HoldsLinkedOp, HasOp, OpsTyped, Ops, OneOpEach, ResultsGiven,
     Verdicts, CallsTyped, ProviderTyped, Consistent
<1>22. ASSUME NEW c \in Clients, FetchDraft(c) PROVE Consistent'
  BY <1>22 DEF FetchDraft, BusyHasRow, RowsTyped, FramesTyped, RowsHaveDrafts, Superseding,
     LinkedLast, HoldsLinkedOp, HasOp, OpsTyped, Ops, OneOpEach, ResultsGiven, Verdicts,
     CallsTyped, ProviderTyped, Consistent
<1>23. ASSUME NEW c \in Clients, InsertRow(c) PROVE Consistent'
  <2>1. BusyHasRow'
    BY <1>23 DEF InsertRow, PendingFor, BusyHasRow, RowsTyped, FramesTyped
  <2>2. RowsHaveDrafts'
    BY <1>23 DEF InsertRow, PendingFor, RowsHaveDrafts, RowsTyped, BusyHasRow, Superseding,
       LinkedLast, FramesTyped
  <2>3. ResultsGiven'
    BY <1>23 DEF InsertRow, PendingFor, ResultsGiven, FramesTyped, Verdicts, OpsTyped,
       HoldsLinkedOp, HasOp
  <2>4. Superseding'
    BY <1>23 DEF InsertRow, PendingFor, Superseding, LinkedLast, RowsHaveDrafts, RowsTyped,
       BusyHasRow, CallsTyped, FramesTyped, ProviderTyped
  <2>5. HoldsLinkedOp'
    BY <1>23 DEF InsertRow, PendingFor, HoldsLinkedOp, HasOp, OpsTyped, FramesTyped, LinkedLast,
       Ops, OneOpEach
  <2>6. (OneOpEach /\ LinkedLast)'
    BY <1>23 DEF InsertRow, PendingFor, OneOpEach, OpsTyped, Ops, FramesTyped, CallsTyped,
       LinkedLast, BusyHasRow
  <2> QED BY <2>1, <2>2, <2>3, <2>4, <2>5, <2>6 DEF Consistent
<1>24. ASSUME NEW c \in Clients, Link(c) PROVE Consistent'
  <2>1. HoldsLinkedOp'
    <3>1. c \in Ops /\ opSched[c] = None
      BY <1>24 DEF Link, LinkedLast, Ops
    <3>2. \A w \in Workers : HasOp(w) => wop[w] # c
      BY <3>1 DEF HoldsLinkedOp, BusyHasRow, HasOp, FramesTyped
    <3>3. \A o \in Ops : o # c => opSched'[o] = opSched[o]
      BY <1>24 DEF Link, OpsTyped
    <3> QED BY <1>24, <3>2, <3>3 DEF HoldsLinkedOp, HasOp, Link
  <2>2. (BusyHasRow /\ RowsHaveDrafts /\ ResultsGiven /\ Superseding)'
    BY <1>24 DEF Link, Linked, BusyHasRow, RowsTyped, FramesTyped, RowsHaveDrafts, Superseding,
       LinkedLast, ResultsGiven, Verdicts, OpsTyped, HoldsLinkedOp, HasOp, CallsTyped,
       ProviderTyped
  <2>3. (OneOpEach /\ LinkedLast)'
    BY <1>24 DEF Link, Linked, OneOpEach, OpsTyped, Ops, FramesTyped, CallsTyped, LinkedLast,
       BusyHasRow
  <2> QED BY <2>1, <2>2, <2>3 DEF Consistent
<1>25. ASSUME NEW c \in Clients, CancelOp(c) PROVE Consistent'
  BY <1>25 DEF CancelOp, BusyHasRow, RowsTyped, FramesTyped, RowsHaveDrafts, Superseding,
     LinkedLast, HoldsLinkedOp, HasOp, OpsTyped, Ops, OneOpEach, ResultsGiven, Verdicts,
     CallsTyped, ProviderTyped, Consistent
<1>26. ASSUME NEW c \in Clients, SendNow(c) PROVE Consistent'
  <2>1. (BusyHasRow /\ RowsHaveDrafts)'
    BY <1>26 DEF SendNow, BusyHasRow, RowsTyped, FramesTyped, RowsHaveDrafts, Superseding,
       LinkedLast
  <2>2. ResultsGiven'
    BY <1>26 DEF SendNow, ResultsGiven, FramesTyped, Verdicts, OpsTyped, HoldsLinkedOp, HasOp
  <2>3. Superseding'
    BY <1>26 DEF SendNow, Superseding, LinkedLast, RowsHaveDrafts, RowsTyped, BusyHasRow,
       CallsTyped, FramesTyped, ProviderTyped
  <2>4. HoldsLinkedOp'
    BY <1>26 DEF SendNow, HoldsLinkedOp, HasOp, OpsTyped, FramesTyped, LinkedLast, Ops,
       OneOpEach
  <2>5. (OneOpEach /\ LinkedLast)'
    BY <1>26 DEF SendNow, OneOpEach, OpsTyped, Ops, FramesTyped, CallsTyped, LinkedLast,
       BusyHasRow
  <2> QED BY <2>1, <2>2, <2>3, <2>4, <2>5 DEF Consistent
<1>27. ASSUME NEW c \in Clients, FindSuperseded(c) PROVE Consistent'
  BY <1>27 DEF FindSuperseded, PendingFor, BusyHasRow, RowsTyped, FramesTyped, RowsHaveDrafts,
     Superseding, LinkedLast, HoldsLinkedOp, HasOp, OpsTyped, Ops, OneOpEach, ResultsGiven,
     Verdicts, CallsTyped, ProviderTyped, Consistent
<1>28. ASSUME NEW c \in Clients, MarkSuperseded(c) PROVE Consistent'
  BY <1>28 DEF MarkSuperseded, BusyHasRow, RowsTyped, FramesTyped, RowsHaveDrafts, Superseding,
     LinkedLast, HoldsLinkedOp, HasOp, OpsTyped, Ops, OneOpEach, ResultsGiven, Verdicts,
     CallsTyped, ProviderTyped, Consistent
<1>29. ASSUME NEW c \in Clients, ClientCrash(c) PROVE Consistent'
  BY <1>29 DEF ClientCrash, BusyHasRow, RowsTyped, FramesTyped, RowsHaveDrafts, Superseding,
     LinkedLast, HoldsLinkedOp, HasOp, OpsTyped, Ops, OneOpEach, ResultsGiven, Verdicts,
     CallsTyped, ProviderTyped, Consistent
<1>30. ASSUME NEW c \in Clients, NEW d \in Drafts, StartSchedule(c, d) PROVE Consistent'
  BY <1>30 DEF StartSchedule, BusyHasRow, RowsTyped, FramesTyped, RowsHaveDrafts, Superseding,
     LinkedLast, HoldsLinkedOp, HasOp, OpsTyped, Ops, OneOpEach, ResultsGiven, Verdicts,
     CallsTyped, ProviderTyped, Consistent
<1>31. ASSUME NEW c \in Clients, NEW d \in Drafts, StartSendNow(c, d) PROVE Consistent'
  BY <1>31 DEF StartSendNow, BusyHasRow, RowsTyped, FramesTyped, RowsHaveDrafts, Superseding,
     LinkedLast, HoldsLinkedOp, HasOp, OpsTyped, Ops, OneOpEach, ResultsGiven, Verdicts,
     CallsTyped, ProviderTyped, Consistent
<1>32. ASSUME NEW c \in Clients, NEW s \in Schedules, CancelRow(c, s) PROVE Consistent'
  BY <1>32 DEF CancelRow, BusyHasRow, RowsTyped, FramesTyped, RowsHaveDrafts, Superseding,
     LinkedLast, HoldsLinkedOp, HasOp, OpsTyped, Ops, OneOpEach, ResultsGiven, Verdicts,
     CallsTyped, ProviderTyped, Consistent
<1>33. ASSUME NEW o \in Ops, Poll(o) PROVE Consistent'
  BY <1>33 DEF Poll, BusyHasRow, RowsTyped, FramesTyped, RowsHaveDrafts, Superseding,
     LinkedLast, HoldsLinkedOp, HasOp, OpsTyped, Ops, OneOpEach, ResultsGiven, Verdicts,
     CallsTyped, ProviderTyped, Consistent
<1>34. ASSUME NEW s \in Schedules, BecomeDue(s) PROVE Consistent'
  BY <1>34 DEF BecomeDue, BusyHasRow, RowsTyped, FramesTyped, RowsHaveDrafts, Superseding,
     LinkedLast, HoldsLinkedOp, HasOp, OpsTyped, Ops, OneOpEach, ResultsGiven, Verdicts,
     CallsTyped, ProviderTyped, Consistent
<1>35. ASSUME NEW s \in Schedules, LeaseExpires(s) PROVE Consistent'
  BY <1>35 DEF LeaseExpires, BusyHasRow, RowsTyped, FramesTyped, RowsHaveDrafts, Superseding,
     LinkedLast, HoldsLinkedOp, HasOp, OpsTyped, Ops, OneOpEach, ResultsGiven, Verdicts,
     CallsTyped, ProviderTyped, Consistent
<1>36. ASSUME NEW s \in Schedules, Stall(s) PROVE Consistent'
  BY <1>36 DEF Stall, BusyHasRow, RowsTyped, FramesTyped, RowsHaveDrafts, Superseding,
     LinkedLast, HoldsLinkedOp, HasOp, OpsTyped, Ops, OneOpEach, ResultsGiven, Verdicts,
     CallsTyped, ProviderTyped, Consistent
<1>37. CASE UNCHANGED vars
  BY <1>37 DEF vars, HasOp, Consistent, BusyHasRow, RowsHaveDrafts, HoldsLinkedOp, ResultsGiven,
     OneOpEach, LinkedLast, Superseding
<1> QED
  BY <1>1, <1>2, <1>3, <1>4, <1>5, <1>6, <1>7, <1>8, <1>9, <1>10, <1>11, <1>12, <1>13, <1>14,
     <1>15, <1>16, <1>17, <1>18, <1>19, <1>20, <1>21, <1>22, <1>23, <1>24, <1>25, <1>26, <1>27,
     <1>28, <1>29, <1>30, <1>31, <1>32, <1>33, <1>34, <1>35, <1>36, <1>37 DEF Next, WorkerStep,
     CallStep

\* A schedule whose operation tells nothing of a dispatch, or that has none, has not departed.
Quiet ==
    \A o \in Ops :
        opSched[o] # None /\ opStatus[o] \notin {"sending", "uncertain", "succeeded"} =>
            ~Departed(opSched[o])

NoOp == \A s \in Schedules : (\A o \in Ops : opSched[o] # s) => ~Departed(s)

LEMMA NothingDeparted == ASSUME TypeOK, Consistent, Delivery PROVE Quiet /\ NoOp
<1> USE ConstantsOK
<1> /\ OpsTyped /\ FramesTyped /\ ProviderTyped /\ HoldsLinkedOp /\ OneOpEach /\ DispatchedOp
    /\ OutcomesOnRecord
  BY DEF TypeOK, Consistent, Delivery
<1>1. Quiet
  BY DEF Quiet, Departed, OutcomesOnRecord, OneOpEach, HoldsLinkedOp, HasOp, DispatchedOp,
     Dispatching, OpsTyped, FramesTyped, ProviderTyped, Ops
<1>2. NoOp
  BY DEF NoOp, Departed, OutcomesOnRecord, HoldsLinkedOp, HasOp, OpsTyped, FramesTyped,
     ProviderTyped, Ops
<1> QED BY <1>1, <1>2

\* Every step keeps what the operations tell of a delivery true.
LEMMA DeliveryStep == ASSUME TypeOK, Consistent, Delivery, [Next]_vars PROVE Delivery'
<1> USE ConstantsOK DEF Goto, CallGoto, rows, ops, frames, calls, provider
<1> /\ RowsTyped /\ OpsTyped /\ FramesTyped /\ CallsTyped /\ ProviderTyped
    /\ BusyHasRow /\ HoldsLinkedOp /\ ResultsGiven /\ OneOpEach /\ LinkedLast
    /\ OneDispatcher /\ DispatchedOp /\ DispatchIsTrue /\ OutcomesOnRecord /\ AtMostOnce
  BY DEF TypeOK, Consistent, Delivery
<1>1. ASSUME NEW w \in Workers, NEW s \in Schedules, Claim(w, s) PROVE Delivery'
  BY <1>1 DEF Claim, Claimable, HoldsLinkedOp, HasOp, OneOpEach, BusyHasRow, ResultsGiven,
     RowsTyped, OpsTyped, FramesTyped, ProviderTyped, Ops, OneDispatcher, DispatchedOp,
     Dispatching, LinkedLast, Verdicts, DispatchIsTrue, OutcomesOnRecord, AtMostOnce, Delivery
<1>2. ASSUME NEW w \in Workers, Confirm(w) PROVE Delivery'
  <2>1. OneDispatcher'
    BY <1>2 DEF Confirm, Owns, Disowned, Return, DropFrame, OneDispatcher, Dispatching,
       FramesTyped
  <2>2. DispatchedOp'
    BY <1>2 DEF Confirm, Owns, Disowned, Return, DropFrame, DispatchedOp, Dispatching,
       FramesTyped, OpsTyped
  <2>3. DispatchIsTrue'
    BY <1>2 DEF Confirm, Owns, Disowned, Return, DropFrame, HoldsLinkedOp, HasOp, OneOpEach,
       BusyHasRow, ResultsGiven, RowsTyped, OpsTyped, FramesTyped, ProviderTyped, Ops,
       OneDispatcher, DispatchIsTrue, Dispatching, Verdicts
  <2>4. OutcomesOnRecord'
    BY <1>2 DEF Confirm, Owns, Disowned, Return, DropFrame, HoldsLinkedOp, HasOp, OneOpEach,
       BusyHasRow, ResultsGiven, RowsTyped, OpsTyped, FramesTyped, ProviderTyped, Ops,
       OutcomesOnRecord, DispatchIsTrue, DispatchedOp, Dispatching, LinkedLast, Verdicts
  <2>5. AtMostOnce'
    BY <1>2 DEF Confirm, Owns, Disowned, Return, DropFrame, AtMostOnce
  <2> QED BY <2>1, <2>2, <2>3, <2>4, <2>5 DEF Delivery
<1>3. ASSUME NEW w \in Workers, Lookup(w) PROVE Delivery'
  <2>1. (OneDispatcher /\ DispatchedOp)'
    BY <1>3 DEF Lookup, Linked, OneDispatcher, Dispatching, FramesTyped, DispatchedOp, OpsTyped
  <2>2. DispatchIsTrue'
    BY <1>3 DEF Lookup, Linked, HoldsLinkedOp, HasOp, OneOpEach, BusyHasRow, ResultsGiven,
       RowsTyped, OpsTyped, FramesTyped, ProviderTyped, Ops, OneDispatcher, DispatchIsTrue,
       Dispatching, Verdicts
  <2>3. OutcomesOnRecord'
    BY <1>3 DEF Lookup, Linked, HoldsLinkedOp, HasOp, OneOpEach, BusyHasRow, ResultsGiven,
       RowsTyped, OpsTyped, FramesTyped, ProviderTyped, Ops, OutcomesOnRecord, DispatchIsTrue,
       DispatchedOp, Dispatching, LinkedLast, Verdicts
  <2>4. AtMostOnce'
    BY <1>3 DEF Lookup, Linked, AtMostOnce
  <2> QED BY <2>1, <2>2, <2>3, <2>4 DEF Delivery
<1>4. ASSUME NEW w \in Workers, InsertOp(w) PROVE Delivery'
  <2>1. OneDispatcher'
    BY <1>4 DEF InsertOp, Linked, OneDispatcher, Dispatching, FramesTyped
  <2>2. DispatchedOp'
    BY <1>4 DEF InsertOp, Linked, HoldsLinkedOp, HasOp, OneOpEach, BusyHasRow, ResultsGiven,
       RowsTyped, OpsTyped, FramesTyped, ProviderTyped, Ops, OneDispatcher, DispatchedOp,
       Dispatching, LinkedLast, Verdicts
  <2>3. DispatchIsTrue'
    BY <1>4 DEF InsertOp, Linked, HoldsLinkedOp, HasOp, OneOpEach, BusyHasRow, ResultsGiven,
       RowsTyped, OpsTyped, FramesTyped, ProviderTyped, Ops, OneDispatcher, DispatchIsTrue,
       Dispatching, Verdicts
  <2>4. OutcomesOnRecord'
    <3>1. job[w] \in Schedules /\ job[w] \in Ops
      BY <1>4 DEF InsertOp, BusyHasRow, FramesTyped, Ops
    <3>2. CASE Linked(job[w]) = {}
      <4>1. opSched[job[w]] = None
        BY <3>1, <3>2 DEF Linked, OneOpEach
      <4>2. /\ opStatus' = [opStatus EXCEPT ![job[w]] = "queued"]
            /\ opSched' = [opSched EXCEPT ![job[w]] = job[w]]
        BY <1>4, <3>2 DEF InsertOp
      <4>3. \A v \in Workers : pc'[v] = "record" => pc[v] = "record"
        BY <1>4 DEF InsertOp, FramesTyped
      <4> QED BY <1>4, <3>1, <4>1, <4>2, <4>3 DEF InsertOp, OutcomesOnRecord, OpsTyped
    <3>3. CASE Linked(job[w]) # {}
      BY <1>4, <3>3 DEF InsertOp, OutcomesOnRecord, FramesTyped
    <3> QED BY <3>2, <3>3
  <2>5. AtMostOnce'
    BY <1>4 DEF InsertOp, Linked, AtMostOnce
  <2> QED BY <2>1, <2>2, <2>3, <2>4, <2>5 DEF Delivery
<1>5. ASSUME NEW w \in Workers, MarkOp(w) PROVE Delivery'
  BY <1>5 DEF MarkOp, HoldsLinkedOp, HasOp, OneOpEach, BusyHasRow, ResultsGiven, RowsTyped,
     OpsTyped, FramesTyped, ProviderTyped, Ops, OneDispatcher, DispatchedOp, Dispatching,
     LinkedLast, Verdicts, DispatchIsTrue, OutcomesOnRecord, AtMostOnce, Delivery
<1>6. ASSUME NEW w \in Workers, Preflight(w) PROVE Delivery'
  <2>1. OneDispatcher'
    BY <1>6 DEF Preflight, OneDispatcher, Dispatching, FramesTyped
  <2>2. DispatchedOp'
    BY <1>6 DEF Preflight, DispatchedOp, Dispatching, FramesTyped, OpsTyped
  <2>3. (DispatchIsTrue /\ OutcomesOnRecord)'
    BY <1>6 DEF Preflight, HoldsLinkedOp, HasOp, OneOpEach, BusyHasRow, ResultsGiven, RowsTyped,
       OpsTyped, FramesTyped, ProviderTyped, Ops, OneDispatcher, DispatchIsTrue, Dispatching,
       Verdicts, OutcomesOnRecord, DispatchedOp, LinkedLast
  <2>4. AtMostOnce'
    BY <1>6 DEF Preflight, AtMostOnce
  <2> QED BY <2>1, <2>2, <2>3, <2>4 DEF Delivery
<1>7. ASSUME NEW w \in Workers, RejectOp(w) PROVE Delivery'
  BY <1>7 DEF RejectOp, HoldsLinkedOp, HasOp, OneOpEach, BusyHasRow, ResultsGiven, RowsTyped,
     OpsTyped, FramesTyped, ProviderTyped, Ops, OneDispatcher, DispatchedOp, Dispatching,
     LinkedLast, Verdicts, DispatchIsTrue, OutcomesOnRecord, AtMostOnce, Delivery
<1>8. ASSUME NEW w \in Workers, Check(w) PROVE Delivery'
  <2>1. OneDispatcher'
    BY <1>8 DEF Check, Owns, Disowned, Return, DropFrame, OneDispatcher, Dispatching, FramesTyped
  <2>2. DispatchedOp'
    BY <1>8 DEF Check, Owns, Disowned, Return, DropFrame, DispatchedOp, Dispatching, FramesTyped,
       OpsTyped
  <2>3. DispatchIsTrue'
    BY <1>8 DEF Check, Owns, Disowned, Return, DropFrame, HoldsLinkedOp, HasOp, OneOpEach,
       BusyHasRow, ResultsGiven, RowsTyped, OpsTyped, FramesTyped, ProviderTyped, Ops,
       OneDispatcher, DispatchIsTrue, Dispatching, Verdicts
  <2>4. OutcomesOnRecord'
    BY <1>8 DEF Check, Owns, Disowned, Return, DropFrame, HoldsLinkedOp, HasOp, OneOpEach,
       BusyHasRow, ResultsGiven, RowsTyped, OpsTyped, FramesTyped, ProviderTyped, Ops,
       OutcomesOnRecord, DispatchIsTrue, DispatchedOp, Dispatching, LinkedLast, Verdicts
  <2>5. AtMostOnce'
    BY <1>8 DEF Check, Owns, Disowned, Return, DropFrame, AtMostOnce
  <2> QED BY <2>1, <2>2, <2>3, <2>4, <2>5 DEF Delivery
<1>9. ASSUME NEW w \in Workers, Dispatch(w) PROVE Delivery'
  <2>1. (OneDispatcher /\ DispatchedOp)'
    <3>1. wop[w] \in Ops /\ opSched[wop[w]] = job[w]
      BY <1>9 DEF Dispatch, HoldsLinkedOp, HasOp
    <3>2. CASE opStatus[wop[w]] = "queued"
      <4>1. \A v \in Workers : Dispatching(v) => job[v] # job[w] /\ wop[v] # wop[w]
        BY <3>1, <3>2 DEF DispatchedOp, Dispatching, HoldsLinkedOp, HasOp, OneOpEach, BusyHasRow
      <4>2. \A v \in Workers : v # w => Dispatching(v)' = Dispatching(v)
        BY <1>9 DEF Dispatch, Dispatching, FramesTyped
      <4>3. OneDispatcher'
        BY <1>9, <4>1, <4>2 DEF OneDispatcher, Dispatch
      <4>4. opStatus' = [opStatus EXCEPT ![wop[w]] = "sending"]
        BY <1>9, <3>2 DEF Dispatch
      <4>5. DispatchedOp'
        BY <1>9, <3>1, <4>1, <4>2, <4>4 DEF DispatchedOp, Dispatch, OpsTyped
      <4> QED BY <4>3, <4>5
    <3>3. CASE opStatus[wop[w]] # "queued"
      BY <1>9, <3>3 DEF Dispatch, OneDispatcher, DispatchedOp, Dispatching, FramesTyped
    <3> QED BY <3>2, <3>3
  <2>2. DispatchIsTrue'
    <3>1. wop[w] \in Ops /\ opSched[wop[w]] = job[w] /\ job[w] \in Schedules
      BY <1>9 DEF Dispatch, HoldsLinkedOp, HasOp, BusyHasRow, FramesTyped
    <3>2. opStatus[wop[w]] = "queued" => accepted[job[w]] = 0
      BY <3>1 DEF OutcomesOnRecord, OneOpEach, ProviderTyped
    <3> QED BY <1>9, <3>2 DEF DispatchIsTrue, Dispatch, FramesTyped
  <2>3. OutcomesOnRecord'
    BY <1>9 DEF Dispatch, OutcomesOnRecord, OpsTyped, FramesTyped
  <2>4. AtMostOnce'
    BY <1>9 DEF Dispatch, AtMostOnce
  <2> QED BY <2>1, <2>2, <2>3, <2>4 DEF Delivery
<1>10. ASSUME NEW w \in Workers, Connect(w) PROVE Delivery'
  <2>1. OneDispatcher'
    BY <1>10 DEF Connect, Owns, Disowned, OneDispatcher, Dispatching, FramesTyped
  <2>2. DispatchedOp'
    BY <1>10 DEF Connect, Owns, Disowned, DispatchedOp, Dispatching, FramesTyped, OpsTyped
  <2>3. (DispatchIsTrue /\ OutcomesOnRecord)'
    BY <1>10 DEF Connect, Owns, Disowned, HoldsLinkedOp, HasOp, OneOpEach, BusyHasRow,
       ResultsGiven, RowsTyped, OpsTyped, FramesTyped, ProviderTyped, Ops, OneDispatcher,
       DispatchIsTrue, Dispatching, Verdicts, OutcomesOnRecord, DispatchedOp, LinkedLast
  <2>4. AtMostOnce'
    BY <1>10 DEF Connect, Owns, Disowned, AtMostOnce
  <2> QED BY <2>1, <2>2, <2>3, <2>4 DEF Delivery
<1>11. ASSUME NEW w \in Workers, ProviderAccepts(w) PROVE Delivery'
  <2>1. (OneDispatcher /\ DispatchedOp)'
    BY <1>11 DEF ProviderAccepts, OneDispatcher, Dispatching, FramesTyped, DispatchedOp, OpsTyped
  <2>2. (DispatchIsTrue /\ OutcomesOnRecord)'
    BY <1>11 DEF ProviderAccepts, HoldsLinkedOp, HasOp, OneOpEach, BusyHasRow, ResultsGiven,
       RowsTyped, OpsTyped, FramesTyped, ProviderTyped, Ops, OneDispatcher, DispatchIsTrue,
       Dispatching, Verdicts, OutcomesOnRecord, DispatchedOp, LinkedLast
  <2>3. AtMostOnce'
    BY <1>11 DEF ProviderAccepts, HoldsLinkedOp, HasOp, OneOpEach, BusyHasRow, ResultsGiven,
       RowsTyped, OpsTyped, FramesTyped, ProviderTyped, Ops, DispatchIsTrue, AtMostOnce
  <2> QED BY <2>1, <2>2, <2>3 DEF Delivery
<1>12. ASSUME NEW w \in Workers, ProviderRefuses(w) PROVE Delivery'
  BY <1>12 DEF ProviderRefuses, HoldsLinkedOp, HasOp, OneOpEach, BusyHasRow, ResultsGiven,
     RowsTyped, OpsTyped, FramesTyped, ProviderTyped, Ops, OneDispatcher, DispatchedOp,
     Dispatching, LinkedLast, Verdicts, DispatchIsTrue, OutcomesOnRecord, AtMostOnce, Delivery
<1>13. ASSUME NEW w \in Workers, Supersede(w) PROVE Delivery'
  <2>1. (OneDispatcher /\ DispatchedOp)'
    BY <1>13 DEF Supersede, PendingFor, OneDispatcher, Dispatching, FramesTyped, DispatchedOp,
       OpsTyped
  <2>2. (DispatchIsTrue /\ OutcomesOnRecord)'
    BY <1>13 DEF Supersede, PendingFor, HoldsLinkedOp, HasOp, OneOpEach, BusyHasRow, ResultsGiven,
       RowsTyped, OpsTyped, FramesTyped, ProviderTyped, Ops, OneDispatcher, DispatchIsTrue,
       Dispatching, Verdicts, OutcomesOnRecord, DispatchedOp, LinkedLast
  <2>3. AtMostOnce'
    BY <1>13 DEF Supersede, PendingFor, AtMostOnce
  <2> QED BY <2>1, <2>2, <2>3 DEF Delivery
<1>14. ASSUME NEW w \in Workers, MarkOther(w) PROVE Delivery'
  BY <1>14 DEF MarkOther, HoldsLinkedOp, HasOp, OneOpEach, BusyHasRow, ResultsGiven, RowsTyped,
     OpsTyped, FramesTyped, ProviderTyped, Ops, OneDispatcher, DispatchedOp, Dispatching,
     LinkedLast, Verdicts, DispatchIsTrue, OutcomesOnRecord, AtMostOnce, Delivery
<1>15. ASSUME NEW w \in Workers, Finish(w) PROVE Delivery'
  <2>1. OneDispatcher'
    BY <1>15 DEF Finish, HoldsLinkedOp, HasOp, OneOpEach, BusyHasRow, ResultsGiven, RowsTyped,
       OpsTyped, FramesTyped, ProviderTyped, Ops, OneDispatcher, DispatchedOp, Dispatching
  <2>2. DispatchedOp'
    <3>1. wop[w] \in Ops /\ opSched[wop[w]] = job[w]
      BY <1>15 DEF Finish, HoldsLinkedOp, HasOp
    <3>2. \A v \in Workers : Dispatching(v)' => Dispatching(v) /\ v # w
      BY <1>15 DEF Finish, Dispatching, FramesTyped
    <3>3. \A v \in Workers : Dispatching(v) /\ v # w => wop[v] \in Ops /\ wop[v] # wop[w]
      BY <1>15, <3>1 DEF Finish, HoldsLinkedOp, HasOp, OneDispatcher, Dispatching
    <3> QED BY <1>15, <3>1, <3>2, <3>3 DEF Finish, DispatchedOp, OpsTyped
  <2>3. OutcomesOnRecord'
    <3> DEFINE s == job[w]
               o == wop[w]
    <3>1. o \in Ops /\ opSched[o] = s /\ s \in Schedules
      BY <1>15 DEF Finish, HoldsLinkedOp, HasOp, BusyHasRow, FramesTyped
    <3>2. /\ verdict[w] \in Verdicts
          /\ verdict[w] \in {"failed", "requeue"} => accepted[s] = 0
          /\ verdict[w] = "succeeded" => accepted[s] = 1
      BY <1>15 DEF Finish, DispatchIsTrue, ResultsGiven
    <3>3. /\ UNCHANGED <<opSched, accepted, job, out>>
          /\ \A p \in Ops : p # o => opStatus'[p] = opStatus[p]
      BY <1>15, <3>1 DEF Finish, OpsTyped
    <3>4. accepted[s] > 0 => opStatus'[o] \in {"succeeded", "uncertain"}
      BY <1>15, <3>1, <3>2 DEF Finish, OpsTyped, Verdicts, ProviderTyped
    <3>5. opStatus'[o] = "succeeded" => accepted[s] = 1
      BY <1>15, <3>1, <3>2 DEF Finish, OpsTyped, DispatchedOp, Dispatching
    <3>6. \A v \in Workers : pc'[v] = "record" => pc[v] = "record"
      BY <1>15 DEF Finish, FramesTyped
    <3> QED BY <3>1, <3>3, <3>4, <3>5, <3>6 DEF OutcomesOnRecord, OneOpEach
  <2>4. DispatchIsTrue'
    BY <1>15 DEF Finish, HoldsLinkedOp, HasOp, OneOpEach, BusyHasRow, ResultsGiven, RowsTyped,
       OpsTyped, FramesTyped, ProviderTyped, Ops, OneDispatcher, DispatchIsTrue, Dispatching,
       Verdicts
  <2>5. AtMostOnce'
    BY <1>15 DEF Finish, AtMostOnce
  <2> QED BY <2>1, <2>2, <2>3, <2>4, <2>5 DEF Delivery
<1>16. ASSUME NEW w \in Workers, Reread(w) PROVE Delivery'
  BY <1>16 DEF Reread, HoldsLinkedOp, HasOp, OneOpEach, BusyHasRow, ResultsGiven, RowsTyped,
     OpsTyped, FramesTyped, ProviderTyped, Ops, OneDispatcher, DispatchedOp, Dispatching,
     LinkedLast, Verdicts, DispatchIsTrue, OutcomesOnRecord, AtMostOnce, Delivery
<1>17. ASSUME NEW w \in Workers, Record(w) PROVE Delivery'
  <2>1. (OneDispatcher /\ DispatchedOp)'
    BY <1>17 DEF Record, Return, DropFrame, Release, HoldsClaim, OneDispatcher, Dispatching,
       FramesTyped, DispatchedOp, OpsTyped
  <2>2. (DispatchIsTrue /\ OutcomesOnRecord)'
    BY <1>17 DEF Record, Return, DropFrame, Release, HoldsClaim, HoldsLinkedOp, HasOp, OneOpEach,
       BusyHasRow, ResultsGiven, RowsTyped, OpsTyped, FramesTyped, ProviderTyped, Ops,
       OneDispatcher, DispatchIsTrue, Dispatching, Verdicts, OutcomesOnRecord, DispatchedOp,
       LinkedLast
  <2>3. AtMostOnce'
    BY <1>17 DEF Record, Return, DropFrame, Release, HoldsClaim, AtMostOnce
  <2> QED BY <2>1, <2>2, <2>3 DEF Delivery
<1>18. ASSUME NEW w \in Workers, Fail(w) PROVE Delivery'
  BY <1>18 DEF Fail, Return, DropFrame, Release, HoldsClaim, HoldsLinkedOp, HasOp, OneOpEach,
     BusyHasRow, ResultsGiven, RowsTyped, OpsTyped, FramesTyped, ProviderTyped, Ops,
     OneDispatcher, DispatchedOp, Dispatching, LinkedLast, Verdicts, DispatchIsTrue,
     OutcomesOnRecord, AtMostOnce, Delivery
<1>19. ASSUME NEW w \in Workers, Retry(w) PROVE Delivery'
  BY <1>19 DEF Retry, Return, DropFrame, Release, HoldsClaim, HoldsLinkedOp, HasOp, OneOpEach,
     BusyHasRow, ResultsGiven, RowsTyped, OpsTyped, FramesTyped, ProviderTyped, Ops,
     OneDispatcher, DispatchedOp, Dispatching, LinkedLast, Verdicts, DispatchIsTrue,
     OutcomesOnRecord, AtMostOnce, Delivery
<1>20. ASSUME NEW w \in Workers, Heartbeat(w) PROVE Delivery'
  BY <1>20 DEF Heartbeat, Owns, Disowned, HoldsLinkedOp, HasOp, OneOpEach, BusyHasRow,
     ResultsGiven, RowsTyped, OpsTyped, FramesTyped, ProviderTyped, Ops, OneDispatcher,
     DispatchedOp, Dispatching, LinkedLast, Verdicts, DispatchIsTrue, OutcomesOnRecord,
     AtMostOnce, Delivery
<1>21. ASSUME NEW w \in Workers, Crash(w) PROVE Delivery'
  BY <1>21 DEF Crash, DropFrame, HoldsLinkedOp, HasOp, OneOpEach, BusyHasRow, ResultsGiven,
     RowsTyped, OpsTyped, FramesTyped, ProviderTyped, Ops, OneDispatcher, DispatchedOp,
     Dispatching, LinkedLast, Verdicts, DispatchIsTrue, OutcomesOnRecord, AtMostOnce, Delivery
<1>22. ASSUME NEW c \in Clients, FetchDraft(c) PROVE Delivery'
  <2>1. OneDispatcher'
    BY <1>22 DEF FetchDraft, OneDispatcher, Dispatching
  <2>2. DispatchedOp'
    BY <1>22 DEF FetchDraft, HoldsLinkedOp, HasOp, OneOpEach, BusyHasRow, ResultsGiven, RowsTyped,
       OpsTyped, FramesTyped, ProviderTyped, Ops, OneDispatcher, DispatchedOp, Dispatching,
       LinkedLast, Verdicts
  <2>3. UNCHANGED <<pc, job, wop, lost, verdict, out, other, opSched, accepted>>
    BY <1>22 DEF FetchDraft
  <2>5. \A o \in Ops : opSched[o] # None => opStatus'[o] = opStatus[o]
    BY <1>22 DEF FetchDraft, OpsTyped, LinkedLast, Ops
  <2>6. DispatchIsTrue'
    BY <2>3 DEF DispatchIsTrue, Dispatching
  <2>7. OutcomesOnRecord'
    BY <2>3, <2>5 DEF OutcomesOnRecord, ProviderTyped
  <2>4. AtMostOnce'
    BY <1>22 DEF FetchDraft, AtMostOnce
  <2> QED BY <2>1, <2>2, <2>4, <2>6, <2>7 DEF Delivery
<1>23. ASSUME NEW c \in Clients, InsertRow(c) PROVE Delivery'
  <2>1. OutcomesOnRecord'
    <3>1. c \in Ops /\ opSched[c] = None
      BY <1>23 DEF InsertRow, LinkedLast, Ops
    <3>2. \A o \in Ops : opSched[o] # None => opStatus'[o] = opStatus[o]
      BY <1>23, <3>1 DEF InsertRow, OpsTyped
    <3> QED BY <1>23, <3>2 DEF InsertRow, OutcomesOnRecord
  <2>2. OneDispatcher'
    BY <1>23 DEF InsertRow, PendingFor, OneDispatcher, Dispatching
  <2>3. DispatchedOp'
    BY <1>23 DEF InsertRow, PendingFor, DispatchedOp, Dispatching, HoldsLinkedOp, HasOp,
       BusyHasRow, OpsTyped, Ops, LinkedLast
  <2>4. DispatchIsTrue'
    BY <1>23 DEF InsertRow, PendingFor, DispatchIsTrue
  <2>5. AtMostOnce'
    BY <1>23 DEF InsertRow, PendingFor, AtMostOnce
  <2> QED BY <2>1, <2>2, <2>3, <2>4, <2>5 DEF Delivery
<1>24. ASSUME NEW c \in Clients, Link(c) PROVE Delivery'
  <2>1. DispatchedOp'
    <3>1. c \in Ops /\ opSched[c] = None
      BY <1>24 DEF Link, LinkedLast, Ops
    <3>2. \A w \in Workers : HasOp(w) => wop[w] \in Ops /\ wop[w] # c
      BY <3>1 DEF HoldsLinkedOp, BusyHasRow, HasOp
    <3>3. \A w \in Workers : Dispatching(w) => wop[w] \in Ops /\ wop[w] # c
      BY <3>2 DEF HasOp, Dispatching
    <3>4. \A o \in Ops : o # c => opStatus'[o] = opStatus[o]
      BY <1>24 DEF Link, OpsTyped
    <3> QED BY <1>24, <3>3, <3>4 DEF DispatchedOp, Dispatching, Link
  <2>2. OutcomesOnRecord'
    <3>1. c \in Ops /\ opSched[c] = None /\ cjob[c] \in Schedules
      BY <1>24 DEF Link, LinkedLast, Ops
    <3>2. \A o \in Ops : o # c => opStatus'[o] = opStatus[o] /\ opSched'[o] = opSched[o]
      BY <1>24 DEF Link, OpsTyped
    <3>3. opStatus'[c] \in {"queued", "uncertain"}
      BY <1>24, <3>1 DEF Link, OpsTyped
    <3> QED BY <1>24, <3>1, <3>2, <3>3 DEF OutcomesOnRecord, Link
  <2>3. (OneDispatcher /\ DispatchIsTrue)'
    BY <1>24 DEF Link, Linked, HoldsLinkedOp, HasOp, OneOpEach, BusyHasRow, ResultsGiven,
       RowsTyped, OpsTyped, FramesTyped, ProviderTyped, Ops, OneDispatcher, DispatchedOp,
       Dispatching, DispatchIsTrue, Verdicts
  <2>4. AtMostOnce'
    BY <1>24 DEF Link, Linked, AtMostOnce
  <2> QED BY <2>1, <2>2, <2>3, <2>4 DEF Delivery
<1>25. ASSUME NEW c \in Clients, CancelOp(c) PROVE Delivery'
  <2>1. (OneDispatcher /\ DispatchedOp)'
    BY <1>25 DEF CancelOp, HoldsLinkedOp, HasOp, OneOpEach, BusyHasRow, ResultsGiven, RowsTyped,
       OpsTyped, FramesTyped, ProviderTyped, Ops, OneDispatcher, DispatchedOp, Dispatching,
       LinkedLast, Verdicts
  <2>2. DispatchIsTrue'
    BY <1>25 DEF CancelOp, HoldsLinkedOp, HasOp, OneOpEach, BusyHasRow, ResultsGiven, RowsTyped,
       OpsTyped, FramesTyped, ProviderTyped, Ops, OneDispatcher, DispatchIsTrue, Dispatching,
       Verdicts
  <2>3. OutcomesOnRecord'
    BY <1>25 DEF CancelOp, OutcomesOnRecord, OpsTyped, FramesTyped
  <2>4. AtMostOnce'
    BY <1>25 DEF CancelOp, AtMostOnce
  <2> QED BY <2>1, <2>2, <2>3, <2>4 DEF Delivery
<1>26. ASSUME NEW c \in Clients, SendNow(c) PROVE Delivery'
  BY <1>26 DEF SendNow, HoldsLinkedOp, HasOp, OneOpEach, BusyHasRow, ResultsGiven, RowsTyped,
     OpsTyped, FramesTyped, ProviderTyped, Ops, OneDispatcher, DispatchedOp, Dispatching,
     LinkedLast, Verdicts, DispatchIsTrue, OutcomesOnRecord, AtMostOnce, Delivery
<1>27. ASSUME NEW c \in Clients, FindSuperseded(c) PROVE Delivery'
  BY <1>27 DEF FindSuperseded, PendingFor, HoldsLinkedOp, HasOp, OneOpEach, BusyHasRow,
     ResultsGiven, RowsTyped, OpsTyped, FramesTyped, ProviderTyped, Ops, OneDispatcher,
     DispatchedOp, Dispatching, LinkedLast, Verdicts, DispatchIsTrue, OutcomesOnRecord,
     AtMostOnce, Delivery
<1>28. ASSUME NEW c \in Clients, MarkSuperseded(c) PROVE Delivery'
  BY <1>28 DEF MarkSuperseded, HoldsLinkedOp, HasOp, OneOpEach, BusyHasRow, ResultsGiven,
     RowsTyped, OpsTyped, FramesTyped, ProviderTyped, Ops, OneDispatcher, DispatchedOp,
     Dispatching, LinkedLast, Verdicts, DispatchIsTrue, OutcomesOnRecord, AtMostOnce, Delivery
<1>29. ASSUME NEW c \in Clients, ClientCrash(c) PROVE Delivery'
  BY <1>29 DEF ClientCrash, HoldsLinkedOp, HasOp, OneOpEach, BusyHasRow, ResultsGiven, RowsTyped,
     OpsTyped, FramesTyped, ProviderTyped, Ops, OneDispatcher, DispatchedOp, Dispatching,
     LinkedLast, Verdicts, DispatchIsTrue, OutcomesOnRecord, AtMostOnce, Delivery
<1>30. ASSUME NEW c \in Clients, NEW d \in Drafts, StartSchedule(c, d) PROVE Delivery'
  BY <1>30 DEF StartSchedule, HoldsLinkedOp, HasOp, OneOpEach, BusyHasRow, ResultsGiven,
     RowsTyped, OpsTyped, FramesTyped, ProviderTyped, Ops, OneDispatcher, DispatchedOp,
     Dispatching, LinkedLast, Verdicts, DispatchIsTrue, OutcomesOnRecord, AtMostOnce, Delivery
<1>31. ASSUME NEW c \in Clients, NEW d \in Drafts, StartSendNow(c, d) PROVE Delivery'
  BY <1>31 DEF StartSendNow, HoldsLinkedOp, HasOp, OneOpEach, BusyHasRow, ResultsGiven, RowsTyped,
     OpsTyped, FramesTyped, ProviderTyped, Ops, OneDispatcher, DispatchedOp, Dispatching,
     LinkedLast, Verdicts, DispatchIsTrue, OutcomesOnRecord, AtMostOnce, Delivery
<1>32. ASSUME NEW c \in Clients, NEW s \in Schedules, CancelRow(c, s) PROVE Delivery'
  <2>1. (OneDispatcher /\ DispatchedOp)'
    BY <1>32 DEF CancelRow, HoldsLinkedOp, HasOp, OneOpEach, BusyHasRow, ResultsGiven, RowsTyped,
       OpsTyped, FramesTyped, ProviderTyped, Ops, OneDispatcher, DispatchedOp, Dispatching,
       LinkedLast, Verdicts
  <2>2. (DispatchIsTrue /\ OutcomesOnRecord)'
    BY <1>32 DEF CancelRow, HoldsLinkedOp, HasOp, OneOpEach, BusyHasRow, ResultsGiven, RowsTyped,
       OpsTyped, FramesTyped, ProviderTyped, Ops, OneDispatcher, DispatchIsTrue, Dispatching,
       Verdicts, OutcomesOnRecord, DispatchedOp, LinkedLast
  <2>3. AtMostOnce'
    BY <1>32 DEF CancelRow, AtMostOnce
  <2> QED BY <2>1, <2>2, <2>3 DEF Delivery
<1>33. ASSUME NEW o \in Ops, Poll(o) PROVE Delivery'
  BY <1>33 DEF Poll, HoldsLinkedOp, HasOp, OneOpEach, BusyHasRow, ResultsGiven, RowsTyped,
     OpsTyped, FramesTyped, ProviderTyped, Ops, OneDispatcher, DispatchedOp, Dispatching,
     LinkedLast, Verdicts, DispatchIsTrue, OutcomesOnRecord, AtMostOnce, Delivery
<1>34. ASSUME NEW s \in Schedules, BecomeDue(s) PROVE Delivery'
  BY <1>34 DEF BecomeDue, HoldsLinkedOp, HasOp, OneOpEach, BusyHasRow, ResultsGiven, RowsTyped,
     OpsTyped, FramesTyped, ProviderTyped, Ops, OneDispatcher, DispatchedOp, Dispatching,
     LinkedLast, Verdicts, DispatchIsTrue, OutcomesOnRecord, AtMostOnce, Delivery
<1>35. ASSUME NEW s \in Schedules, LeaseExpires(s) PROVE Delivery'
  BY <1>35 DEF LeaseExpires, HoldsLinkedOp, HasOp, OneOpEach, BusyHasRow, ResultsGiven, RowsTyped,
     OpsTyped, FramesTyped, ProviderTyped, Ops, OneDispatcher, DispatchedOp, Dispatching,
     LinkedLast, Verdicts, DispatchIsTrue, OutcomesOnRecord, AtMostOnce, Delivery
<1>36. ASSUME NEW s \in Schedules, Stall(s) PROVE Delivery'
  BY <1>36 DEF Stall, HoldsLinkedOp, HasOp, OneOpEach, BusyHasRow, ResultsGiven, RowsTyped,
     OpsTyped, FramesTyped, ProviderTyped, Ops, OneDispatcher, DispatchedOp, Dispatching,
     LinkedLast, Verdicts, DispatchIsTrue, OutcomesOnRecord, AtMostOnce, Delivery
<1>37. CASE UNCHANGED vars
  BY <1>37 DEF vars, Dispatching, Delivery, OneDispatcher, DispatchedOp, DispatchIsTrue,
     OutcomesOnRecord, AtMostOnce
<1> QED
  BY <1>1, <1>2, <1>3, <1>4, <1>5, <1>6, <1>7, <1>8, <1>9, <1>10, <1>11, <1>12, <1>13, <1>14,
     <1>15, <1>16, <1>17, <1>18, <1>19, <1>20, <1>21, <1>22, <1>23, <1>24, <1>25, <1>26, <1>27,
     <1>28, <1>29, <1>30, <1>31, <1>32, <1>33, <1>34, <1>35, <1>36, <1>37 DEF Next, WorkerStep,
     CallStep

\* A worker that goes on with its frame without calling the provider, or drops it, lets nothing
\* depart, and is a danger to its row only if it was one or knows of no departure.
LEMMA OneFrame ==
    ASSUME FramesTyped, BusyHasRow, NEW w \in Workers, UNCHANGED <<sched, owner, accepted>>,
           \A v \in Workers : v # w => /\ pc'[v] = pc[v] /\ job'[v] = job[v]
                                       /\ verdict'[v] = verdict[v] /\ out'[v] = out[v],
           pc[w] # "send", pc'[w] # "send", pc'[w] # "idle" => pc[w] # "idle" /\ job'[w] = job[w]
    PROVE  /\ NoRefusal /\ (MayRefuse(w)' => MayRefuse(w) \/ ~Departed(job[w])) => NoRefusal'
           /\ NoRetraction /\ (MayRetract(w)' => MayRetract(w) \/ ~Departed(job[w])) => NoRetraction'
           /\ FailedIsUnsent => FailedIsUnsent'
           /\ DepartedRows => DepartedRows'
<1>1. \A s \in Schedules : Departed(s)' => Departed(s)
  BY DEF Departed
<1>2. \A v \in Workers : MayRetract(v) => job[v] \in Schedules
  BY DEF MayRetract, MayRefuse, BusyHasRow, FramesTyped
<1>3. \A v \in Workers : MayRefuse(v) => MayRetract(v)
  BY DEF MayRetract
<1>4. \A v \in Workers : v # w => /\ MayRefuse(v)' = MayRefuse(v)
                                  /\ MayRetract(v)' = MayRetract(v)
                                  /\ HoldsClaim(v)' = HoldsClaim(v)
  BY DEF MayRetract, MayRefuse, HoldsClaim
<1>5. MayRetract(w)' => job'[w] = job[w] /\ job[w] \in Schedules /\ HoldsClaim(w)' = HoldsClaim(w)
  BY DEF MayRetract, MayRefuse, HoldsClaim, BusyHasRow, FramesTyped
<1>6. MayRefuse(w)' => MayRetract(w)'
  BY DEF MayRetract
<1>7. ASSUME NoRefusal, MayRefuse(w)' => MayRefuse(w) \/ ~Departed(job[w]) PROVE NoRefusal'
  <2> SUFFICES ASSUME NEW v \in Workers, MayRefuse(v)', Departed(job[v])' PROVE ~HoldsClaim(v)'
    BY DEF NoRefusal
  <2>1. CASE v = w
    BY <1>1, <1>5, <1>6, <1>7, <2>1 DEF NoRefusal
  <2>2. CASE v # w
    BY <1>1, <1>2, <1>3, <1>4, <1>7, <2>2 DEF NoRefusal
  <2> QED BY <2>1, <2>2
<1>8. ASSUME NoRetraction, MayRetract(w)' => MayRetract(w) \/ ~Departed(job[w]) PROVE NoRetraction'
  <2> SUFFICES ASSUME NEW v \in Workers, MayRetract(v)', Departed(job[v])' PROVE ~HoldsClaim(v)'
    BY DEF NoRetraction
  <2>1. CASE v = w
    BY <1>1, <1>5, <1>8, <2>1 DEF NoRetraction
  <2>2. CASE v # w
    BY <1>1, <1>2, <1>4, <1>8, <2>2 DEF NoRetraction
  <2> QED BY <2>1, <2>2
<1> QED BY <1>1, <1>7, <1>8 DEF FailedIsUnsent, DepartedRows

\* A worker that writes its row under its claim and drops its frame lets nothing depart, and
\* leaves no claim on the row it has written.
LEMMA LastWrite ==
    ASSUME RowsTyped, FramesTyped, BusyHasRow, NEW w \in Workers, DropFrame(w),
           pc[w] \notin {"idle", "send"}, accepted' = accepted,
           NEW status, UNCHANGED <<sched, owner>> \/ Release(w, status)
    PROVE  /\ \A s \in Schedules : Departed(s)' => Departed(s)
           /\ NoRefusal => NoRefusal'
           /\ NoRetraction => NoRetraction'
           /\ \A s \in Schedules : \/ sched'[s] = sched[s]
                                   \/ s = job[w] /\ HoldsClaim(w) /\ sched'[s] = status
<1>1. /\ pc'[w] = "idle"
      /\ \A v \in Workers : v # w => /\ pc'[v] = pc[v] /\ job'[v] = job[v]
                                     /\ verdict'[v] = verdict[v] /\ out'[v] = out[v]
  BY DEF DropFrame, FramesTyped
<1>2. \A s \in Schedules : Departed(s)' => Departed(s)
  BY <1>1 DEF Departed
<1>3. \A s \in Schedules :
          \/ sched'[s] = sched[s] /\ owner'[s] = owner[s]
          \/ s = job[w] /\ HoldsClaim(w) /\ sched'[s] = status /\ owner'[s] = None
  <2>1. job[w] \in Schedules
    BY DEF BusyHasRow, FramesTyped
  <2>2. CASE UNCHANGED <<sched, owner>>
    BY <2>2
  <2>3. CASE Release(w, status) /\ HoldsClaim(w)
    <3>1. /\ sched' = [sched EXCEPT ![job[w]] = status]
          /\ owner' = [owner EXCEPT ![job[w]] = None]
      BY <2>3 DEF Release
    <3> QED BY <2>1, <2>3, <3>1 DEF RowsTyped
  <2>4. CASE Release(w, status) /\ ~HoldsClaim(w)
    BY <2>4 DEF Release
  <2> QED BY <2>2, <2>3, <2>4
<1>4. ~MayRetract(w)'
  BY <1>1 DEF MayRetract, MayRefuse
<1>5. ASSUME NEW v \in Workers, MayRetract(v)'
      PROVE  /\ MayRetract(v) /\ (MayRefuse(v)' => MayRefuse(v)) /\ job'[v] = job[v] /\ job[v] \in Schedules
             /\ HoldsClaim(v)' => HoldsClaim(v)
  <2>1. v # w /\ MayRetract(v) /\ (MayRefuse(v)' => MayRefuse(v)) /\ job'[v] = job[v]
    BY <1>1, <1>4, <1>5 DEF MayRetract, MayRefuse
  <2>2. job[v] \in Schedules
    BY <2>1 DEF MayRetract, MayRefuse, BusyHasRow, FramesTyped
  <2>3. HoldsClaim(v)' => HoldsClaim(v)
    BY <1>3, <2>1, <2>2, ConstantsOK DEF HoldsClaim
  <2> QED BY <2>1, <2>2, <2>3
<1>6. \A v \in Workers : MayRefuse(v)' => MayRetract(v)'
  BY DEF MayRetract
<1>7. NoRefusal => NoRefusal'
  BY <1>2, <1>5, <1>6 DEF NoRefusal
<1>8. NoRetraction => NoRetraction'
  BY <1>2, <1>5 DEF NoRetraction
<1> QED BY <1>2, <1>3, <1>7, <1>8

\* As long as no statement fails, every step keeps rows from being taken back after a departure.
LEMMA RowsStep ==
    ASSUME TypeOK, Consistent, Delivery, NoRetraction, DepartedRows, [Next]_vars
    PROVE  (NoRetraction /\ DepartedRows)'
<1> USE ConstantsOK DEF Goto, CallGoto, rows, ops, frames, calls, provider
<1> /\ RowsTyped /\ OpsTyped /\ FramesTyped /\ CallsTyped /\ ProviderTyped
    /\ BusyHasRow /\ HoldsLinkedOp /\ OneOpEach /\ LinkedLast
    /\ OneDispatcher /\ DispatchedOp /\ DispatchIsTrue
  BY DEF TypeOK, Consistent, Delivery
<1> Quiet /\ NoOp
  BY NothingDeparted
<1>1. ASSUME NEW w \in Workers, NEW s \in Schedules, Claim(w, s) PROVE (NoRetraction /\ DepartedRows)'
  BY <1>1 DEF Claim, Claimable, RowsTyped, OpsTyped, FramesTyped, ProviderTyped, Ops, BusyHasRow,
     HoldsLinkedOp, HasOp, OneOpEach, OneDispatcher, DispatchedOp, DispatchIsTrue, Dispatching,
     Quiet, NoOp, NoRetraction, MayRetract, MayRefuse, DepartedRows, HoldsClaim, Departed
<1>2. ASSUME NEW w \in Workers, Confirm(w) PROVE (NoRetraction /\ DepartedRows)'
  <2>1. ~MayRetract(w)'
    BY <1>2 DEF Confirm, Owns, Disowned, Return, DropFrame, MayRetract, MayRefuse, FramesTyped
  <2> QED BY <1>2, <2>1, OneFrame DEF Confirm, Owns, Disowned, Return, DropFrame, FramesTyped
<1>3. ASSUME NEW w \in Workers, Lookup(w) PROVE (NoRetraction /\ DepartedRows)'
  <2>1. (\A o \in Ops : opSched[o] # job[w]) => ~Departed(job[w])
    BY <1>3 DEF Lookup, NoOp, BusyHasRow, FramesTyped
  <2>2. \A o \in Linked(job[w]) : opStatus[o] \in {"queued", "failed"} => ~Departed(job[w])
    BY <1>3 DEF Lookup, Linked, Quiet, BusyHasRow, FramesTyped
  <2>3. MayRetract(w)' => ~Departed(job[w])
    BY <1>3, <2>1, <2>2 DEF Lookup, Linked, MayRetract, MayRefuse, FramesTyped
  <2> QED BY <1>3, <2>3, OneFrame DEF Lookup, FramesTyped
<1>4. ASSUME NEW w \in Workers, InsertOp(w) PROVE (NoRetraction /\ DepartedRows)'
  <2>1. MayRetract(w)' => MayRetract(w)
    BY <1>4 DEF InsertOp, Linked, MayRetract, MayRefuse, FramesTyped
  <2> QED BY <1>4, <2>1, OneFrame DEF InsertOp, Linked, FramesTyped
<1>5. ASSUME NEW w \in Workers, MarkOp(w) PROVE (NoRetraction /\ DepartedRows)'
  BY <1>5 DEF MarkOp, RowsTyped, OpsTyped, FramesTyped, ProviderTyped, Ops, BusyHasRow,
     HoldsLinkedOp, HasOp, OneOpEach, OneDispatcher, DispatchedOp, DispatchIsTrue, Dispatching,
     Quiet, NoOp, NoRetraction, MayRetract, MayRefuse, DepartedRows, HoldsClaim, Departed
<1>6. ASSUME NEW w \in Workers, Preflight(w) PROVE (NoRetraction /\ DepartedRows)'
  <2>1. MayRetract(w)' => MayRetract(w)
    BY <1>6 DEF Preflight, MayRetract, MayRefuse, FramesTyped
  <2> QED BY <1>6, <2>1, OneFrame DEF Preflight, FramesTyped
<1>7. ASSUME NEW w \in Workers, RejectOp(w) PROVE (NoRetraction /\ DepartedRows)'
  BY <1>7 DEF RejectOp, RowsTyped, OpsTyped, FramesTyped, ProviderTyped, Ops, BusyHasRow,
     HoldsLinkedOp, HasOp, OneOpEach, OneDispatcher, DispatchedOp, DispatchIsTrue, Dispatching,
     Quiet, NoOp, NoRetraction, MayRetract, MayRefuse, DepartedRows, HoldsClaim, Departed
<1>8. ASSUME NEW w \in Workers, Check(w) PROVE (NoRetraction /\ DepartedRows)'
  <2>1. MayRetract(w)' => MayRetract(w)
    BY <1>8 DEF Check, Owns, Disowned, Return, DropFrame, MayRetract, MayRefuse, FramesTyped
  <2> QED BY <1>8, <2>1, OneFrame DEF Check, Owns, Disowned, Return, DropFrame, FramesTyped
<1>9. ASSUME NEW w \in Workers, Dispatch(w) PROVE (NoRetraction /\ DepartedRows)'
  BY <1>9 DEF Dispatch, RowsTyped, OpsTyped, FramesTyped, ProviderTyped, Ops, BusyHasRow,
     HoldsLinkedOp, HasOp, OneOpEach, OneDispatcher, DispatchedOp, DispatchIsTrue, Dispatching,
     Quiet, NoOp, NoRetraction, MayRetract, MayRefuse, DepartedRows, HoldsClaim, Departed
<1>10. ASSUME NEW w \in Workers, Connect(w) PROVE (NoRetraction /\ DepartedRows)'
  <2>1. /\ UNCHANGED <<sched, owner, accepted, job, out>> /\ pc[w] = "connect" /\ pc'[w] \in {"send", "finish"}
        /\ \A v \in Workers : v # w => pc'[v] = pc[v] /\ verdict'[v] = verdict[v]
    BY <1>10 DEF Connect, FramesTyped
  <2>2. MayRetract(w)
    BY <2>1 DEF MayRetract, MayRefuse
  <2>3. CASE pc'[w] = "finish"
    BY <2>1, <2>2, <2>3, OneFrame
  <2>4. CASE pc'[w] = "send"
    <3>1. HoldsClaim(w)
      BY <1>10, <2>1, <2>4 DEF Connect, Owns, FramesTyped
    <3>2. \A s \in Schedules : Departed(s)' => Departed(s) \/ s = job[w]
      BY <2>1 DEF Departed
    <3>3. ~MayRetract(w)'
      BY <2>4 DEF MayRetract, MayRefuse
    <3>4. ASSUME NEW v \in Workers, v # w, MayRetract(v)'
          PROVE  MayRetract(v) /\ HoldsClaim(v)' = HoldsClaim(v) /\ job[v] \in Schedules
      BY <2>1, <3>4 DEF MayRetract, MayRefuse, HoldsClaim, BusyHasRow, FramesTyped
    <3>5. \A v \in Workers : v # w /\ job[v] = job[w] => ~HoldsClaim(v)
      BY <3>1 DEF HoldsClaim
    <3>6. NoRetraction'
      BY <2>1, <3>2, <3>3, <3>4, <3>5 DEF NoRetraction
    <3>7. DepartedRows'
      BY <2>1, <3>1, <3>2 DEF DepartedRows, HoldsClaim
    <3> QED BY <3>6, <3>7
  <2> QED BY <2>1, <2>3, <2>4
<1>11. ASSUME NEW w \in Workers, ProviderAccepts(w) PROVE (NoRetraction /\ DepartedRows)'
  BY <1>11 DEF ProviderAccepts, RowsTyped, OpsTyped, FramesTyped, ProviderTyped, Ops, BusyHasRow,
     HoldsLinkedOp, HasOp, OneOpEach, OneDispatcher, DispatchedOp, DispatchIsTrue, Dispatching,
     Quiet, NoOp, NoRetraction, MayRetract, MayRefuse, DepartedRows, HoldsClaim, Departed
<1>12. ASSUME NEW w \in Workers, ProviderRefuses(w) PROVE (NoRetraction /\ DepartedRows)'
  BY <1>12 DEF ProviderRefuses, RowsTyped, OpsTyped, FramesTyped, ProviderTyped, Ops, BusyHasRow,
     HoldsLinkedOp, HasOp, OneOpEach, OneDispatcher, DispatchedOp, DispatchIsTrue, Dispatching,
     Quiet, NoOp, NoRetraction, MayRetract, MayRefuse, DepartedRows, HoldsClaim, Departed
<1>13. ASSUME NEW w \in Workers, Supersede(w) PROVE (NoRetraction /\ DepartedRows)'
  BY <1>13 DEF Supersede, PendingFor, RowsTyped, OpsTyped, FramesTyped, ProviderTyped, Ops,
     BusyHasRow, HoldsLinkedOp, HasOp, OneOpEach, OneDispatcher, DispatchedOp, DispatchIsTrue,
     Dispatching, Quiet, NoOp, NoRetraction, MayRetract, MayRefuse, DepartedRows, HoldsClaim,
     Departed
<1>14. ASSUME NEW w \in Workers, MarkOther(w) PROVE (NoRetraction /\ DepartedRows)'
  BY <1>14 DEF MarkOther, RowsTyped, OpsTyped, FramesTyped, ProviderTyped, Ops, BusyHasRow,
     HoldsLinkedOp, HasOp, OneOpEach, OneDispatcher, DispatchedOp, DispatchIsTrue, Dispatching,
     Quiet, NoOp, NoRetraction, MayRetract, MayRefuse, DepartedRows, HoldsClaim, Departed
<1>15. ASSUME NEW w \in Workers, Finish(w) PROVE (NoRetraction /\ DepartedRows)'
  BY <1>15 DEF Finish, RowsTyped, OpsTyped, FramesTyped, ProviderTyped, Ops, BusyHasRow,
     HoldsLinkedOp, HasOp, OneOpEach, OneDispatcher, DispatchedOp, DispatchIsTrue, Dispatching,
     Quiet, NoOp, NoRetraction, MayRetract, MayRefuse, DepartedRows, HoldsClaim, Departed
<1>16. ASSUME NEW w \in Workers, Reread(w) PROVE (NoRetraction /\ DepartedRows)'
  BY <1>16 DEF Reread, RowsTyped, OpsTyped, FramesTyped, ProviderTyped, Ops, BusyHasRow,
     HoldsLinkedOp, HasOp, OneOpEach, OneDispatcher, DispatchedOp, DispatchIsTrue, Dispatching,
     Quiet, NoOp, NoRetraction, MayRetract, MayRefuse, DepartedRows, HoldsClaim, Departed
<1>17. ASSUME NEW w \in Workers, Record(w) PROVE (NoRetraction /\ DepartedRows)'
  <2>1. PICK status : /\ UNCHANGED <<sched, owner>> \/ Release(w, status)
                      /\ status \in {"sent", "uncertain"} \/ (status = "failed" /\ out[w] = "failed")
    BY <1>17 DEF Record
  <2>2. /\ NoRetraction'
        /\ \A s \in Schedules : Departed(s)' => Departed(s)
        /\ \A s \in Schedules : sched'[s] = sched[s] \/ (s = job[w] /\ HoldsClaim(w) /\ sched'[s] = status)
    BY <1>17, <2>1, LastWrite DEF Record, Return
  <2>3. status = "failed" /\ HoldsClaim(w) => ~Departed(job[w])
    BY <1>17, <2>1 DEF Record, Return, NoRetraction, MayRetract, MayRefuse
  <2> QED BY <2>1, <2>2, <2>3 DEF DepartedRows
<1>18. ASSUME NEW w \in Workers, Fail(w) PROVE (NoRetraction /\ DepartedRows)'
  <2>1. /\ NoRetraction'
        /\ \A s \in Schedules : Departed(s)' => Departed(s)
        /\ \A s \in Schedules : sched'[s] = sched[s] \/ (s = job[w] /\ HoldsClaim(w))
    BY <1>18, LastWrite DEF Fail, Return
  <2>2. HoldsClaim(w) => ~Departed(job[w])
    BY <1>18 DEF Fail, Return, NoRetraction, MayRetract, MayRefuse
  <2> QED BY <2>1, <2>2 DEF DepartedRows
<1>19. ASSUME NEW w \in Workers, Retry(w) PROVE (NoRetraction /\ DepartedRows)'
  <2>1. /\ NoRetraction'
        /\ \A s \in Schedules : Departed(s)' => Departed(s)
        /\ \A s \in Schedules : sched'[s] = sched[s] \/ (s = job[w] /\ HoldsClaim(w))
    BY <1>19, LastWrite DEF Retry, Return
  <2>2. HoldsClaim(w) => ~Departed(job[w])
    BY <1>19 DEF Retry, Return, NoRetraction, MayRetract
  <2> QED BY <2>1, <2>2 DEF DepartedRows
<1>20. ASSUME NEW w \in Workers, Heartbeat(w) PROVE (NoRetraction /\ DepartedRows)'
  BY <1>20 DEF Heartbeat, Owns, Disowned, RowsTyped, OpsTyped, FramesTyped, ProviderTyped, Ops,
     BusyHasRow, HoldsLinkedOp, HasOp, OneOpEach, OneDispatcher, DispatchedOp, DispatchIsTrue,
     Dispatching, Quiet, NoOp, NoRetraction, MayRetract, MayRefuse, DepartedRows, HoldsClaim,
     Departed
<1>21. ASSUME NEW w \in Workers, Crash(w) PROVE (NoRetraction /\ DepartedRows)'
  BY <1>21 DEF Crash, DropFrame, RowsTyped, OpsTyped, FramesTyped, ProviderTyped, Ops, BusyHasRow,
     HoldsLinkedOp, HasOp, OneOpEach, OneDispatcher, DispatchedOp, DispatchIsTrue, Dispatching,
     Quiet, NoOp, NoRetraction, MayRetract, MayRefuse, DepartedRows, HoldsClaim, Departed
<1>22. ASSUME NEW c \in Clients, FetchDraft(c) PROVE (NoRetraction /\ DepartedRows)'
  BY <1>22 DEF FetchDraft, RowsTyped, OpsTyped, FramesTyped, ProviderTyped, Ops, BusyHasRow,
     HoldsLinkedOp, HasOp, OneOpEach, LinkedLast, OneDispatcher, DispatchedOp, DispatchIsTrue,
     Dispatching, Quiet, NoOp, NoRetraction, MayRetract, MayRefuse, DepartedRows, HoldsClaim,
     Departed
<1>23. ASSUME NEW c \in Clients, InsertRow(c) PROVE (NoRetraction /\ DepartedRows)'
  <2>1. /\ UNCHANGED <<pc, frames, owner, accepted>>
        /\ \A s \in Schedules : sched'[s] = sched[s] \/ (sched[s] = "absent" /\ sched'[s] = "pending")
    <3>1. UNCHANGED <<pc, frames, owner, accepted>>
      BY <1>23 DEF InsertRow
    <3>2. \/ UNCHANGED sched
          \/ \E s \in Schedules : sched[s] = "absent" /\ sched' = [sched EXCEPT ![s] = "pending"]
      BY <1>23 DEF InsertRow
    <3>3. \A s \in Schedules : sched'[s] = sched[s] \/ (sched[s] = "absent" /\ sched'[s] = "pending")
      BY <3>2 DEF RowsTyped
    <3> QED BY <3>1, <3>3
  <2>2. \A v \in Workers : MayRetract(v) => job[v] \in Schedules
    BY DEF MayRetract, MayRefuse, BusyHasRow, FramesTyped
  <2>3. \A s \in Schedules : Departed(s)' = Departed(s)
    BY <2>1 DEF Departed
  <2>4. NoRetraction'
    BY <2>1, <2>2, <2>3 DEF NoRetraction, MayRetract, MayRefuse, HoldsClaim
  <2>5. DepartedRows'
    BY <2>1, <2>3 DEF DepartedRows
  <2> QED BY <2>4, <2>5
<1>24. ASSUME NEW c \in Clients, Link(c) PROVE (NoRetraction /\ DepartedRows)'
  BY <1>24 DEF Link, Linked, RowsTyped, OpsTyped, FramesTyped, ProviderTyped, Ops, BusyHasRow,
     HoldsLinkedOp, HasOp, OneOpEach, LinkedLast, OneDispatcher, DispatchedOp, DispatchIsTrue,
     Dispatching, Quiet, NoOp, NoRetraction, MayRetract, MayRefuse, DepartedRows, HoldsClaim,
     Departed
<1>25. ASSUME NEW c \in Clients, CancelOp(c) PROVE (NoRetraction /\ DepartedRows)'
  BY <1>25 DEF CancelOp, RowsTyped, OpsTyped, FramesTyped, ProviderTyped, Ops, BusyHasRow,
     HoldsLinkedOp, HasOp, OneOpEach, LinkedLast, OneDispatcher, DispatchedOp, DispatchIsTrue,
     Dispatching, Quiet, NoOp, NoRetraction, MayRetract, MayRefuse, DepartedRows, HoldsClaim,
     Departed
<1>26. ASSUME NEW c \in Clients, SendNow(c) PROVE (NoRetraction /\ DepartedRows)'
  BY <1>26 DEF SendNow, RowsTyped, OpsTyped, FramesTyped, ProviderTyped, Ops, BusyHasRow,
     HoldsLinkedOp, HasOp, OneOpEach, LinkedLast, OneDispatcher, DispatchedOp, DispatchIsTrue,
     Dispatching, Quiet, NoOp, NoRetraction, MayRetract, MayRefuse, DepartedRows, HoldsClaim,
     Departed
<1>27. ASSUME NEW c \in Clients, FindSuperseded(c) PROVE (NoRetraction /\ DepartedRows)'
  BY <1>27 DEF FindSuperseded, PendingFor, RowsTyped, OpsTyped, FramesTyped, ProviderTyped, Ops,
     BusyHasRow, HoldsLinkedOp, HasOp, OneOpEach, LinkedLast, OneDispatcher, DispatchedOp,
     DispatchIsTrue, Dispatching, Quiet, NoOp, NoRetraction, MayRetract, MayRefuse, DepartedRows,
     HoldsClaim, Departed
<1>28. ASSUME NEW c \in Clients, MarkSuperseded(c) PROVE (NoRetraction /\ DepartedRows)'
  BY <1>28 DEF MarkSuperseded, RowsTyped, OpsTyped, FramesTyped, ProviderTyped, Ops, BusyHasRow,
     HoldsLinkedOp, HasOp, OneOpEach, LinkedLast, OneDispatcher, DispatchedOp, DispatchIsTrue,
     Dispatching, Quiet, NoOp, NoRetraction, MayRetract, MayRefuse, DepartedRows, HoldsClaim,
     Departed
<1>29. ASSUME NEW c \in Clients, ClientCrash(c) PROVE (NoRetraction /\ DepartedRows)'
  BY <1>29 DEF ClientCrash, RowsTyped, OpsTyped, FramesTyped, ProviderTyped, Ops, BusyHasRow,
     HoldsLinkedOp, HasOp, OneOpEach, LinkedLast, OneDispatcher, DispatchedOp, DispatchIsTrue,
     Dispatching, Quiet, NoOp, NoRetraction, MayRetract, MayRefuse, DepartedRows, HoldsClaim,
     Departed
<1>30. ASSUME NEW c \in Clients, NEW d \in Drafts, StartSchedule(c, d) PROVE (NoRetraction /\ DepartedRows)'
  BY <1>30 DEF StartSchedule, RowsTyped, OpsTyped, FramesTyped, ProviderTyped, Ops, BusyHasRow,
     HoldsLinkedOp, HasOp, OneOpEach, LinkedLast, OneDispatcher, DispatchedOp, DispatchIsTrue,
     Dispatching, Quiet, NoOp, NoRetraction, MayRetract, MayRefuse, DepartedRows, HoldsClaim,
     Departed
<1>31. ASSUME NEW c \in Clients, NEW d \in Drafts, StartSendNow(c, d) PROVE (NoRetraction /\ DepartedRows)'
  BY <1>31 DEF StartSendNow, RowsTyped, OpsTyped, FramesTyped, ProviderTyped, Ops, BusyHasRow,
     HoldsLinkedOp, HasOp, OneOpEach, LinkedLast, OneDispatcher, DispatchedOp, DispatchIsTrue,
     Dispatching, Quiet, NoOp, NoRetraction, MayRetract, MayRefuse, DepartedRows, HoldsClaim,
     Departed
<1>32. ASSUME NEW c \in Clients, NEW s \in Schedules, CancelRow(c, s) PROVE (NoRetraction /\ DepartedRows)'
  BY <1>32 DEF CancelRow, RowsTyped, OpsTyped, FramesTyped, ProviderTyped, Ops, BusyHasRow,
     HoldsLinkedOp, HasOp, OneOpEach, LinkedLast, OneDispatcher, DispatchedOp, DispatchIsTrue,
     Dispatching, Quiet, NoOp, NoRetraction, MayRetract, MayRefuse, DepartedRows, HoldsClaim,
     Departed
<1>33. ASSUME NEW o \in Ops, Poll(o) PROVE (NoRetraction /\ DepartedRows)'
  BY <1>33 DEF Poll, RowsTyped, OpsTyped, FramesTyped, ProviderTyped, Ops, BusyHasRow,
     HoldsLinkedOp, HasOp, OneOpEach, OneDispatcher, DispatchedOp, DispatchIsTrue, Dispatching,
     Quiet, NoOp, NoRetraction, MayRetract, MayRefuse, DepartedRows, HoldsClaim, Departed
<1>34. ASSUME NEW s \in Schedules, BecomeDue(s) PROVE (NoRetraction /\ DepartedRows)'
  BY <1>34 DEF BecomeDue, RowsTyped, OpsTyped, FramesTyped, ProviderTyped, Ops, BusyHasRow,
     HoldsLinkedOp, HasOp, OneOpEach, OneDispatcher, DispatchedOp, DispatchIsTrue, Dispatching,
     Quiet, NoOp, NoRetraction, MayRetract, MayRefuse, DepartedRows, HoldsClaim, Departed
<1>35. ASSUME NEW s \in Schedules, LeaseExpires(s) PROVE (NoRetraction /\ DepartedRows)'
  BY <1>35 DEF LeaseExpires, RowsTyped, OpsTyped, FramesTyped, ProviderTyped, Ops, BusyHasRow,
     HoldsLinkedOp, HasOp, OneOpEach, OneDispatcher, DispatchedOp, DispatchIsTrue, Dispatching,
     Quiet, NoOp, NoRetraction, MayRetract, MayRefuse, DepartedRows, HoldsClaim, Departed
<1>36. ASSUME NEW s \in Schedules, Stall(s) PROVE (NoRetraction /\ DepartedRows)'
  BY <1>36 DEF Stall, RowsTyped, OpsTyped, FramesTyped, ProviderTyped, Ops, BusyHasRow,
     HoldsLinkedOp, HasOp, OneOpEach, OneDispatcher, DispatchedOp, DispatchIsTrue, Dispatching,
     Quiet, NoOp, NoRetraction, MayRetract, MayRefuse, DepartedRows, HoldsClaim, Departed
<1>37. CASE UNCHANGED vars
  BY <1>37 DEF vars, NoRetraction, MayRetract, MayRefuse, DepartedRows, HoldsClaim, Departed
<1> QED
  BY <1>1, <1>2, <1>3, <1>4, <1>5, <1>6, <1>7, <1>8, <1>9, <1>10, <1>11, <1>12, <1>13, <1>14,
     <1>15, <1>16, <1>17, <1>18, <1>19, <1>20, <1>21, <1>22, <1>23, <1>24, <1>25, <1>26, <1>27,
     <1>28, <1>29, <1>30, <1>31, <1>32, <1>33, <1>34, <1>35, <1>36, <1>37 DEF Next, WorkerStep,
     CallStep

\* Whatever failed before, every step keeps rows from being failed after a departure.
LEMMA RefusalStep ==
    ASSUME TypeOK, Consistent, Delivery, NoRefusal, FailedIsUnsent, [Next]_vars
    PROVE  (NoRefusal /\ FailedIsUnsent)'
<1> USE ConstantsOK DEF Goto, CallGoto, rows, ops, frames, calls, provider
<1> /\ RowsTyped /\ OpsTyped /\ FramesTyped /\ CallsTyped /\ ProviderTyped
    /\ BusyHasRow /\ HoldsLinkedOp /\ OneOpEach /\ LinkedLast
    /\ OneDispatcher /\ DispatchedOp /\ DispatchIsTrue
  BY DEF TypeOK, Consistent, Delivery
<1> Quiet /\ NoOp
  BY NothingDeparted
<1>1. ASSUME NEW w \in Workers, NEW s \in Schedules, Claim(w, s) PROVE (NoRefusal /\ FailedIsUnsent)'
  BY <1>1 DEF Claim, Claimable, RowsTyped, OpsTyped, FramesTyped, ProviderTyped, Ops, BusyHasRow,
     HoldsLinkedOp, HasOp, OneOpEach, OneDispatcher, DispatchedOp, DispatchIsTrue, Dispatching,
     Quiet, NoOp, NoRefusal, MayRefuse, FailedIsUnsent, HoldsClaim, Departed
<1>2. ASSUME NEW w \in Workers, Confirm(w) PROVE (NoRefusal /\ FailedIsUnsent)'
  <2>1. ~MayRefuse(w)'
    BY <1>2 DEF Confirm, Owns, Disowned, Return, DropFrame, MayRefuse, FramesTyped
  <2> QED BY <1>2, <2>1, OneFrame DEF Confirm, Owns, Disowned, Return, DropFrame, FramesTyped
<1>3. ASSUME NEW w \in Workers, Lookup(w) PROVE (NoRefusal /\ FailedIsUnsent)'
  <2>1. (\A o \in Ops : opSched[o] # job[w]) => ~Departed(job[w])
    BY <1>3 DEF Lookup, NoOp, BusyHasRow, FramesTyped
  <2>2. \A o \in Linked(job[w]) : opStatus[o] \in {"queued", "failed"} => ~Departed(job[w])
    BY <1>3 DEF Lookup, Linked, Quiet, BusyHasRow, FramesTyped
  <2>3. MayRefuse(w)' => ~Departed(job[w])
    BY <1>3, <2>1, <2>2 DEF Lookup, Linked, MayRefuse, FramesTyped
  <2> QED BY <1>3, <2>3, OneFrame DEF Lookup, FramesTyped
<1>4. ASSUME NEW w \in Workers, InsertOp(w) PROVE (NoRefusal /\ FailedIsUnsent)'
  <2>1. MayRefuse(w)' => MayRefuse(w)
    BY <1>4 DEF InsertOp, Linked, MayRefuse, FramesTyped
  <2> QED BY <1>4, <2>1, OneFrame DEF InsertOp, Linked, FramesTyped
<1>5. ASSUME NEW w \in Workers, MarkOp(w) PROVE (NoRefusal /\ FailedIsUnsent)'
  BY <1>5 DEF MarkOp, RowsTyped, OpsTyped, FramesTyped, ProviderTyped, Ops, BusyHasRow,
     HoldsLinkedOp, HasOp, OneOpEach, OneDispatcher, DispatchedOp, DispatchIsTrue, Dispatching,
     Quiet, NoOp, NoRefusal, MayRefuse, FailedIsUnsent, HoldsClaim, Departed
<1>6. ASSUME NEW w \in Workers, Preflight(w) PROVE (NoRefusal /\ FailedIsUnsent)'
  <2>1. MayRefuse(w)' => MayRefuse(w)
    BY <1>6 DEF Preflight, MayRefuse, FramesTyped
  <2> QED BY <1>6, <2>1, OneFrame DEF Preflight, FramesTyped
<1>7. ASSUME NEW w \in Workers, RejectOp(w) PROVE (NoRefusal /\ FailedIsUnsent)'
  BY <1>7 DEF RejectOp, RowsTyped, OpsTyped, FramesTyped, ProviderTyped, Ops, BusyHasRow,
     HoldsLinkedOp, HasOp, OneOpEach, OneDispatcher, DispatchedOp, DispatchIsTrue, Dispatching,
     Quiet, NoOp, NoRefusal, MayRefuse, FailedIsUnsent, HoldsClaim, Departed
<1>8. ASSUME NEW w \in Workers, Check(w) PROVE (NoRefusal /\ FailedIsUnsent)'
  <2>1. MayRefuse(w)' => MayRefuse(w)
    BY <1>8 DEF Check, Owns, Disowned, Return, DropFrame, MayRefuse, FramesTyped
  <2> QED BY <1>8, <2>1, OneFrame DEF Check, Owns, Disowned, Return, DropFrame, FramesTyped
<1>9. ASSUME NEW w \in Workers, Dispatch(w) PROVE (NoRefusal /\ FailedIsUnsent)'
  BY <1>9 DEF Dispatch, RowsTyped, OpsTyped, FramesTyped, ProviderTyped, Ops, BusyHasRow,
     HoldsLinkedOp, HasOp, OneOpEach, OneDispatcher, DispatchedOp, DispatchIsTrue, Dispatching,
     Quiet, NoOp, NoRefusal, MayRefuse, FailedIsUnsent, HoldsClaim, Departed
<1>10. ASSUME NEW w \in Workers, Connect(w) PROVE (NoRefusal /\ FailedIsUnsent)'
  <2>1. /\ UNCHANGED <<sched, owner, accepted, job, out>> /\ pc[w] = "connect" /\ pc'[w] \in {"send", "finish"}
        /\ \A v \in Workers : v # w => pc'[v] = pc[v] /\ verdict'[v] = verdict[v]
    BY <1>10 DEF Connect, FramesTyped
  <2>2. MayRefuse(w)
    BY <2>1 DEF MayRetract, MayRefuse
  <2>3. CASE pc'[w] = "finish"
    BY <2>1, <2>2, <2>3, OneFrame
  <2>4. CASE pc'[w] = "send"
    <3>1. HoldsClaim(w)
      BY <1>10, <2>1, <2>4 DEF Connect, Owns, FramesTyped
    <3>2. \A s \in Schedules : Departed(s)' => Departed(s) \/ s = job[w]
      BY <2>1 DEF Departed
    <3>3. ~MayRefuse(w)'
      BY <2>4 DEF MayRetract, MayRefuse
    <3>4. ASSUME NEW v \in Workers, v # w, MayRefuse(v)'
          PROVE  MayRefuse(v) /\ HoldsClaim(v)' = HoldsClaim(v) /\ job[v] \in Schedules
      BY <2>1, <3>4 DEF MayRetract, MayRefuse, HoldsClaim, BusyHasRow, FramesTyped
    <3>5. \A v \in Workers : v # w /\ job[v] = job[w] => ~HoldsClaim(v)
      BY <3>1 DEF HoldsClaim
    <3>6. NoRefusal'
      BY <2>1, <3>2, <3>3, <3>4, <3>5 DEF NoRefusal
    <3>7. FailedIsUnsent'
      BY <2>1, <3>1, <3>2 DEF FailedIsUnsent, HoldsClaim
    <3> QED BY <3>6, <3>7
  <2> QED BY <2>1, <2>3, <2>4
<1>11. ASSUME NEW w \in Workers, ProviderAccepts(w) PROVE (NoRefusal /\ FailedIsUnsent)'
  BY <1>11 DEF ProviderAccepts, RowsTyped, OpsTyped, FramesTyped, ProviderTyped, Ops, BusyHasRow,
     HoldsLinkedOp, HasOp, OneOpEach, OneDispatcher, DispatchedOp, DispatchIsTrue, Dispatching,
     Quiet, NoOp, NoRefusal, MayRefuse, FailedIsUnsent, HoldsClaim, Departed
<1>12. ASSUME NEW w \in Workers, ProviderRefuses(w) PROVE (NoRefusal /\ FailedIsUnsent)'
  BY <1>12 DEF ProviderRefuses, RowsTyped, OpsTyped, FramesTyped, ProviderTyped, Ops, BusyHasRow,
     HoldsLinkedOp, HasOp, OneOpEach, OneDispatcher, DispatchedOp, DispatchIsTrue, Dispatching,
     Quiet, NoOp, NoRefusal, MayRefuse, FailedIsUnsent, HoldsClaim, Departed
<1>13. ASSUME NEW w \in Workers, Supersede(w) PROVE (NoRefusal /\ FailedIsUnsent)'
  BY <1>13 DEF Supersede, PendingFor, RowsTyped, OpsTyped, FramesTyped, ProviderTyped, Ops,
     BusyHasRow, HoldsLinkedOp, HasOp, OneOpEach, OneDispatcher, DispatchedOp, DispatchIsTrue,
     Dispatching, Quiet, NoOp, NoRefusal, MayRefuse, FailedIsUnsent, HoldsClaim, Departed
<1>14. ASSUME NEW w \in Workers, MarkOther(w) PROVE (NoRefusal /\ FailedIsUnsent)'
  BY <1>14 DEF MarkOther, RowsTyped, OpsTyped, FramesTyped, ProviderTyped, Ops, BusyHasRow,
     HoldsLinkedOp, HasOp, OneOpEach, OneDispatcher, DispatchedOp, DispatchIsTrue, Dispatching,
     Quiet, NoOp, NoRefusal, MayRefuse, FailedIsUnsent, HoldsClaim, Departed
<1>15. ASSUME NEW w \in Workers, Finish(w) PROVE (NoRefusal /\ FailedIsUnsent)'
  BY <1>15 DEF Finish, RowsTyped, OpsTyped, FramesTyped, ProviderTyped, Ops, BusyHasRow,
     HoldsLinkedOp, HasOp, OneOpEach, OneDispatcher, DispatchedOp, DispatchIsTrue, Dispatching,
     Quiet, NoOp, NoRefusal, MayRefuse, FailedIsUnsent, HoldsClaim, Departed
<1>16. ASSUME NEW w \in Workers, Reread(w) PROVE (NoRefusal /\ FailedIsUnsent)'
  BY <1>16 DEF Reread, RowsTyped, OpsTyped, FramesTyped, ProviderTyped, Ops, BusyHasRow,
     HoldsLinkedOp, HasOp, OneOpEach, OneDispatcher, DispatchedOp, DispatchIsTrue, Dispatching,
     Quiet, NoOp, NoRefusal, MayRefuse, FailedIsUnsent, HoldsClaim, Departed
<1>17. ASSUME NEW w \in Workers, Record(w) PROVE (NoRefusal /\ FailedIsUnsent)'
  <2>1. PICK status : /\ UNCHANGED <<sched, owner>> \/ Release(w, status)
                      /\ status = "failed" => out[w] = "failed"
    BY <1>17 DEF Record
  <2>2. /\ NoRefusal'
        /\ \A s \in Schedules : Departed(s)' => Departed(s)
        /\ \A s \in Schedules : \/ sched'[s] = sched[s]
                                \/ s = job[w] /\ HoldsClaim(w) /\ sched'[s] = status
    BY <1>17, <2>1, LastWrite DEF Record, Return
  <2>3. status = "failed" /\ HoldsClaim(w) => ~Departed(job[w])
    BY <1>17, <2>1 DEF Record, Return, NoRefusal, MayRefuse
  <2> QED BY <2>2, <2>3 DEF FailedIsUnsent
<1>18. ASSUME NEW w \in Workers, Fail(w) PROVE (NoRefusal /\ FailedIsUnsent)'
  <2>1. /\ NoRefusal'
        /\ \A s \in Schedules : Departed(s)' => Departed(s)
        /\ \A s \in Schedules : sched'[s] = sched[s] \/ (s = job[w] /\ HoldsClaim(w))
    BY <1>18, LastWrite DEF Fail, Return
  <2>2. HoldsClaim(w) => ~Departed(job[w])
    BY <1>18 DEF Fail, Return, NoRefusal, MayRefuse
  <2> QED BY <2>1, <2>2 DEF FailedIsUnsent
<1>19. ASSUME NEW w \in Workers, Retry(w) PROVE (NoRefusal /\ FailedIsUnsent)'
  <2>1. /\ NoRefusal'
        /\ \A s \in Schedules : Departed(s)' => Departed(s)
        /\ \A s \in Schedules : sched'[s] = sched[s] \/ sched'[s] = "pending"
    BY <1>19, LastWrite DEF Retry, Return
  <2> QED BY <2>1 DEF FailedIsUnsent
<1>20. ASSUME NEW w \in Workers, Heartbeat(w) PROVE (NoRefusal /\ FailedIsUnsent)'
  BY <1>20 DEF Heartbeat, Owns, Disowned, RowsTyped, OpsTyped, FramesTyped, ProviderTyped, Ops,
     BusyHasRow, HoldsLinkedOp, HasOp, OneOpEach, OneDispatcher, DispatchedOp, DispatchIsTrue,
     Dispatching, Quiet, NoOp, NoRefusal, MayRefuse, FailedIsUnsent, HoldsClaim, Departed
<1>21. ASSUME NEW w \in Workers, Crash(w) PROVE (NoRefusal /\ FailedIsUnsent)'
  BY <1>21 DEF Crash, DropFrame, RowsTyped, OpsTyped, FramesTyped, ProviderTyped, Ops, BusyHasRow,
     HoldsLinkedOp, HasOp, OneOpEach, OneDispatcher, DispatchedOp, DispatchIsTrue, Dispatching,
     Quiet, NoOp, NoRefusal, MayRefuse, FailedIsUnsent, HoldsClaim, Departed
<1>22. ASSUME NEW c \in Clients, FetchDraft(c) PROVE (NoRefusal /\ FailedIsUnsent)'
  BY <1>22 DEF FetchDraft, RowsTyped, OpsTyped, FramesTyped, ProviderTyped, Ops, BusyHasRow,
     HoldsLinkedOp, HasOp, OneOpEach, LinkedLast, OneDispatcher, DispatchedOp, DispatchIsTrue,
     Dispatching, Quiet, NoOp, NoRefusal, MayRefuse, FailedIsUnsent, HoldsClaim, Departed
<1>23. ASSUME NEW c \in Clients, InsertRow(c) PROVE (NoRefusal /\ FailedIsUnsent)'
  BY <1>23 DEF InsertRow, PendingFor, RowsTyped, OpsTyped, FramesTyped, ProviderTyped, Ops,
     BusyHasRow, HoldsLinkedOp, HasOp, OneOpEach, LinkedLast, OneDispatcher, DispatchedOp,
     DispatchIsTrue, Dispatching, Quiet, NoOp, NoRefusal, MayRefuse, FailedIsUnsent, HoldsClaim,
     Departed
<1>24. ASSUME NEW c \in Clients, Link(c) PROVE (NoRefusal /\ FailedIsUnsent)'
  BY <1>24 DEF Link, Linked, RowsTyped, OpsTyped, FramesTyped, ProviderTyped, Ops, BusyHasRow,
     HoldsLinkedOp, HasOp, OneOpEach, LinkedLast, OneDispatcher, DispatchedOp, DispatchIsTrue,
     Dispatching, Quiet, NoOp, NoRefusal, MayRefuse, FailedIsUnsent, HoldsClaim, Departed
<1>25. ASSUME NEW c \in Clients, CancelOp(c) PROVE (NoRefusal /\ FailedIsUnsent)'
  BY <1>25 DEF CancelOp, RowsTyped, OpsTyped, FramesTyped, ProviderTyped, Ops, BusyHasRow,
     HoldsLinkedOp, HasOp, OneOpEach, LinkedLast, OneDispatcher, DispatchedOp, DispatchIsTrue,
     Dispatching, Quiet, NoOp, NoRefusal, MayRefuse, FailedIsUnsent, HoldsClaim, Departed
<1>26. ASSUME NEW c \in Clients, SendNow(c) PROVE (NoRefusal /\ FailedIsUnsent)'
  BY <1>26 DEF SendNow, RowsTyped, OpsTyped, FramesTyped, ProviderTyped, Ops, BusyHasRow,
     HoldsLinkedOp, HasOp, OneOpEach, LinkedLast, OneDispatcher, DispatchedOp, DispatchIsTrue,
     Dispatching, Quiet, NoOp, NoRefusal, MayRefuse, FailedIsUnsent, HoldsClaim, Departed
<1>27. ASSUME NEW c \in Clients, FindSuperseded(c) PROVE (NoRefusal /\ FailedIsUnsent)'
  BY <1>27 DEF FindSuperseded, PendingFor, RowsTyped, OpsTyped, FramesTyped, ProviderTyped, Ops,
     BusyHasRow, HoldsLinkedOp, HasOp, OneOpEach, LinkedLast, OneDispatcher, DispatchedOp,
     DispatchIsTrue, Dispatching, Quiet, NoOp, NoRefusal, MayRefuse, FailedIsUnsent, HoldsClaim,
     Departed
<1>28. ASSUME NEW c \in Clients, MarkSuperseded(c) PROVE (NoRefusal /\ FailedIsUnsent)'
  BY <1>28 DEF MarkSuperseded, RowsTyped, OpsTyped, FramesTyped, ProviderTyped, Ops, BusyHasRow,
     HoldsLinkedOp, HasOp, OneOpEach, LinkedLast, OneDispatcher, DispatchedOp, DispatchIsTrue,
     Dispatching, Quiet, NoOp, NoRefusal, MayRefuse, FailedIsUnsent, HoldsClaim, Departed
<1>29. ASSUME NEW c \in Clients, ClientCrash(c) PROVE (NoRefusal /\ FailedIsUnsent)'
  BY <1>29 DEF ClientCrash, RowsTyped, OpsTyped, FramesTyped, ProviderTyped, Ops, BusyHasRow,
     HoldsLinkedOp, HasOp, OneOpEach, LinkedLast, OneDispatcher, DispatchedOp, DispatchIsTrue,
     Dispatching, Quiet, NoOp, NoRefusal, MayRefuse, FailedIsUnsent, HoldsClaim, Departed
<1>30. ASSUME NEW c \in Clients, NEW d \in Drafts, StartSchedule(c, d) PROVE (NoRefusal /\ FailedIsUnsent)'
  BY <1>30 DEF StartSchedule, RowsTyped, OpsTyped, FramesTyped, ProviderTyped, Ops, BusyHasRow,
     HoldsLinkedOp, HasOp, OneOpEach, LinkedLast, OneDispatcher, DispatchedOp, DispatchIsTrue,
     Dispatching, Quiet, NoOp, NoRefusal, MayRefuse, FailedIsUnsent, HoldsClaim, Departed
<1>31. ASSUME NEW c \in Clients, NEW d \in Drafts, StartSendNow(c, d) PROVE (NoRefusal /\ FailedIsUnsent)'
  BY <1>31 DEF StartSendNow, RowsTyped, OpsTyped, FramesTyped, ProviderTyped, Ops, BusyHasRow,
     HoldsLinkedOp, HasOp, OneOpEach, LinkedLast, OneDispatcher, DispatchedOp, DispatchIsTrue,
     Dispatching, Quiet, NoOp, NoRefusal, MayRefuse, FailedIsUnsent, HoldsClaim, Departed
<1>32. ASSUME NEW c \in Clients, NEW s \in Schedules, CancelRow(c, s) PROVE (NoRefusal /\ FailedIsUnsent)'
  BY <1>32 DEF CancelRow, RowsTyped, OpsTyped, FramesTyped, ProviderTyped, Ops, BusyHasRow,
     HoldsLinkedOp, HasOp, OneOpEach, LinkedLast, OneDispatcher, DispatchedOp, DispatchIsTrue,
     Dispatching, Quiet, NoOp, NoRefusal, MayRefuse, FailedIsUnsent, HoldsClaim, Departed
<1>33. ASSUME NEW o \in Ops, Poll(o) PROVE (NoRefusal /\ FailedIsUnsent)'
  BY <1>33 DEF Poll, RowsTyped, OpsTyped, FramesTyped, ProviderTyped, Ops, BusyHasRow,
     HoldsLinkedOp, HasOp, OneOpEach, OneDispatcher, DispatchedOp, DispatchIsTrue, Dispatching,
     Quiet, NoOp, NoRefusal, MayRefuse, FailedIsUnsent, HoldsClaim, Departed
<1>34. ASSUME NEW s \in Schedules, BecomeDue(s) PROVE (NoRefusal /\ FailedIsUnsent)'
  BY <1>34 DEF BecomeDue, RowsTyped, OpsTyped, FramesTyped, ProviderTyped, Ops, BusyHasRow,
     HoldsLinkedOp, HasOp, OneOpEach, OneDispatcher, DispatchedOp, DispatchIsTrue, Dispatching,
     Quiet, NoOp, NoRefusal, MayRefuse, FailedIsUnsent, HoldsClaim, Departed
<1>35. ASSUME NEW s \in Schedules, LeaseExpires(s) PROVE (NoRefusal /\ FailedIsUnsent)'
  BY <1>35 DEF LeaseExpires, RowsTyped, OpsTyped, FramesTyped, ProviderTyped, Ops, BusyHasRow,
     HoldsLinkedOp, HasOp, OneOpEach, OneDispatcher, DispatchedOp, DispatchIsTrue, Dispatching,
     Quiet, NoOp, NoRefusal, MayRefuse, FailedIsUnsent, HoldsClaim, Departed
<1>36. ASSUME NEW s \in Schedules, Stall(s) PROVE (NoRefusal /\ FailedIsUnsent)'
  BY <1>36 DEF Stall, RowsTyped, OpsTyped, FramesTyped, ProviderTyped, Ops, BusyHasRow,
     HoldsLinkedOp, HasOp, OneOpEach, OneDispatcher, DispatchedOp, DispatchIsTrue, Dispatching,
     Quiet, NoOp, NoRefusal, MayRefuse, FailedIsUnsent, HoldsClaim, Departed
<1>37. CASE UNCHANGED vars
  BY <1>37 DEF vars, NoRefusal, MayRefuse, FailedIsUnsent, HoldsClaim, Departed
<1> QED
  BY <1>1, <1>2, <1>3, <1>4, <1>5, <1>6, <1>7, <1>8, <1>9, <1>10, <1>11, <1>12, <1>13, <1>14,
     <1>15, <1>16, <1>17, <1>18, <1>19, <1>20, <1>21, <1>22, <1>23, <1>24, <1>25, <1>26, <1>27,
     <1>28, <1>29, <1>30, <1>31, <1>32, <1>33, <1>34, <1>35, <1>36, <1>37 DEF Next, WorkerStep,
     CallStep

\* What no step undoes: a settled row, the draft of a row, a delivery; and what it takes to
\* mark a row as sent.
History ==
    /\ \A s \in Schedules :
        /\ sched[s] \in Settled => sched'[s] \in Settled
        /\ sched'[s] = "sent" => sched[s] = "sent" \/ DraftDelivered(s)
        /\ sched[s] # "absent" => draft'[s] = draft[s]
        /\ accepted[s] > 0 => accepted'[s] > 0
    /\ \A d \in Drafts : sentNow[d] => sentNow'[d]

LEMMA HistoryStep == ASSUME TypeOK, Consistent, Delivery, [Next]_vars PROVE History
<1> USE ConstantsOK DEF Goto, CallGoto, rows, ops, frames, calls, provider
<1> /\ RowsTyped /\ FramesTyped /\ CallsTyped /\ ProviderTyped
    /\ BusyHasRow /\ RowsHaveDrafts /\ LinkedLast /\ Superseding /\ OutcomesOnRecord
    /\ DispatchIsTrue
  BY DEF TypeOK, Consistent, Delivery
<1>1. ASSUME NEW w \in Workers, NEW s \in Schedules, Claim(w, s) PROVE History
  BY <1>1 DEF Claim, Claimable, History, Settled, SchedStatus, RowsTyped, ProviderTyped
<1>2. ASSUME NEW w \in Workers, Confirm(w) PROVE History
  BY <1>2 DEF Confirm, Owns, Disowned, Return, DropFrame, History, Settled, SchedStatus,
     RowsTyped, ProviderTyped
<1>3. ASSUME NEW w \in Workers, Lookup(w) PROVE History
  BY <1>3 DEF Lookup, Linked, History, Settled, SchedStatus, RowsTyped, ProviderTyped
<1>4. ASSUME NEW w \in Workers, InsertOp(w) PROVE History
  BY <1>4 DEF InsertOp, Linked, History, Settled, SchedStatus, RowsTyped, ProviderTyped
<1>5. ASSUME NEW w \in Workers, MarkOp(w) PROVE History
  BY <1>5 DEF MarkOp, History, Settled, SchedStatus, RowsTyped, ProviderTyped
<1>6. ASSUME NEW w \in Workers, Preflight(w) PROVE History
  BY <1>6 DEF Preflight, History, Settled, SchedStatus, RowsTyped, ProviderTyped
<1>7. ASSUME NEW w \in Workers, RejectOp(w) PROVE History
  BY <1>7 DEF RejectOp, History, Settled, SchedStatus, RowsTyped, ProviderTyped
<1>8. ASSUME NEW w \in Workers, Check(w) PROVE History
  BY <1>8 DEF Check, Owns, Disowned, Return, DropFrame, History, Settled, SchedStatus,
     RowsTyped, ProviderTyped
<1>9. ASSUME NEW w \in Workers, Dispatch(w) PROVE History
  BY <1>9 DEF Dispatch, History, Settled, SchedStatus, RowsTyped, ProviderTyped
<1>10. ASSUME NEW w \in Workers, Connect(w) PROVE History
  BY <1>10 DEF Connect, Owns, Disowned, History, Settled, SchedStatus, RowsTyped, ProviderTyped
<1>11. ASSUME NEW w \in Workers, ProviderAccepts(w) PROVE History
  BY <1>11 DEF ProviderAccepts, History, Settled, SchedStatus, BusyHasRow, FramesTyped,
     RowsTyped, ProviderTyped
<1>12. ASSUME NEW w \in Workers, ProviderRefuses(w) PROVE History
  BY <1>12 DEF ProviderRefuses, History, Settled, SchedStatus, RowsTyped, ProviderTyped
<1>13. ASSUME NEW w \in Workers, Supersede(w) PROVE History
  BY <1>13 DEF Supersede, PendingFor, History, Settled, SchedStatus, RowsTyped, ProviderTyped
<1>14. ASSUME NEW w \in Workers, MarkOther(w) PROVE History
  BY <1>14 DEF MarkOther, History, Settled, SchedStatus, DraftDelivered, Superseding,
     DispatchIsTrue, BusyHasRow, FramesTyped, RowsHaveDrafts, RowsTyped, ProviderTyped
<1>15. ASSUME NEW w \in Workers, Finish(w) PROVE History
  BY <1>15 DEF Finish, History, Settled, SchedStatus, RowsTyped, ProviderTyped
<1>16. ASSUME NEW w \in Workers, Reread(w) PROVE History
  BY <1>16 DEF Reread, History, Settled, SchedStatus, RowsTyped, ProviderTyped
<1>17. ASSUME NEW w \in Workers, Record(w) PROVE History
  BY <1>17 DEF Record, Return, DropFrame, Release, HoldsClaim, History, Settled, SchedStatus,
     DraftDelivered, OutcomesOnRecord, BusyHasRow, FramesTyped, RowsHaveDrafts, RowsTyped,
     ProviderTyped
<1>18. ASSUME NEW w \in Workers, Fail(w) PROVE History
  BY <1>18 DEF Fail, Return, DropFrame, Release, HoldsClaim, History, Settled, SchedStatus,
     BusyHasRow, FramesTyped, RowsTyped, ProviderTyped
<1>19. ASSUME NEW w \in Workers, Retry(w) PROVE History
  BY <1>19 DEF Retry, Return, DropFrame, Release, HoldsClaim, History, Settled, SchedStatus,
     BusyHasRow, FramesTyped, RowsTyped, ProviderTyped
<1>20. ASSUME NEW w \in Workers, Heartbeat(w) PROVE History
  BY <1>20 DEF Heartbeat, Owns, Disowned, History, Settled, SchedStatus, RowsTyped,
     ProviderTyped
<1>21. ASSUME NEW w \in Workers, Crash(w) PROVE History
  BY <1>21 DEF Crash, DropFrame, History, Settled, SchedStatus, RowsTyped, ProviderTyped
<1>22. ASSUME NEW c \in Clients, FetchDraft(c) PROVE History
  BY <1>22 DEF FetchDraft, History, Settled, SchedStatus, RowsTyped, ProviderTyped
<1>23. ASSUME NEW c \in Clients, InsertRow(c) PROVE History
  BY <1>23 DEF InsertRow, PendingFor, History, Settled, SchedStatus, RowsTyped, ProviderTyped
<1>24. ASSUME NEW c \in Clients, Link(c) PROVE History
  BY <1>24 DEF Link, Linked, History, Settled, SchedStatus, RowsTyped, ProviderTyped
<1>25. ASSUME NEW c \in Clients, CancelOp(c) PROVE History
  BY <1>25 DEF CancelOp, History, Settled, SchedStatus, RowsTyped, ProviderTyped
<1>26. ASSUME NEW c \in Clients, SendNow(c) PROVE History
  BY <1>26 DEF SendNow, History, Settled, SchedStatus, RowsTyped, ProviderTyped
<1>27. ASSUME NEW c \in Clients, FindSuperseded(c) PROVE History
  BY <1>27 DEF FindSuperseded, PendingFor, History, Settled, SchedStatus, RowsTyped,
     ProviderTyped
<1>28. ASSUME NEW c \in Clients, MarkSuperseded(c) PROVE History
  BY <1>28 DEF MarkSuperseded, History, Settled, SchedStatus, DraftDelivered, Superseding,
     LinkedLast, CallsTyped, RowsTyped, ProviderTyped
<1>29. ASSUME NEW c \in Clients, ClientCrash(c) PROVE History
  BY <1>29 DEF ClientCrash, History, Settled, SchedStatus, RowsTyped, ProviderTyped
<1>30. ASSUME NEW c \in Clients, NEW d \in Drafts, StartSchedule(c, d) PROVE History
  BY <1>30 DEF StartSchedule, History, Settled, SchedStatus, RowsTyped, ProviderTyped
<1>31. ASSUME NEW c \in Clients, NEW d \in Drafts, StartSendNow(c, d) PROVE History
  BY <1>31 DEF StartSendNow, History, Settled, SchedStatus, RowsTyped, ProviderTyped
<1>32. ASSUME NEW c \in Clients, NEW s \in Schedules, CancelRow(c, s) PROVE History
  BY <1>32 DEF CancelRow, History, Settled, SchedStatus, RowsTyped, ProviderTyped
<1>33. ASSUME NEW o \in Ops, Poll(o) PROVE History
  BY <1>33 DEF Poll, History, Settled, SchedStatus, RowsTyped, ProviderTyped
<1>34. ASSUME NEW s \in Schedules, BecomeDue(s) PROVE History
  BY <1>34 DEF BecomeDue, History, Settled, SchedStatus, RowsTyped, ProviderTyped
<1>35. ASSUME NEW s \in Schedules, LeaseExpires(s) PROVE History
  BY <1>35 DEF LeaseExpires, History, Settled, SchedStatus, RowsTyped, ProviderTyped
<1>36. ASSUME NEW s \in Schedules, Stall(s) PROVE History
  BY <1>36 DEF Stall, History, Settled, SchedStatus, RowsTyped, ProviderTyped
<1>37. CASE UNCHANGED vars
  BY <1>37 DEF vars, History
<1> QED
  BY <1>1, <1>2, <1>3, <1>4, <1>5, <1>6, <1>7, <1>8, <1>9, <1>10, <1>11, <1>12, <1>13, <1>14,
     <1>15, <1>16, <1>17, <1>18, <1>19, <1>20, <1>21, <1>22, <1>23, <1>24, <1>25, <1>26, <1>27,
     <1>28, <1>29, <1>30, <1>31, <1>32, <1>33, <1>34, <1>35, <1>36, <1>37 DEF Next, WorkerStep,
     CallStep

\* A row marked as sent stays justified: rows keep their drafts and deliveries are not undone.
LEMMA SentStep == ASSUME TypeOK, Consistent, Delivery, SentWasAccepted, [Next]_vars
                  PROVE SentWasAccepted'
<1> USE ConstantsOK
<1>1. History
  BY HistoryStep
<1>2. ASSUME NEW s \in Schedules, DraftDelivered(s) PROVE DraftDelivered(s)'
  <2>1. PICK d \in Drafts :
          draft[s] = d /\ (sentNow[d] \/ \E r \in Schedules : draft[r] = d /\ accepted[r] > 0)
    BY <1>2 DEF DraftDelivered
  <2>2. \A r \in Schedules : draft[r] = d => draft'[r] = d
    BY <1>1 DEF History, Consistent, RowsHaveDrafts
  <2> QED BY <1>1, <2>1, <2>2 DEF History, DraftDelivered
<1> QED BY <1>1, <1>2 DEF SentWasAccepted, History

\* A statement that fails ends nothing that was decided: at worst an outcome is stored as
\* uncertain, or the row is on its way back to pending.
LEMMA FaultStep ==
    ASSUME FaultyInv, NEW w \in Workers, StatementFails(w)
    PROVE  FaultyInv' /\ History
<1> USE ConstantsOK DEF Goto, rows, calls, provider
<1> /\ RowsTyped /\ OpsTyped /\ FramesTyped /\ CallsTyped /\ ProviderTyped /\ faults \in Nat
    /\ BusyHasRow /\ RowsHaveDrafts /\ HoldsLinkedOp /\ ResultsGiven /\ OneOpEach /\ LinkedLast
    /\ Superseding /\ OneDispatcher /\ DispatchedOp /\ DispatchIsTrue /\ OutcomesOnRecord
    /\ AtMostOnce /\ NoRefusal /\ FailedIsUnsent /\ SentWasAccepted
  BY DEF FaultyInv, TypeOK, Consistent, Delivery
<1>1. /\ UNCHANGED <<sched, draft, due, owner, live, attempts, opSched, job, wop, lost, out, other,
                     cpc, cdraft, cjob, exists, accepted, sentNow>>
      /\ \A v \in Workers : v # w => pc'[v] = pc[v] /\ verdict'[v] = verdict[v]
      /\ pc[w] # "idle" /\ pc[w] # "send" /\ pc'[w] \in {"retrying", "finish", "reread"}
      /\ pc'[w] = "finish" => verdict'[w] = "uncertain"
      /\ pc'[w] \in {"finish", "reread"} => HasOp(w)
      /\ pc'[w] = "finish" => Dispatching(w)
  BY DEF StatementFails, FramesTyped, HasOp, Dispatching
<1>2. \/ UNCHANGED opStatus
      \/ Dispatching(w) /\ pc'[w] = "reread" /\ opStatus' = [opStatus EXCEPT ![wop[w]] = "uncertain"]
  BY DEF StatementFails, Dispatching, FramesTyped
<1>3. TypeOK'
  <2>1. faults' \in Nat
    BY DEF StatementFails, Fault
  <2>2. FramesTyped'
    BY <1>1 DEF StatementFails, FramesTyped, WorkerPC, Verdicts, OpsTyped
  <2>3. OpsTyped'
    BY <1>1, <1>2 DEF OpsTyped, OpStatus, Ops
  <2>4. (RowsTyped /\ CallsTyped /\ ProviderTyped)'
    BY <1>1 DEF RowsTyped, CallsTyped, ProviderTyped
  <2> QED BY <2>1, <2>2, <2>3, <2>4 DEF TypeOK
<1>4. Consistent'
  <2>1. (BusyHasRow /\ RowsHaveDrafts /\ OneOpEach /\ LinkedLast)'
    BY <1>1 DEF BusyHasRow, RowsHaveDrafts, OneOpEach, LinkedLast
  <2>2. HoldsLinkedOp'
    BY <1>1 DEF HoldsLinkedOp, HasOp
  <2>3. ResultsGiven'
    BY <1>1 DEF ResultsGiven, Verdicts
  <2>4. Superseding'
    BY <1>1 DEF Superseding
  <2> QED BY <2>1, <2>2, <2>3, <2>4 DEF Consistent
<1>5. Delivery'
  <2>1. \A v \in Workers : Dispatching(v)' => Dispatching(v)
    BY <1>1 DEF Dispatching
  <2>2. OneDispatcher'
    BY <1>1, <2>1 DEF OneDispatcher
  <2>3. DispatchedOp'
    <3>1. CASE UNCHANGED opStatus
      BY <1>1, <2>1, <3>1 DEF DispatchedOp
    <3>2. CASE opStatus' = [opStatus EXCEPT ![wop[w]] = "uncertain"]
      BY <1>1, <2>1, <3>2 DEF DispatchedOp, OpsTyped, HoldsLinkedOp, HasOp, Dispatching
    <3> QED BY <1>2, <3>1, <3>2
  <2>4. DispatchIsTrue'
    BY <1>1 DEF DispatchIsTrue
  <2>5. OutcomesOnRecord'
    <3>1. CASE UNCHANGED opStatus
      BY <1>1, <3>1 DEF OutcomesOnRecord
    <3>2. CASE opStatus' = [opStatus EXCEPT ![wop[w]] = "uncertain"]
      BY <1>1, <3>2 DEF OutcomesOnRecord, OpsTyped
    <3> QED BY <1>2, <3>1, <3>2
  <2>6. AtMostOnce'
    BY <1>1 DEF AtMostOnce
  <2> QED BY <2>2, <2>3, <2>4, <2>5, <2>6 DEF Delivery
<1>6. \A s \in Schedules : Departed(s)' => Departed(s)
  BY <1>1 DEF Departed
<1>7. (NoRefusal /\ FailedIsUnsent)'
  <2>1. \A v \in Workers : MayRefuse(v)' => MayRefuse(v)
    BY <1>1 DEF MayRefuse
  <2>2. \A v \in Workers : MayRefuse(v) => job[v] \in Schedules
    BY DEF MayRefuse, BusyHasRow, FramesTyped
  <2>3. \A v \in Workers : HoldsClaim(v)' = HoldsClaim(v)
    BY <1>1 DEF HoldsClaim
  <2>4. NoRefusal'
    BY <1>1, <1>6, <2>1, <2>2, <2>3 DEF NoRefusal
  <2>5. FailedIsUnsent'
    BY <1>1, <1>6 DEF FailedIsUnsent
  <2> QED BY <2>4, <2>5
<1>8. SentWasAccepted'
  BY <1>1 DEF SentWasAccepted, DraftDelivered
<1>9. History
  BY <1>1 DEF History
<1> QED BY <1>3, <1>4, <1>5, <1>7, <1>8, <1>9 DEF FaultyInv

LEMMA InitHolds == ASSUME Init PROVE IInv
<1> USE ConstantsOK DEF Init
<1>1. TypeOK
  BY DEF TypeOK, RowsTyped, OpsTyped, FramesTyped, CallsTyped, ProviderTyped, SchedStatus, OpStatus,
     WorkerPC, ClientPC, Verdicts
<1>2. Consistent
  BY DEF Consistent, BusyHasRow, RowsHaveDrafts, HoldsLinkedOp, HasOp, ResultsGiven, OneOpEach,
     LinkedLast, Superseding, Ops
<1>3. Delivery
  BY DEF Delivery, OneDispatcher, DispatchedOp, DispatchIsTrue, Dispatching, OutcomesOnRecord,
     AtMostOnce, Ops
<1>4. NoRetraction /\ NoRefusal /\ DepartedRows /\ FailedIsUnsent
  BY DEF NoRetraction, NoRefusal, MayRetract, MayRefuse, DepartedRows, FailedIsUnsent, Departed
<1>5. SentWasAccepted
  BY DEF SentWasAccepted
<1> QED BY <1>1, <1>2, <1>3, <1>4, <1>5 DEF IInv, FaultyInv

\* What a store whose statements fail cannot break holds in every reachable state.
THEOREM FaultyInvariance == FaultySpec => []FaultyInv
<1>1. Init => FaultyInv
  BY InitHolds DEF IInv
<1>2. FaultyInv /\ [Next]_vars => FaultyInv'
  BY TypeStep, ConsistentStep, DeliveryStep, RefusalStep, SentStep DEF FaultyInv
<1>3. FaultyInv /\ [NextOnFaultyStore]_vars => FaultyInv'
  BY <1>2, FaultStep DEF NextOnFaultyStore
<1> QED BY <1>1, <1>3, PTL DEF FaultySpec

\* A store that never fails is a special case of one that may.
LEMMA NoFault == Spec => FaultySpec
<1>1. [Next]_vars => [NextOnFaultyStore]_vars
  BY DEF NextOnFaultyStore
<1> QED BY <1>1, PTL DEF Spec, FaultySpec

\* As long as no statement fails, the whole inductive invariant holds in every reachable state.
THEOREM Invariance == Spec => []IInv
<1>1. Init => IInv
  BY InitHolds
<1>2. IInv /\ FaultyInv' /\ [Next]_vars => IInv'
  BY RowsStep DEF IInv, FaultyInv
<1> QED BY <1>1, <1>2, NoFault, FaultyInvariance, PTL DEF Spec

\* Every variable stays in its type: the tables, the workers' frames, the clients' calls.
THEOREM TypeCorrect == FaultySpec => []TypeOK
<1>1. FaultyInv => TypeOK
  BY DEF FaultyInv
<1> QED BY <1>1, FaultyInvariance, PTL

\* For any number of workers, whatever crashes, stalls, retries and failing statements: one
\* delivery per schedule.
THEOREM DeliveredAtMostOnce == FaultySpec => []AtMostOnce
<1>1. FaultyInv => AtMostOnce
  BY DEF FaultyInv, Delivery
<1> QED BY <1>1, FaultyInvariance, PTL

\* A row shown as pending, canceled or failed has not left and is not leaving.
THEOREM NothingBehind == Spec => []NothingBehindTheUsersBack
<1>1. IInv => NothingBehindTheUsersBack
  BY DEF IInv, DepartedRows, NothingBehindTheUsersBack
<1> QED BY <1>1, Invariance, PTL

\* What an operation answers about its schedule is true.
THEOREM TrueAnswers == FaultySpec => []AnswersAreTrue
<1>1. FaultyInv => AnswersAreTrue
  <2> SUFFICES ASSUME FaultyInv, NEW s \in Schedules, NEW o \in Linked(s)
               PROVE /\ opStatus[o] = "succeeded" => accepted[s] = 1
                     /\ opStatus[o] = "failed" =>
                          accepted[s] = 0 /\ \A w \in Workers : job[w] = s => ~Dispatching(w)
    BY DEF AnswersAreTrue
  <2> USE ConstantsOK
  <2>1. o \in Ops /\ opSched[o] = s
    BY DEF Linked
  <2>2. opStatus[o] = "succeeded" => accepted[s] = 1
    BY <2>1 DEF FaultyInv, Delivery, OutcomesOnRecord
  <2>3. opStatus[o] = "failed" => accepted[s] = 0
    BY <2>1 DEF FaultyInv, Delivery, OutcomesOnRecord, Consistent, OneOpEach, TypeOK, ProviderTyped
  <2>4. ASSUME NEW w \in Workers, job[w] = s, Dispatching(w) PROVE opStatus[o] # "failed"
    <3>1. wop[w] \in Ops /\ opSched[wop[w]] = s
      BY <2>4 DEF FaultyInv, Consistent, HoldsLinkedOp, HasOp, Dispatching
    <3>2. wop[w] = o
      BY <2>1, <3>1 DEF FaultyInv, Consistent, OneOpEach
    <3> QED BY <2>4, <3>2 DEF FaultyInv, Delivery, DispatchedOp
  <2> QED BY <2>2, <2>3, <2>4
<1> QED BY <1>1, FaultyInvariance, PTL

\* Whatever statement of a worker fails: one delivery at most, and operations and failed rows
\* that say what happened.
THEOREM TrueOutcomes == FaultySpec => []OutcomesAreTrue
<1>1. FaultyInv => FailedIsUnsent
  BY DEF FaultyInv
<1> QED BY <1>1, DeliveredAtMostOnce, TrueAnswers, FaultyInvariance, PTL DEF OutcomesAreTrue

\* "sent" is written only for a draft the provider has taken.
THEOREM SentIsJustified == FaultySpec => []SentWasAccepted
<1>1. FaultyInv => SentWasAccepted
  BY DEF FaultyInv
<1> QED BY <1>1, FaultyInvariance, PTL

\* A schedule that reached an end is never pending or sending again.
THEOREM SettledStays == FaultySpec => SettledForGood
<1>1. FaultyInv /\ [NextOnFaultyStore]_vars
        => [\A s \in Schedules : sched[s] \in Settled => sched'[s] \in Settled]_vars
  BY HistoryStep, FaultStep DEF FaultyInv, History, NextOnFaultyStore
<1> QED BY <1>1, FaultyInvariance, PTL DEF FaultySpec, SettledForGood

----------------------------------------------------------------------------
\* The refinement: rows, operations and workers implement DeliveryPromise.

\* What the status of its operation tells about a schedule.
Says(status) ==
    IF status = "succeeded" THEN "delivered"
    ELSE IF status = "failed" THEN "refused"
    ELSE IF status = "uncertain" THEN "unknown" ELSE "open"

LEMMA ToldByOp ==
    Consistent => \A o \in Ops : opSched[o] \in Schedules =>
                      ToldAbout(opSched[o]) = Says(opStatus[o])
<1> SUFFICES ASSUME Consistent, NEW o \in Ops, opSched[o] \in Schedules
             PROVE  ToldAbout(opSched[o]) = Says(opStatus[o])
  OBVIOUS
<1>1. \A p \in Ops : opSched[p] = opSched[o] <=> p = o
  BY ConstantsOK DEF Consistent, OneOpEach
<1>2. Linked(opSched[o]) = {o}
  BY <1>1 DEF Linked
<1> QED BY <1>2 DEF ToldAbout, Says

LEMMA ToldByNone ==
    \A s \in Schedules : (\A p \in Ops : opSched[p] # s) => ToldAbout(s) = "open"
  BY DEF ToldAbout, Linked

\* The same of the next state.
LEMMA ToldNext ==
    /\ Consistent' => \A o \in Ops : opSched'[o] \in Schedules =>
                           ToldAbout(opSched[o])' = Says(opStatus'[o])
    /\ \A s \in Schedules : (\A p \in Ops : opSched'[p] # s) => ToldAbout(s)' = "open"
<1>1. (Consistent => \A o \in Ops : opSched[o] \in Schedules =>
                         ToldAbout(opSched[o]) = Says(opStatus[o]))'
  BY ToldByOp, PTL
<1>2. (\A s \in Schedules : (\A p \in Ops : opSched[p] # s) => ToldAbout(s) = "open")'
  BY ToldByNone, PTL
<1> QED BY <1>1, <1>2 DEF Says

\* A step that leaves acceptances alone and tells nothing new is a stutter.
LEMMA NothingTold ==
    ASSUME UNCHANGED accepted, \A s \in Schedules : ToldAbout(s)' = ToldAbout(s)
    PROVE  UNCHANGED Promise!vars
<1>1. [s \in Schedules |-> accepted[s] > 0]' = [s \in Schedules |-> accepted[s] > 0]
  OBVIOUS
<1>2. [s \in Schedules |-> ToldAbout(s)]' = [s \in Schedules |-> ToldAbout(s)]
  OBVIOUS
<1> QED BY <1>1, <1>2 DEF Promise!vars

LEMMA Untouched ==
    ASSUME UNCHANGED <<opStatus, opSched, accepted>>
    PROVE  UNCHANGED Promise!vars
<1>1. \A s \in Schedules : ToldAbout(s)' = ToldAbout(s)
  BY DEF ToldAbout, Linked
<1> QED BY <1>1, NothingTold

\* A step that writes the status of one operation tells at most about its schedule.
LEMMA OneWrite ==
    ASSUME Consistent, Consistent', NEW o \in Ops, UNCHANGED <<opSched, accepted>>,
           \A p \in Ops : p # o => opStatus'[p] = opStatus[p],
           opSched[o] = None
             \/ Says(opStatus'[o]) = Says(opStatus[o])
             \/ /\ opSched[o] \in Schedules
                /\ Says(opStatus'[o]) \in Promise!Answer
                /\ Says(opStatus'[o]) = "delivered" => accepted[opSched[o]] > 0
                /\ Says(opStatus'[o]) = "refused" => ~(accepted[opSched[o]] > 0)
    PROVE  [Promise!Next]_(Promise!vars)
<1>1. ASSUME NEW s \in Schedules, s # opSched[o] PROVE ToldAbout(s)' = ToldAbout(s)
  <2>1. CASE \E p \in Ops : opSched[p] = s
    <3>1. PICK p \in Ops : opSched[p] = s
      BY <2>1
    <3>2. opStatus'[p] = opStatus[p] /\ opSched'[p] = s
      BY <3>1, <1>1
    <3>3. ToldAbout(s) = Says(opStatus[p])
      BY <3>1, ToldByOp
    <3>4. ToldAbout(s)' = Says(opStatus'[p])
      BY <3>2, ToldNext
    <3> QED BY <3>2, <3>3, <3>4
  <2>2. CASE \A p \in Ops : opSched[p] # s
    <3>1. ToldAbout(s) = "open"
      BY <2>2, ToldByNone
    <3>2. \A p \in Ops : opSched'[p] # s
      BY <2>2
    <3>3. ToldAbout(s)' = "open"
      BY <3>2, ToldNext
    <3> QED BY <3>1, <3>3
  <2> QED BY <2>1, <2>2
<1>2. CASE opSched[o] \notin Schedules
  BY <1>1, <1>2, NothingTold
<1>3. CASE opSched[o] \in Schedules
  <2> DEFINE s == opSched[o]
             answer == Says(opStatus'[o])
  <2>1. ToldAbout(s) = Says(opStatus[o])
    BY <1>3, ToldByOp
  <2>2. opSched'[o] = s
    OBVIOUS
  <2>3. ToldAbout(s)' = answer
    BY <1>3, <2>2, ToldNext
  <2>4. CASE answer = Says(opStatus[o])
    <3>1. \A r \in Schedules : ToldAbout(r)' = ToldAbout(r)
      BY <1>1, <2>1, <2>3, <2>4
    <3> QED BY <3>1, NothingTold
  <2>5. CASE answer # Says(opStatus[o])
    <3>1. answer \in Promise!Answer
      BY <1>3, <2>5, ConstantsOK
    <3>2. [r \in Schedules |-> ToldAbout(r)]' = [[r \in Schedules |-> ToldAbout(r)] EXCEPT ![s] = answer]
      BY <1>1, <1>3, <2>3
    <3>3. [r \in Schedules |-> accepted[r] > 0]' = [r \in Schedules |-> accepted[r] > 0]
      OBVIOUS
    <3>4. Promise!Tell(s, answer)
      BY <1>3, <2>5, <3>2, <3>3, ConstantsOK DEF Promise!Tell
    <3> QED BY <1>3, <3>1, <3>4 DEF Promise!Next
  <2> QED BY <2>4, <2>5
<1> QED BY <1>2, <1>3

\* The provider's acceptance tells nothing, and is the promise's delivery.
LEMMA OneAcceptance ==
    ASSUME NEW s \in Schedules, accepted \in [Schedules -> Nat], accepted[s] = 0,
           accepted' = [accepted EXCEPT ![s] = @ + 1],
           ToldAbout(s) \in {"open", "unknown"}, UNCHANGED <<opStatus, opSched>>
    PROVE  Promise!Next
<1>1. \A r \in Schedules : (accepted'[r] > 0) = (r = s \/ accepted[r] > 0)
  OBVIOUS
<1>2. [r \in Schedules |-> accepted[r] > 0]'
        = [[r \in Schedules |-> accepted[r] > 0] EXCEPT ![s] = TRUE]
  BY <1>1
<1>3. \A r \in Schedules : ToldAbout(r)' = ToldAbout(r)
  BY DEF ToldAbout, Linked
<1>4. [r \in Schedules |-> ToldAbout(r)]' = [r \in Schedules |-> ToldAbout(r)]
  BY <1>3
<1>5. ~(accepted[s] > 0)
  OBVIOUS
<1>6. Promise!Deliver(s)
  <2> USE <1>2, <1>4, <1>5
  <2>1. ~([r \in Schedules |-> accepted[r] > 0][s])
    BY Zenon
  <2>2. [r \in Schedules |-> ToldAbout(r)][s] \in {"open", "unknown"}
    BY Zenon
  <2> QED BY <2>1, <2>2, Zenon DEF Promise!Deliver
<1> QED BY <1>6 DEF Promise!Next

\* A step that links an operation to a schedule that had none tells nothing yet.
LEMMA FirstLink ==
    ASSUME TypeOK, Consistent, Consistent', NEW o \in Ops, NEW s \in Schedules, UNCHANGED accepted,
           opSched[o] = None, \A p \in Ops : opSched[p] # s,
           opStatus' = [opStatus EXCEPT ![o] = "queued"], opSched' = [opSched EXCEPT ![o] = s]
    PROVE  UNCHANGED Promise!vars
<1>1. opStatus'[o] = "queued" /\ opSched'[o] = s
  BY DEF TypeOK, OpsTyped
<1>2. \A p \in Ops : p # o => opStatus'[p] = opStatus[p] /\ opSched'[p] = opSched[p]
  BY DEF TypeOK, OpsTyped
<1>3. ToldAbout(s) = "open"
  BY ToldByNone
<1>4. ToldAbout(s)' = "open"
  BY <1>1, ToldNext DEF Says
<1>5. ASSUME NEW r \in Schedules, r # s PROVE ToldAbout(r)' = ToldAbout(r)
  <2>1. CASE \E p \in Ops : opSched[p] = r
    <3>1. PICK p \in Ops : opSched[p] = r
      BY <2>1
    <3>2. opStatus'[p] = opStatus[p] /\ opSched'[p] = r
      BY <3>1, <1>2, ConstantsOK
    <3> QED BY <3>1, <3>2, ToldByOp, ToldNext
  <2>2. CASE \A p \in Ops : opSched[p] # r
    <3>1. \A p \in Ops : opSched'[p] # r
      BY <2>2, <1>1, <1>2, <1>5
    <3> QED BY <2>2, <3>1, ToldByNone, ToldNext
  <2> QED BY <2>1, <2>2
<1> QED BY <1>3, <1>4, <1>5, NothingTold

\* Every step of the workers, clients and clocks is a step of the promise or tells nothing.
LEMMA PromiseStep ==
    ASSUME TypeOK, Consistent, Consistent', Delivery, [Next]_vars
    PROVE  [Promise!Next]_(Promise!vars)
<1> USE ConstantsOK DEF Goto, CallGoto, rows, ops, frames, calls, provider
<1> /\ OpsTyped /\ FramesTyped /\ ProviderTyped /\ BusyHasRow /\ HoldsLinkedOp /\ ResultsGiven
    /\ OneOpEach /\ LinkedLast /\ DispatchedOp /\ DispatchIsTrue /\ OutcomesOnRecord
  BY DEF TypeOK, Consistent, Delivery
<1>1. ASSUME NEW w \in Workers, NEW s \in Schedules, Claim(w, s) PROVE [Promise!Next]_(Promise!vars)
  BY <1>1, Untouched DEF Claim
<1>2. ASSUME NEW w \in Workers, Confirm(w) PROVE [Promise!Next]_(Promise!vars)
  BY <1>2, Untouched DEF Confirm, Return, DropFrame
<1>3. ASSUME NEW w \in Workers, Lookup(w) PROVE [Promise!Next]_(Promise!vars)
  BY <1>3, Untouched DEF Lookup
<1>4. ASSUME NEW w \in Workers, InsertOp(w) PROVE [Promise!Next]_(Promise!vars)
  <2>1. job[w] \in Schedules /\ job[w] \in Ops
    BY <1>4 DEF InsertOp, BusyHasRow, FramesTyped, Ops
  <2>2. CASE Linked(job[w]) = {}
    <3>1. (\A p \in Ops : opSched[p] # job[w]) /\ opSched[job[w]] = None
      BY <2>1, <2>2 DEF Linked, OneOpEach
    <3>2. /\ opStatus' = [opStatus EXCEPT ![job[w]] = "queued"]
          /\ opSched' = [opSched EXCEPT ![job[w]] = job[w]]
          /\ UNCHANGED accepted
      BY <1>4, <2>2 DEF InsertOp
    <3> QED BY <2>1, <3>1, <3>2, FirstLink
  <2>3. CASE Linked(job[w]) # {}
    BY <1>4, <2>3, Untouched DEF InsertOp
  <2> QED BY <2>2, <2>3
<1>5. ASSUME NEW w \in Workers, MarkOp(w) PROVE [Promise!Next]_(Promise!vars)
  <2>1. wop[w] \in Ops /\ opSched[wop[w]] \in Schedules
    BY <1>5 DEF MarkOp, HoldsLinkedOp, HasOp, BusyHasRow, FramesTyped
  <2>2. /\ UNCHANGED <<opSched, accepted>>
        /\ \A p \in Ops : p # wop[w] => opStatus'[p] = opStatus[p]
        /\ opStatus'[wop[w]] = "uncertain"
    BY <1>5, <2>1 DEF MarkOp, OpsTyped
  <2> QED BY <2>1, <2>2, OneWrite DEF Says, Promise!Answer
<1>6. ASSUME NEW w \in Workers, Preflight(w) PROVE [Promise!Next]_(Promise!vars)
  BY <1>6, Untouched DEF Preflight
<1>7. ASSUME NEW w \in Workers, RejectOp(w) PROVE [Promise!Next]_(Promise!vars)
  <2>1. wop[w] \in Ops /\ opSched[wop[w]] \in Schedules
    BY <1>7 DEF RejectOp, HoldsLinkedOp, HasOp, BusyHasRow, FramesTyped
  <2>2. /\ UNCHANGED <<opSched, accepted>>
        /\ \A p \in Ops : p # wop[w] => opStatus'[p] = opStatus[p]
        /\ opStatus'[wop[w]] \in {opStatus[wop[w]], "failed"}
        /\ opStatus[wop[w]] # "queued" => opStatus'[wop[w]] = opStatus[wop[w]]
    BY <1>7, <2>1 DEF RejectOp, OpsTyped
  <2>3. opStatus[wop[w]] = "queued" => ~(accepted[opSched[wop[w]]] > 0)
    BY <2>1 DEF OutcomesOnRecord, OneOpEach
  <2> QED BY <2>1, <2>2, <2>3, OneWrite DEF Says, Promise!Answer
<1>8. ASSUME NEW w \in Workers, Check(w) PROVE [Promise!Next]_(Promise!vars)
  BY <1>8, Untouched DEF Check, Return, DropFrame
<1>9. ASSUME NEW w \in Workers, Dispatch(w) PROVE [Promise!Next]_(Promise!vars)
  <2>1. wop[w] \in Ops
    BY <1>9 DEF Dispatch, HoldsLinkedOp, HasOp
  <2>2. /\ UNCHANGED <<opSched, accepted>>
        /\ \A p \in Ops : p # wop[w] => opStatus'[p] = opStatus[p]
        /\ Says(opStatus'[wop[w]]) = Says(opStatus[wop[w]])
    BY <1>9, <2>1 DEF Dispatch, OpsTyped, Says
  <2> QED BY <2>1, <2>2, OneWrite
<1>10. ASSUME NEW w \in Workers, Connect(w) PROVE [Promise!Next]_(Promise!vars)
  BY <1>10, Untouched DEF Connect
<1>11. ASSUME NEW w \in Workers, ProviderAccepts(w) PROVE [Promise!Next]_(Promise!vars)
  <2> DEFINE s == job[w]
  <2>1. s \in Schedules /\ wop[w] \in Ops /\ opSched[wop[w]] = s
    BY <1>11 DEF ProviderAccepts, HoldsLinkedOp, HasOp, BusyHasRow, FramesTyped
  <2>2. accepted[s] = 0 /\ opStatus[wop[w]] \in {"sending", "uncertain"}
    BY <1>11 DEF ProviderAccepts, DispatchIsTrue, DispatchedOp, Dispatching
  <2>3. ToldAbout(s) \in {"open", "unknown"}
    BY <2>1, <2>2, ToldByOp DEF Says
  <2>4. UNCHANGED <<opStatus, opSched>> /\ accepted' = [accepted EXCEPT ![s] = @ + 1]
    BY <1>11 DEF ProviderAccepts
  <2> QED BY <2>1, <2>2, <2>3, <2>4, OneAcceptance DEF ProviderTyped
<1>12. ASSUME NEW w \in Workers, ProviderRefuses(w) PROVE [Promise!Next]_(Promise!vars)
  BY <1>12, Untouched DEF ProviderRefuses
<1>13. ASSUME NEW w \in Workers, Supersede(w) PROVE [Promise!Next]_(Promise!vars)
  BY <1>13, Untouched DEF Supersede
<1>14. ASSUME NEW w \in Workers, MarkOther(w) PROVE [Promise!Next]_(Promise!vars)
  BY <1>14, Untouched DEF MarkOther
<1>15. ASSUME NEW w \in Workers, Finish(w) PROVE [Promise!Next]_(Promise!vars)
  <2> DEFINE o == wop[w]
  <2>1. o \in Ops /\ opSched[o] = job[w] /\ job[w] \in Schedules
    BY <1>15 DEF Finish, HoldsLinkedOp, HasOp, BusyHasRow, FramesTyped
  <2>2. UNCHANGED <<opSched, accepted>> /\ \A p \in Ops : p # o => opStatus'[p] = opStatus[p]
    BY <1>15, <2>1 DEF Finish, OpsTyped
  <2>3. CASE verdict[w] = "requeue"
    <3>1. Says(opStatus'[o]) = Says(opStatus[o])
      BY <1>15, <2>1, <2>3 DEF Finish, OpsTyped, Says
    <3> QED BY <2>1, <2>2, <3>1, OneWrite
  <2>4. CASE verdict[w] # "requeue"
    <3>1. opStatus'[o] = verdict[w] /\ verdict[w] \in {"succeeded", "failed", "uncertain"}
      BY <1>15, <2>1, <2>4 DEF Finish, OpsTyped, ResultsGiven, Verdicts
    <3>2. /\ verdict[w] = "succeeded" => accepted[job[w]] = 1
          /\ verdict[w] = "failed" => accepted[job[w]] = 0
      BY <1>15 DEF Finish, DispatchIsTrue
    <3>3. /\ Says(opStatus'[o]) \in Promise!Answer
          /\ Says(opStatus'[o]) = "delivered" => accepted[opSched[o]] > 0
          /\ Says(opStatus'[o]) = "refused" => ~(accepted[opSched[o]] > 0)
      BY <2>1, <3>1, <3>2 DEF Says, Promise!Answer
    <3> QED BY <2>1, <2>2, <3>3, OneWrite
  <2> QED BY <2>3, <2>4
<1>16. ASSUME NEW w \in Workers, Reread(w) PROVE [Promise!Next]_(Promise!vars)
  BY <1>16, Untouched DEF Reread
<1>17. ASSUME NEW w \in Workers, Record(w) PROVE [Promise!Next]_(Promise!vars)
  BY <1>17, Untouched DEF Record, Return, DropFrame
<1>18. ASSUME NEW w \in Workers, Fail(w) PROVE [Promise!Next]_(Promise!vars)
  BY <1>18, Untouched DEF Fail, Return, DropFrame
<1>19. ASSUME NEW w \in Workers, Retry(w) PROVE [Promise!Next]_(Promise!vars)
  BY <1>19, Untouched DEF Retry, Return, DropFrame
<1>20. ASSUME NEW w \in Workers, Heartbeat(w) PROVE [Promise!Next]_(Promise!vars)
  BY <1>20, Untouched DEF Heartbeat
<1>21. ASSUME NEW w \in Workers, Crash(w) PROVE [Promise!Next]_(Promise!vars)
  BY <1>21, Untouched DEF Crash
<1>22. ASSUME NEW c \in Clients, FetchDraft(c) PROVE [Promise!Next]_(Promise!vars)
  <2>1. c \in Ops /\ opSched[c] = None
    BY <1>22 DEF FetchDraft, LinkedLast, Ops
  <2>2. UNCHANGED <<opSched, accepted>> /\ \A p \in Ops : p # c => opStatus'[p] = opStatus[p]
    BY <1>22, <2>1 DEF FetchDraft, OpsTyped
  <2> QED BY <2>1, <2>2, OneWrite
<1>23. ASSUME NEW c \in Clients, InsertRow(c) PROVE [Promise!Next]_(Promise!vars)
  <2>1. c \in Ops /\ opSched[c] = None
    BY <1>23 DEF InsertRow, LinkedLast, Ops
  <2>2. UNCHANGED <<opSched, accepted>> /\ \A p \in Ops : p # c => opStatus'[p] = opStatus[p]
    BY <1>23, <2>1 DEF InsertRow, OpsTyped
  <2> QED BY <2>1, <2>2, OneWrite
<1>24. ASSUME NEW c \in Clients, Link(c) PROVE [Promise!Next]_(Promise!vars)
  <2>1. c \in Ops /\ opSched[c] = None /\ cjob[c] \in Schedules
    BY <1>24 DEF Link, LinkedLast, Ops
  <2>2. CASE Linked(cjob[c]) = {}
    <3>1. \A p \in Ops : opSched[p] # cjob[c]
      BY <2>2 DEF Linked
    <3>2. /\ opStatus' = [opStatus EXCEPT ![c] = "queued"]
          /\ opSched' = [opSched EXCEPT ![c] = cjob[c]]
          /\ UNCHANGED accepted
      BY <1>24, <2>2 DEF Link
    <3> QED BY <2>1, <3>1, <3>2, FirstLink
  <2>3. CASE Linked(cjob[c]) # {}
    <3>1. /\ UNCHANGED <<opSched, accepted>>
          /\ \A p \in Ops : p # c => opStatus'[p] = opStatus[p]
      BY <1>24, <2>3 DEF Link, OpsTyped
    <3> QED BY <2>1, <3>1, OneWrite
  <2> QED BY <2>2, <2>3
<1>25. ASSUME NEW c \in Clients, CancelOp(c) PROVE [Promise!Next]_(Promise!vars)
  <2> DEFINE s == cjob[c]
  <2>1. s \in Schedules
    BY <1>25 DEF CancelOp, LinkedLast
  <2>2. /\ UNCHANGED <<opSched, accepted>>
        /\ opStatus' = [p \in Ops |-> IF opSched[p] = s /\ opStatus[p] = "queued"
                                      THEN "failed" ELSE opStatus[p]]
    BY <1>25 DEF CancelOp
  <2>3. CASE \E o \in Ops : opSched[o] = s /\ opStatus[o] = "queued"
    <3>1. PICK o \in Ops : opSched[o] = s /\ opStatus[o] = "queued"
      BY <2>3
    <3>2. \A p \in Ops : p # o => opStatus'[p] = opStatus[p]
      BY <2>1, <2>2, <3>1 DEF OneOpEach
    <3>3. opStatus'[o] = "failed"
      BY <2>2, <3>1
    <3>4. ~(accepted[s] > 0)
      BY <2>1, <3>1 DEF OutcomesOnRecord, OneOpEach
    <3> QED BY <2>1, <2>2, <3>1, <3>2, <3>3, <3>4, OneWrite DEF Says, Promise!Answer
  <2>4. CASE \A o \in Ops : ~(opSched[o] = s /\ opStatus[o] = "queued")
    <3>1. \A p \in Ops : opStatus'[p] = opStatus[p]
      BY <2>2, <2>4
    <3>2. opStatus' = opStatus
      BY <2>2, <3>1 DEF OpsTyped
    <3> QED BY <2>2, <3>2, Untouched
  <2> QED BY <2>3, <2>4
<1>26. ASSUME NEW c \in Clients, SendNow(c) PROVE [Promise!Next]_(Promise!vars)
  BY <1>26, Untouched DEF SendNow
<1>27. ASSUME NEW c \in Clients, FindSuperseded(c) PROVE [Promise!Next]_(Promise!vars)
  BY <1>27, Untouched DEF FindSuperseded
<1>28. ASSUME NEW c \in Clients, MarkSuperseded(c) PROVE [Promise!Next]_(Promise!vars)
  BY <1>28, Untouched DEF MarkSuperseded
<1>29. ASSUME NEW c \in Clients, ClientCrash(c) PROVE [Promise!Next]_(Promise!vars)
  BY <1>29, Untouched DEF ClientCrash
<1>30. ASSUME NEW c \in Clients, NEW d \in Drafts, StartSchedule(c, d) PROVE [Promise!Next]_(Promise!vars)
  <2>1. c \in Ops /\ opSched[c] = None
    BY <1>30 DEF StartSchedule, LinkedLast, Ops
  <2>2. UNCHANGED <<opSched, accepted>> /\ \A p \in Ops : p # c => opStatus'[p] = opStatus[p]
    BY <1>30, <2>1 DEF StartSchedule, OpsTyped
  <2> QED BY <2>1, <2>2, OneWrite
<1>31. ASSUME NEW c \in Clients, NEW d \in Drafts, StartSendNow(c, d) PROVE [Promise!Next]_(Promise!vars)
  BY <1>31, Untouched DEF StartSendNow
<1>32. ASSUME NEW c \in Clients, NEW s \in Schedules, CancelRow(c, s) PROVE [Promise!Next]_(Promise!vars)
  BY <1>32, Untouched DEF CancelRow
<1>33. ASSUME NEW o \in Ops, Poll(o) PROVE [Promise!Next]_(Promise!vars)
  <2>1. /\ UNCHANGED <<opSched, accepted>>
        /\ \A p \in Ops : p # o => opStatus'[p] = opStatus[p]
        /\ opStatus'[o] = "uncertain"
    BY <1>33 DEF Poll, OpsTyped
  <2>2. opSched[o] = None \/ opSched[o] \in Schedules
    BY DEF OpsTyped
  <2> QED BY <2>1, <2>2, OneWrite DEF Says, Promise!Answer
<1>34. ASSUME NEW s \in Schedules, BecomeDue(s) PROVE [Promise!Next]_(Promise!vars)
  BY <1>34, Untouched DEF BecomeDue
<1>35. ASSUME NEW s \in Schedules, LeaseExpires(s) PROVE [Promise!Next]_(Promise!vars)
  BY <1>35, Untouched DEF LeaseExpires
<1>36. ASSUME NEW s \in Schedules, Stall(s) PROVE [Promise!Next]_(Promise!vars)
  BY <1>36, Untouched DEF Stall
<1>37. CASE UNCHANGED vars
  BY <1>37, Untouched DEF vars
<1> QED
  BY <1>1, <1>2, <1>3, <1>4, <1>5, <1>6, <1>7, <1>8, <1>9, <1>10, <1>11, <1>12, <1>13, <1>14,
     <1>15, <1>16, <1>17, <1>18, <1>19, <1>20, <1>21, <1>22, <1>23, <1>24, <1>25, <1>26, <1>27,
     <1>28, <1>29, <1>30, <1>31, <1>32, <1>33, <1>34, <1>35, <1>36, <1>37 DEF Next, WorkerStep,
     CallStep

\* A statement that fails tells at most that the outcome of a delivery is unknown.
LEMMA FaultTellsUnknown ==
    ASSUME FaultyInv, FaultyInv', NEW w \in Workers, StatementFails(w)
    PROVE  [Promise!Next]_(Promise!vars)
<1> USE ConstantsOK DEF Goto, provider
<1> /\ OpsTyped /\ FramesTyped /\ BusyHasRow /\ HoldsLinkedOp /\ Consistent /\ Consistent'
  BY DEF FaultyInv, TypeOK, Consistent
<1>1. CASE UNCHANGED opStatus
  BY <1>1, Untouched DEF StatementFails
<1>2. CASE pc[w] = "finish" /\ opStatus' = [opStatus EXCEPT ![wop[w]] = "uncertain"]
  <2>1. wop[w] \in Ops /\ opSched[wop[w]] \in Schedules
    BY <1>2 DEF HoldsLinkedOp, HasOp, BusyHasRow, FramesTyped
  <2>2. /\ UNCHANGED <<opSched, accepted>>
        /\ \A p \in Ops : p # wop[w] => opStatus'[p] = opStatus[p]
        /\ opStatus'[wop[w]] = "uncertain"
    BY <1>2, <2>1 DEF StatementFails, OpsTyped
  <2> QED BY <2>1, <2>2, OneWrite DEF Says, Promise!Answer
<1> QED BY <1>1, <1>2 DEF StatementFails

\* The workers, the rows and the operations implement the delivery promise, whatever
\* statements fail.
THEOREM PromiseKept == FaultySpec => KeepsPromise
<1>1. Init => Promise!Init
  <2> SUFFICES ASSUME Init PROVE Promise!Init
    OBVIOUS
  <2>1. \A s \in Schedules : (accepted[s] > 0) = FALSE
    BY DEF Init
  <2>2. \A s \in Schedules : ToldAbout(s) = "open"
    BY ConstantsOK, ToldByNone DEF Init, Ops
  <2>3. [s \in Schedules |-> accepted[s] > 0] = [s \in Schedules |-> FALSE]
    BY <2>1
  <2>4. [s \in Schedules |-> ToldAbout(s)] = [s \in Schedules |-> "open"]
    BY <2>2
  <2> QED BY <2>3, <2>4 DEF Promise!Init
<1>2. FaultyInv /\ FaultyInv' /\ [Next]_vars => [Promise!Next]_(Promise!vars)
  BY PromiseStep DEF FaultyInv
<1>3. FaultyInv /\ FaultyInv' /\ [NextOnFaultyStore]_vars => [Promise!Next]_(Promise!vars)
  BY <1>2, FaultTellsUnknown DEF NextOnFaultyStore
<1> QED BY <1>1, <1>3, FaultyInvariance, PTL DEF FaultySpec, KeepsPromise, Promise!Spec
=============================================================================
