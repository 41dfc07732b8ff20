------------------------- MODULE ScheduledDelivery -------------------------
(***************************************************************************)
(* Scheduled mail in Fluxmail: the rows of scheduled_sends, the rows of    *)
(* delivery_operations, the scheduler workers that claim and fire a        *)
(* schedule, and the clients that schedule a draft, cancel a schedule,     *)
(* send a draft at once or poll an operation.  Workers and clients may be  *)
(* different operating-system processes that share one SQLite file, so     *)
(* every SQL statement (or transaction) is one step and every await, and   *)
(* every gap between two statements, is a place where others may run.      *)
(*                                                                         *)
(* Time is abstracted.  due[s] says that sendAt and nextAttemptAt have     *)
(* passed; live[s] that claimUntil has not.  A lease may run out whenever  *)
(* its holder stalls, so nothing here depends on a step being quick.       *)
(***************************************************************************)
EXTENDS Naturals, FiniteSets

CONSTANTS Workers,      \* scheduler processes (serve, scheduled run)
          Clients,      \* one call each: schedule, cancel or send now
          Schedules,    \* ids that createScheduledSend may draw
          Drafts,       \* provider drafts
          None,         \* null
          MaxAttempts,  \* bound: retryable rejections per schedule
          MaxFaults     \* bound: crashes, stalls and failed renewals, together

ASSUME ConstantsOK ==
    /\ MaxAttempts \in Nat /\ MaxFaults \in Nat
    /\ None \notin Workers \cup Clients \cup Schedules \cup Drafts
    /\ Clients \cap Schedules = {}
    /\ Workers \cap Clients = {}

\* An operation is named after the client whose key it carries or, when the
\* scheduler had to make it, after the schedule that serves as its key.
Ops == Clients \cup Schedules

SchedStatus == {"absent", "pending", "sending", "sent", "failed", "uncertain", "canceled"}
OpStatus    == {"absent", "queued", "sending", "succeeded", "failed", "uncertain"}
Settled     == {"sent", "failed", "uncertain", "canceled"}

WorkerPC == {"idle", "claimed", "lookup", "insertOp", "markOp", "preflight",
             "rejectOp", "check", "cas", "connect", "send", "supersede",
             "markOther", "finish", "reread", "record", "failing", "retrying"}
ClientPC == {"ready", "create", "insertRow", "link", "cancelOp",
             "sendNow", "find", "mark", "done"}
Verdicts == {"succeeded", "failed", "uncertain", "requeue"}

VARIABLES
    sched, draft, due, owner, live, attempts,   \* scheduled_sends
    opStatus, opSched,                          \* delivery_operations
    pc, job, wop, lost, verdict, out, other,    \* the frame of fire() in each worker
    cpc, cdraft, cjob,                          \* the frame of each client's call
    exists, accepted, sentNow,                  \* the mail provider
    faults                                      \* faults spent so far

rows     == <<sched, draft, due, owner, live, attempts>>
ops      == <<opStatus, opSched>>
frames   == <<job, wop, lost, verdict, out, other>>
calls    == <<cpc, cdraft, cjob>>
provider == <<exists, accepted, sentNow>>
vars     == <<rows, ops, pc, frames, calls, provider, faults>>

RowsTyped ==
    /\ sched \in [Schedules -> SchedStatus]
    /\ draft \in [Schedules -> Drafts \cup {None}]
    /\ due \in [Schedules -> BOOLEAN]
    /\ owner \in [Schedules -> Workers \cup {None}]
    /\ live \in [Schedules -> BOOLEAN]
    /\ attempts \in [Schedules -> Nat]

OpsTyped ==
    /\ opStatus \in [Ops -> OpStatus]
    /\ opSched \in [Ops -> Schedules \cup {None}]

FramesTyped ==
    /\ pc \in [Workers -> WorkerPC]
    /\ job \in [Workers -> Schedules \cup {None}]
    /\ wop \in [Workers -> Ops \cup {None}]
    /\ lost \in [Workers -> BOOLEAN]
    /\ verdict \in [Workers -> Verdicts \cup {None}]
    /\ out \in [Workers -> OpStatus \cup {None}]
    /\ other \in [Workers -> Schedules \cup {None}]

CallsTyped ==
    /\ cpc \in [Clients -> ClientPC]
    /\ cdraft \in [Clients -> Drafts \cup {None}]
    /\ cjob \in [Clients -> Schedules \cup {None}]

ProviderTyped ==
    /\ exists \in [Drafts -> BOOLEAN]
    /\ accepted \in [Schedules -> Nat]
    /\ sentNow \in [Drafts -> BOOLEAN]

TypeOK == RowsTyped /\ OpsTyped /\ FramesTyped /\ CallsTyped /\ ProviderTyped /\ faults \in Nat

Init ==
    /\ sched = [s \in Schedules |-> "absent"]
    /\ draft = [s \in Schedules |-> None]
    /\ due = [s \in Schedules |-> FALSE]
    /\ owner = [s \in Schedules |-> None]
    /\ live = [s \in Schedules |-> FALSE]
    /\ attempts = [s \in Schedules |-> 0]
    /\ opStatus = [o \in Ops |-> "absent"]
    /\ opSched = [o \in Ops |-> None]
    /\ pc = [w \in Workers |-> "idle"]
    /\ job = [w \in Workers |-> None]
    /\ wop = [w \in Workers |-> None]
    /\ lost = [w \in Workers |-> FALSE]
    /\ verdict = [w \in Workers |-> None]
    /\ out = [w \in Workers |-> None]
    /\ other = [w \in Workers |-> None]
    /\ cpc = [c \in Clients |-> "ready"]
    /\ cdraft = [c \in Clients |-> None]
    /\ cjob = [c \in Clients |-> None]
    /\ exists = [d \in Drafts |-> TRUE]
    /\ accepted = [s \in Schedules |-> 0]
    /\ sentNow = [d \in Drafts |-> FALSE]
    /\ faults = 0

----------------------------------------------------------------------------
\* Conditions on the tables.

\* Mutant: a row whose claimer died is never taken over.
ClaimableOnce(s) == due[s] /\ sched[s] = "pending"

\* claimScheduledSend's WHERE clause: due, and pending or abandoned by its claimer.
Claimable(s) ==
    /\ due[s]
    /\ \/ sched[s] = "pending"
       \/ sched[s] = "sending" /\ ~live[s]

\* Mutant: a write under the claim that trusts the token alone.
HoldsToken(w) == owner[job[w]] = w

\* The WHERE clause of every write made under a claim: id, token and status.
\* A worker fires one schedule at a time, so its name stands for its token.
HoldsClaim(w) == owner[job[w]] = w /\ sched[job[w]] = "sending"

Linked(s) == {o \in Ops : opSched[o] = s}

PendingFor(d) == {s \in Schedules : sched[s] = "pending" /\ draft[s] = d}

\* Some running worker still renews the lease of s.
Attended(s) == \E w \in Workers : job[w] = s /\ owner[s] = w /\ ~lost[w]

Goto(w, from, to) == pc[w] = from /\ pc' = [pc EXCEPT ![w] = to]

\* fire() returns, or its process dies: the frame is gone.
DropFrame(w) ==
    /\ pc' = [pc EXCEPT ![w] = "idle"]
    /\ job' = [job EXCEPT ![w] = None]
    /\ wop' = [wop EXCEPT ![w] = None]
    /\ lost' = [lost EXCEPT ![w] = FALSE]
    /\ verdict' = [verdict EXCEPT ![w] = None]
    /\ out' = [out EXCEPT ![w] = None]
    /\ other' = [other EXCEPT ![w] = None]

Return(w, from) == pc[w] = from /\ DropFrame(w)

CallGoto(c, from, to) == cpc[c] = from /\ cpc' = [cpc EXCEPT ![c] = to]

Fault == faults < MaxFaults /\ faults' = faults + 1

----------------------------------------------------------------------------
\* The worker: SendScheduler.fire, fireScheduled, finish, deliverScheduled.

\* claimScheduledSend: a fresh token and a fresh lease.
Claim(w, s) ==
    /\ Goto(w, "idle", "claimed")
    /\ Claimable(s)
    /\ sched' = [sched EXCEPT ![s] = "sending"]
    /\ owner' = [owner EXCEPT ![s] = w]
    /\ live' = [live EXCEPT ![s] = TRUE]
    /\ job' = [job EXCEPT ![w] = s]
    /\ UNCHANGED <<draft, due, attempts, ops, wop, lost, verdict, out, other,
                   calls, provider, faults>>

\* ownsClaim() answers yes: it renews the lease of a row it still owns.
Owns(w) ==
    /\ ~lost[w] /\ HoldsClaim(w)
    /\ live' = [live EXCEPT ![job[w]] = TRUE]
    /\ UNCHANGED faults

\* ownsClaim() answers no: it did so before, another worker has the row, or
\* the renewal itself threw.
Disowned(w) ==
    /\ \/ (lost[w] \/ ~HoldsClaim(w)) /\ UNCHANGED faults
       \/ ~lost[w] /\ HoldsClaim(w) /\ Fault
    /\ UNCHANGED live

\* The first thing fire() does with its claim.
Confirm(w) ==
    /\ \/ /\ Goto(w, "claimed", "lookup")
          /\ Owns(w)
          /\ UNCHANGED frames
       \/ Return(w, "claimed") /\ Disowned(w)
    /\ UNCHANGED <<sched, draft, due, owner, attempts, ops, calls, provider>>

\* fireScheduled selects the operation by schedule id and dispatches on it.
Lookup(w) ==
    /\ \/ /\ Goto(w, "lookup", "insertOp")
          /\ Linked(job[w]) = {}
          /\ UNCHANGED <<wop, out>>
       \/ /\ pc[w] = "lookup"
          /\ \E o \in Linked(job[w]) :
              /\ wop' = [wop EXCEPT ![w] = o]
              /\ \/ /\ opStatus[o] = "queued"
                    /\ Goto(w, "lookup", "preflight")
                    /\ UNCHANGED out
                 \/ /\ opStatus[o] = "sending"
                    /\ Goto(w, "lookup", "markOp")
                    /\ UNCHANGED out
                 \/ /\ opStatus[o] \notin {"queued", "sending"}
                    /\ Goto(w, "lookup", "record")
                    /\ out' = [out EXCEPT ![w] = opStatus[o]]
    /\ UNCHANGED <<rows, ops, job, lost, verdict, other, calls, provider, faults>>

\* queueScheduled: an operation for a schedule that has none.  The unique
\* index on schedule_id refuses it when a client linked its own meanwhile.
InsertOp(w) ==
    LET s == job[w] IN
    /\ \/ /\ Linked(s) = {}
          /\ Goto(w, "insertOp", "lookup")
          /\ opStatus' = [opStatus EXCEPT ![s] = "queued"]
          /\ opSched' = [opSched EXCEPT ![s] = s]
       \/ /\ Linked(s) # {}
          /\ Goto(w, "insertOp", "retrying")
          /\ UNCHANGED ops
    /\ UNCHANGED <<rows, frames, calls, provider, faults>>

\* An operation found in "sending" belongs to a dispatch nobody will confirm.
\* The write is by id alone, whatever the row says by now.
MarkOp(w) ==
    /\ Goto(w, "markOp", "reread")
    /\ opStatus' = [opStatus EXCEPT ![wop[w]] = "uncertain"]
    /\ UNCHANGED <<rows, opSched, frames, calls, provider, faults>>

\* The provider is asked for the draft and the sender is validated.
Preflight(w) ==
    /\ \/ Goto(w, "preflight", "check") /\ exists[draft[job[w]]]
       \/ Goto(w, "preflight", "rejectOp")
       \/ Goto(w, "preflight", "retrying") /\ attempts[job[w]] < MaxAttempts
    /\ UNCHANGED <<rows, ops, frames, calls, provider, faults>>

\* A permanent preflight failure fails the operation if it is still queued.
RejectOp(w) ==
    /\ Goto(w, "rejectOp", "failing")
    /\ opStatus' = [opStatus EXCEPT ![wop[w]] = IF @ = "queued" THEN "failed" ELSE @]
    /\ UNCHANGED <<rows, opSched, frames, calls, provider, faults>>

\* ownsClaim() before the dispatch; a worker that lost the row leaves it alone.
Check(w) ==
    /\ \/ /\ Goto(w, "check", "cas")
          /\ Owns(w)
          /\ UNCHANGED frames
       \/ Return(w, "check") /\ Disowned(w)
    /\ UNCHANGED <<sched, draft, due, owner, attempts, ops, calls, provider>>

\* Mutant: the update queued -> sending is not conditional.
DispatchAnyway(w) ==
    /\ Goto(w, "cas", "connect")
    /\ opStatus' = [opStatus EXCEPT ![wop[w]] = "sending"]
    /\ UNCHANGED <<rows, opSched, frames, calls, provider, faults>>

\* The conditional update queued -> sending that elects the dispatcher.
Dispatch(w) ==
    /\ \/ /\ Goto(w, "cas", "connect")
          /\ opStatus[wop[w]] = "queued"
          /\ opStatus' = [opStatus EXCEPT ![wop[w]] = "sending"]
       \/ /\ Goto(w, "cas", "reread")
          /\ opStatus[wop[w]] # "queued"
          /\ UNCHANGED opStatus
    /\ UNCHANGED <<rows, opSched, frames, calls, provider, faults>>

\* deliver() opens the provider, which may fail, and asks ownsClaim() once more;
\* a disowned worker throws, which finish() can only record as uncertain.
Connect(w) ==
    /\ \/ /\ Goto(w, "connect", "send")
          /\ Owns(w)
          /\ UNCHANGED <<lost, verdict>>
       \/ /\ Goto(w, "connect", "finish")
          /\ Disowned(w)
          /\ lost' = [lost EXCEPT ![w] = TRUE]
          /\ verdict' = [verdict EXCEPT ![w] = "uncertain"]
       \/ /\ Goto(w, "connect", "finish")
          /\ \E v \in {"failed", "requeue", "uncertain"} :
              /\ v = "requeue" => attempts[job[w]] < MaxAttempts
              /\ verdict' = [verdict EXCEPT ![w] = v]
          /\ UNCHANGED <<lost, live, faults>>
    /\ UNCHANGED <<sched, draft, due, owner, attempts, ops, job, wop,
                   out, other, calls, provider>>

\* The provider takes the message.  Its reply may be lost, and the draft may
\* outlive the delivery (IMAP reports a draft it could not move or delete).
ProviderAccepts(w) ==
    LET s == job[w] IN
    /\ pc[w] = "send"
    /\ accepted' = [accepted EXCEPT ![s] = @ + 1]
    /\ exists' \in {exists, [exists EXCEPT ![draft[s]] = FALSE]}
    /\ \/ Goto(w, "send", "supersede") /\ UNCHANGED verdict
       \/ /\ Goto(w, "send", "finish")
          /\ verdict' = [verdict EXCEPT ![w] = "uncertain"]
    /\ UNCHANGED <<rows, ops, job, wop, lost, out, other, calls, sentNow, faults>>

\* It does not: a refusal for good, a refusal worth a retry, or an error that
\* leaves the outcome open.
ProviderRefuses(w) ==
    /\ Goto(w, "send", "finish")
    /\ \E v \in {"failed", "requeue", "uncertain"} :
        /\ v = "requeue" => attempts[job[w]] < MaxAttempts
        /\ verdict' = [verdict EXCEPT ![w] = v]
    /\ UNCHANGED <<rows, ops, job, wop, lost, out, other, calls, provider, faults>>

\* findPendingByDraft after a delivery: another schedule of the same draft.
Supersede(w) ==
    /\ \/ /\ Goto(w, "supersede", "markOther")
          /\ \E s \in PendingFor(draft[job[w]]) : other' = [other EXCEPT ![w] = s]
          /\ UNCHANGED verdict
       \/ /\ Goto(w, "supersede", "finish")
          /\ PendingFor(draft[job[w]]) = {}
          /\ verdict' = [verdict EXCEPT ![w] = "succeeded"]
          /\ UNCHANGED other
    /\ UNCHANGED <<rows, ops, job, wop, lost, out, calls, provider, faults>>

\* markSent writes by id alone.
MarkOther(w) ==
    /\ Goto(w, "markOther", "finish")
    /\ sched' = [sched EXCEPT ![other[w]] = "sent"]
    /\ verdict' = [verdict EXCEPT ![w] = "succeeded"]
    /\ UNCHANGED <<draft, due, owner, live, attempts, ops, job, wop, lost,
                   out, other, calls, provider, faults>>

\* Mutant: the return to the queue is not conditional on "sending".
FinishRequeues(w) ==
    /\ Goto(w, "finish", IF verdict[w] = "requeue" THEN "retrying" ELSE "reread")
    /\ opStatus' = [opStatus EXCEPT ![wop[w]] =
                        IF verdict[w] = "requeue" THEN "queued" ELSE verdict[w]]
    /\ UNCHANGED <<rows, opSched, frames, calls, provider, faults>>

\* finish() records the verdict.  Only the return to the queue is conditional
\* on the operation still being in "sending".
Finish(w) ==
    /\ \/ /\ Goto(w, "finish", "reread")
          /\ verdict[w] # "requeue"
          /\ opStatus' = [opStatus EXCEPT ![wop[w]] = verdict[w]]
       \/ /\ Goto(w, "finish", "retrying")
          /\ verdict[w] = "requeue"
          /\ opStatus' = [opStatus EXCEPT ![wop[w]] = IF @ = "sending" THEN "queued" ELSE @]
    /\ UNCHANGED <<rows, opSched, frames, calls, provider, faults>>

\* fireScheduled answers with a fresh read of the operation.
Reread(w) ==
    /\ Goto(w, "reread", "record")
    /\ out' = [out EXCEPT ![w] = opStatus[wop[w]]]
    /\ UNCHANGED <<rows, ops, job, wop, lost, verdict, other, calls, provider, faults>>

\* Mutant: the write lands whoever owns the row.
ReleaseAnyway(w, status) ==
    /\ sched' = [sched EXCEPT ![job[w]] = status]
    /\ owner' = [owner EXCEPT ![job[w]] = None]
    /\ live' = [live EXCEPT ![job[w]] = FALSE]

\* A write under the claim: it lands only on a row this worker still owns.
Release(w, status) ==
    LET s == job[w] IN
    IF HoldsClaim(w)
    THEN /\ sched' = [sched EXCEPT ![s] = status]
         /\ owner' = [owner EXCEPT ![s] = None]
         /\ live' = [live EXCEPT ![s] = FALSE]
    ELSE UNCHANGED <<sched, owner, live>>

\* fire() turns the operation's status into the schedule's.
Record(w) ==
    /\ Return(w, "record")
    /\ \/ out[w] = "queued" /\ lost[w] /\ UNCHANGED <<sched, owner, live>>
       \/ out[w] = "succeeded" /\ Release(w, "sent")
       \/ out[w] = "failed" /\ Release(w, "failed")
       \/ /\ out[w] \notin {"succeeded", "failed"}
          /\ ~(out[w] = "queued" /\ lost[w])
          /\ Release(w, "uncertain")
    /\ UNCHANGED <<draft, due, attempts, ops, calls, provider, faults>>

\* fire() caught a permanent error.
Fail(w) ==
    /\ Return(w, "failing")
    /\ Release(w, "failed")
    /\ UNCHANGED <<draft, due, attempts, ops, calls, provider, faults>>

\* fire() caught anything else: retryClaim puts the row back with a backoff.
Retry(w) ==
    LET s == job[w] IN
    /\ Return(w, "retrying")
    /\ Release(w, "pending")
    /\ IF HoldsClaim(w)
       THEN /\ due' = [due EXCEPT ![s] = FALSE]
            /\ attempts' = [attempts EXCEPT ![s] = @ + 1]
       ELSE UNCHANGED <<due, attempts>>
    /\ UNCHANGED <<draft, ops, calls, provider, faults>>

\* The 60-second heartbeat of a fire() in progress.
Heartbeat(w) ==
    /\ pc[w] # "idle"
    /\ \/ Owns(w) /\ UNCHANGED lost
       \/ Disowned(w) /\ lost' = [lost EXCEPT ![w] = TRUE]
    /\ UNCHANGED <<sched, draft, due, owner, attempts, ops, pc, job, wop,
                   verdict, out, other, calls, provider>>

\* The process dies; its writes stay.
Crash(w) ==
    /\ pc[w] # "idle"
    /\ DropFrame(w)
    /\ Fault
    /\ UNCHANGED <<rows, ops, calls, provider>>

----------------------------------------------------------------------------
\* The clients.

\* DeliveryCoordinator.schedule inserts its operation before anything else.
StartSchedule(c, d) ==
    /\ CallGoto(c, "ready", "create")
    /\ cdraft' = [cdraft EXCEPT ![c] = d]
    /\ opStatus' = [opStatus EXCEPT ![c] = "sending"]
    /\ UNCHANGED <<rows, opSched, pc, frames, cjob, provider, faults>>

\* createSchedule fetches the draft, or fails for good or in doubt; the
\* failure is written over whatever the operation says.
FetchDraft(c) ==
    /\ \/ /\ CallGoto(c, "create", "insertRow")
          /\ exists[cdraft[c]]
          /\ UNCHANGED opStatus
       \/ \E v \in {"failed", "uncertain"} :
          /\ CallGoto(c, "create", "done")
          /\ opStatus' = [opStatus EXCEPT ![c] = v]
    /\ UNCHANGED <<rows, opSched, pc, frames, cdraft, cjob, provider, faults>>

\* createScheduledSend: one transaction that refuses a draft with a pending row.
InsertRow(c) ==
    LET d == cdraft[c] IN
    /\ \/ /\ CallGoto(c, "insertRow", "done")
          /\ PendingFor(d) # {}
          /\ opStatus' = [opStatus EXCEPT ![c] = "failed"]
          /\ UNCHANGED <<sched, draft, cjob>>
       \/ /\ CallGoto(c, "insertRow", "link")
          /\ PendingFor(d) = {}
          /\ \E s \in Schedules :
              /\ sched[s] = "absent"
              /\ sched' = [sched EXCEPT ![s] = "pending"]
              /\ draft' = [draft EXCEPT ![s] = d]
              /\ cjob' = [cjob EXCEPT ![c] = s]
          /\ UNCHANGED opStatus
    /\ UNCHANGED <<due, owner, live, attempts, opSched, pc, frames, cdraft, provider, faults>>

\* schedule() links its operation by id alone; the unique index refuses the
\* link when the scheduler was quicker, and the client's operation is uncertain.
Link(c) ==
    LET s == cjob[c] IN
    /\ CallGoto(c, "link", "done")
    /\ \/ /\ Linked(s) = {}
          /\ opStatus' = [opStatus EXCEPT ![c] = "queued"]
          /\ opSched' = [opSched EXCEPT ![c] = s]
       \/ /\ Linked(s) # {}
          /\ opStatus' = [opStatus EXCEPT ![c] = "uncertain"]
          /\ UNCHANGED opSched
    /\ UNCHANGED <<rows, pc, frames, cdraft, cjob, provider, faults>>

\* cancelScheduledSend: only a pending row, in one statement.
CancelRow(c, s) ==
    /\ CallGoto(c, "ready", "cancelOp")
    /\ sched[s] = "pending"
    /\ sched' = [sched EXCEPT ![s] = "canceled"]
    /\ cjob' = [cjob EXCEPT ![c] = s]
    /\ UNCHANGED <<draft, due, owner, live, attempts, ops, pc, frames, cdraft, provider, faults>>

\* DeliveryCoordinator.cancelScheduled: the operation linked to the schedule,
\* if there is one yet and it is still queued.
CancelOp(c) ==
    /\ CallGoto(c, "cancelOp", "done")
    /\ opStatus' = [o \in Ops |->
                      IF opSched[o] = cjob[c] /\ opStatus[o] = "queued"
                      THEN "failed" ELSE opStatus[o]]
    /\ UNCHANGED <<rows, opSched, pc, frames, cdraft, cjob, provider, faults>>

\* EmailService.send with a draft id: the draft is read first.
StartSendNow(c, d) ==
    /\ CallGoto(c, "ready", "sendNow")
    /\ exists[d]
    /\ cdraft' = [cdraft EXCEPT ![c] = d]
    /\ UNCHANGED <<rows, ops, pc, frames, cjob, provider, faults>>

\* Mutant: a failed send supersedes the schedule all the same.
SendNowOrNot(c) ==
    /\ CallGoto(c, "sendNow", "find")
    /\ \/ /\ sentNow' = [sentNow EXCEPT ![cdraft[c]] = TRUE]
          /\ exists' \in {exists, [exists EXCEPT ![cdraft[c]] = FALSE]}
       \/ UNCHANGED <<exists, sentNow>>
    /\ UNCHANGED <<rows, ops, pc, frames, cdraft, cjob, accepted, faults>>

\* The provider accepts the draft, or the call fails.
SendNow(c) ==
    /\ \/ /\ CallGoto(c, "sendNow", "find")
          /\ sentNow' = [sentNow EXCEPT ![cdraft[c]] = TRUE]
          /\ exists' \in {exists, [exists EXCEPT ![cdraft[c]] = FALSE]}
       \/ CallGoto(c, "sendNow", "done") /\ UNCHANGED <<exists, sentNow>>
    /\ UNCHANGED <<rows, ops, pc, frames, cdraft, cjob, accepted, faults>>

\* findPendingByDraft: the schedule that the send supersedes.
FindSuperseded(c) ==
    /\ \/ /\ CallGoto(c, "find", "mark")
          /\ \E s \in PendingFor(cdraft[c]) : cjob' = [cjob EXCEPT ![c] = s]
       \/ /\ CallGoto(c, "find", "done")
          /\ PendingFor(cdraft[c]) = {}
          /\ UNCHANGED cjob
    /\ UNCHANGED <<rows, ops, pc, frames, cdraft, provider, faults>>

\* markSent: by id alone, and the schedule's operation is left as it is.
MarkSuperseded(c) ==
    /\ CallGoto(c, "mark", "done")
    /\ sched' = [sched EXCEPT ![cjob[c]] = "sent"]
    /\ UNCHANGED <<draft, due, owner, live, attempts, ops, pc, frames, cdraft, cjob, provider, faults>>

\* The client's process dies in the middle of its call.
ClientCrash(c) ==
    /\ cpc[c] \notin {"ready", "done"}
    /\ cpc' = [cpc EXCEPT ![c] = "done"]
    /\ Fault
    /\ UNCHANGED <<rows, ops, pc, frames, cdraft, cjob, provider>>

\* DeliveryCoordinator.get: an operation that has been "sending" for over five
\* minutes is reported, and stored, as uncertain.
Poll(o) ==
    /\ opStatus[o] = "sending"
    /\ opStatus' = [opStatus EXCEPT ![o] = "uncertain"]
    /\ UNCHANGED <<rows, opSched, pc, frames, calls, provider, faults>>

----------------------------------------------------------------------------
\* Time.

\* sendAt, or the backoff of the last attempt, has passed.
BecomeDue(s) ==
    /\ sched[s] = "pending" /\ ~due[s]
    /\ due' = [due EXCEPT ![s] = TRUE]
    /\ UNCHANGED <<sched, draft, owner, live, attempts, ops, pc, frames, calls, provider, faults>>

\* claimUntil passes on a row nobody renews any more.
LeaseExpires(s) ==
    /\ sched[s] = "sending" /\ live[s] /\ ~Attended(s)
    /\ live' = [live EXCEPT ![s] = FALSE]
    /\ UNCHANGED <<sched, draft, due, owner, attempts, ops, pc, frames, calls, provider, faults>>

\* claimUntil passes although the worker is alive: a suspended machine, a
\* blocked event loop.
Stall(s) ==
    /\ sched[s] = "sending" /\ live[s] /\ Attended(s)
    /\ live' = [live EXCEPT ![s] = FALSE]
    /\ Fault
    /\ UNCHANGED <<sched, draft, due, owner, attempts, ops, pc, frames, calls, provider>>

----------------------------------------------------------------------------
WorkerStep(w) ==
    \/ Confirm(w) \/ Lookup(w) \/ InsertOp(w) \/ MarkOp(w) \/ Preflight(w)
    \/ RejectOp(w) \/ Check(w) \/ Dispatch(w) \/ Connect(w)
    \/ ProviderAccepts(w) \/ ProviderRefuses(w) \/ Supersede(w) \/ MarkOther(w)
    \/ Finish(w) \/ Reread(w) \/ Record(w) \/ Fail(w) \/ Retry(w)

CallStep(c) ==
    \/ FetchDraft(c) \/ InsertRow(c) \/ Link(c) \/ CancelOp(c)
    \/ SendNow(c) \/ FindSuperseded(c) \/ MarkSuperseded(c)

Next ==
    \/ \E w \in Workers : \E s \in Schedules : Claim(w, s)
    \/ \E w \in Workers : WorkerStep(w) \/ Heartbeat(w) \/ Crash(w)
    \/ \E c \in Clients : \E d \in Drafts : StartSchedule(c, d) \/ StartSendNow(c, d)
    \/ \E c \in Clients : \E s \in Schedules : CancelRow(c, s)
    \/ \E c \in Clients : CallStep(c) \/ ClientCrash(c)
    \/ \E o \in Ops : Poll(o)
    \/ \E s \in Schedules : BecomeDue(s) \/ LeaseExpires(s) \/ Stall(s)

Spec == Init /\ [][Next]_vars

(***************************************************************************)
(* Fairness.  A scheduler that runs polls every second and a fire() it has *)
(* begun runs on to its end, so its steps are weakly fair; so is the       *)
(* passing of time, and so are the remaining statements of a client's      *)
(* call.  Nobody has to start a call, poll, crash or stall.                *)
(***************************************************************************)
Fairness ==
    /\ \A w \in Workers : WF_vars(WorkerStep(w))
    /\ \A w \in Workers : WF_vars(\E s \in Schedules : Claim(w, s))
    /\ \A c \in Clients : WF_vars(CallStep(c))
    /\ \A s \in Schedules : WF_vars(BecomeDue(s)) /\ WF_vars(LeaseExpires(s))

FairSpec == Spec /\ Fairness

(***************************************************************************)
(* The same system on a store whose statements may fail (another process   *)
(* holds the write lock for longer than busy_timeout, a full disk).  The   *)
(* catch of fire() takes such an error for one worth a retry, wherever it  *)
(* came from; one in the catch itself leaves the row to its lease, as a    *)
(* crash does.                                                             *)
(***************************************************************************)

\* A statement of fireScheduled, finish or fire fails; after the delivery the
\* first such error is itself an outcome to store, as uncertain.
StatementFails(w) ==
    /\ \/ /\ pc[w] \in {"lookup", "insertOp", "markOp", "rejectOp", "cas", "finish", "reread", "record"}
          /\ pc' = [pc EXCEPT ![w] = "retrying"]
          /\ UNCHANGED <<opStatus, verdict>>
       \/ /\ pc[w] \in {"supersede", "markOther"}
          /\ pc' = [pc EXCEPT ![w] = "finish"]
          /\ verdict' = [verdict EXCEPT ![w] = "uncertain"]
          /\ UNCHANGED opStatus
       \/ /\ Goto(w, "finish", "reread")
          /\ verdict[w] = "succeeded"
          /\ opStatus' = [opStatus EXCEPT ![wop[w]] = "uncertain"]
          /\ UNCHANGED verdict
    /\ Fault
    /\ UNCHANGED <<rows, opSched, job, wop, lost, out, other, calls, provider>>

NextOnFaultyStore == Next \/ \E w \in Workers : StatementFails(w)

FaultySpec == Init /\ [][NextOnFaultyStore]_vars

FaultyFairSpec == FaultySpec /\ Fairness

----------------------------------------------------------------------------
\* Properties.

\* Dispatching a schedule, from the election to the recorded verdict.
Dispatching(w) == pc[w] \in {"connect", "send", "supersede", "markOther", "finish"}

\* The message of s is out, or a provider call that may put it out is running.
Departed(s) == accepted[s] > 0 \/ \E w \in Workers : job[w] = s /\ pc[w] = "send"

\* Some call put the draft of s out: a worker's, for any schedule of that draft, or a client's.
DraftDelivered(s) ==
    \E d \in Drafts :
        /\ draft[s] = d
        /\ sentNow[d] \/ \E r \in Schedules : draft[r] = d /\ accepted[r] > 0

\* However workers crash, stall, lose their lease or retry, the provider accepts the
\* message of a schedule at most once (fireScheduled's election and its refusal to
\* dispatch an operation found in "sending").
AtMostOnce == \A s \in Schedules : accepted[s] <= 1

\* A schedule that the list shows as pending, canceled or failed has not been delivered
\* by a worker and is not being delivered: a cancel that succeeded is final, and a row
\* goes back to pending only when nothing left (cancelScheduledSend, failClaim, retryClaim).
NothingBehindTheUsersBack ==
    \A s \in Schedules : sched[s] \in {"pending", "canceled", "failed"} => ~Departed(s)

\* A row says "failed" only of a message that is not out, and never will be, even on a
\* store whose statements fail (failClaim, after a definite failure alone).
FailedIsUnsent == \A s \in Schedules : sched[s] = "failed" => ~Departed(s)

\* The operation's answer is true: "failed" means that no worker delivered the schedule
\* and none is about to, "succeeded" that the provider accepted it (finish, get,
\* cancelScheduled and the preflight all write that column).
AnswersAreTrue ==
    \A s \in Schedules : \A o \in Linked(s) :
        /\ opStatus[o] = "succeeded" => accepted[s] = 1
        /\ opStatus[o] = "failed" =>
              accepted[s] = 0 /\ \A w \in Workers : job[w] = s => ~Dispatching(w)

\* Whatever statement of a worker fails, the message goes out once at most, and what the
\* operation and a failed row say of it is what happened (fire, fireScheduled, finish).
OutcomesAreTrue == AtMostOnce /\ AnswersAreTrue /\ FailedIsUnsent

\* A row says "sent" only when the provider took its draft, be it through this schedule,
\* another schedule of the draft, or a send that superseded it (completeClaim, markSent).
SentWasAccepted == \A s \in Schedules : sched[s] = "sent" => DraftDelivered(s)

\* A schedule that has reached an end never becomes pending or sending again, although
\* markSent writes rows without looking at their status and leaves the claim token behind.
SettledForGood == [][\A s \in Schedules : sched[s] \in Settled => sched'[s] \in Settled]_vars

\* Every schedule reaches an end, across crashes, lost leases and retries, once the
\* provider stops asking for retries.
Drains == \A s \in Schedules : sched[s] \in {"pending", "sending"} ~> sched[s] \in Settled

\* The workers, the rows and the operations together keep the delivery promise.
ToldAbout(s) ==
    IF \E o \in Linked(s) : opStatus[o] = "succeeded" THEN "delivered"
    ELSE IF \E o \in Linked(s) : opStatus[o] = "failed" THEN "refused"
    ELSE IF \E o \in Linked(s) : opStatus[o] = "uncertain" THEN "unknown"
    ELSE "open"

Promise == INSTANCE DeliveryPromise
           WITH delivered <- [s \in Schedules |-> accepted[s] > 0],
                told      <- [s \in Schedules |-> ToldAbout(s)]

KeepsPromise == Promise!Spec

----------------------------------------------------------------------------
\* The inductive invariant behind the safety properties.

\* A busy worker works on a row that exists.
BusyHasRow ==
    \A w \in Workers :
        /\ pc[w] = "idle" <=> job[w] = None
        /\ pc[w] # "idle" => sched[job[w]] # "absent"

\* Every row has a draft.
RowsHaveDrafts == \A s \in Schedules : sched[s] = "absent" <=> draft[s] = None

\* Beyond the lookup a worker holds the operation linked to its schedule.
HasOp(w) == pc[w] \in {"markOp", "preflight", "rejectOp", "check", "cas", "connect", "send",
                       "supersede", "markOther", "finish", "reread"}

HoldsLinkedOp == \A w \in Workers : HasOp(w) => wop[w] \in Ops /\ opSched[wop[w]] = job[w]

\* finish() has a verdict to store, and fire() an answer to record.
ResultsGiven ==
    \A w \in Workers :
        /\ pc[w] = "finish" => verdict[w] \in Verdicts
        /\ pc[w] = "record" => out[w] \in OpStatus

\* One operation per schedule; a scheduler's operation bears the name of its schedule.
OneOpEach ==
    /\ \A o1, o2 \in Ops : opSched[o1] = opSched[o2] /\ opSched[o1] # None => o1 = o2
    /\ \A s \in Schedules : opSched[s] \in {s, None}

\* A client's operation stays unlinked until the last statement of its call.
LinkedLast ==
    \A c \in Clients :
        /\ cpc[c] # "done" => opSched[c] = None
        /\ cpc[c] \in {"create", "insertRow", "sendNow", "find", "mark"} => cdraft[c] \in Drafts
        /\ cpc[c] \in {"cancelOp", "link", "mark"} => cjob[c] \in Schedules

\* One dispatch of a schedule at a time.
OneDispatcher ==
    \A w1, w2 \in Workers :
        Dispatching(w1) /\ Dispatching(w2) /\ job[w1] = job[w2] => w1 = w2

\* Whatever happens during a dispatch, others can only call its operation uncertain.
DispatchedOp == \A w \in Workers : Dispatching(w) => opStatus[wop[w]] \in {"sending", "uncertain"}

\* A dispatcher's place, and its verdict, agree with what the provider did.
DispatchIsTrue ==
    \A w \in Workers :
        /\ pc[w] \in {"connect", "send"} => accepted[job[w]] = 0
        /\ pc[w] \in {"supersede", "markOther"} => accepted[job[w]] = 1
        /\ pc[w] = "finish" /\ verdict[w] \in {"failed", "requeue"} => accepted[job[w]] = 0
        /\ pc[w] = "finish" /\ verdict[w] = "succeeded" => accepted[job[w]] = 1

\* What the operation of an accepted schedule may say, and what a worker that read it believes.
OutcomesOnRecord ==
    /\ \A s \in Schedules :
        accepted[s] > 0 => \E o \in Ops : /\ opSched[o] = s
                                         /\ opStatus[o] \in {"sending", "uncertain", "succeeded"}
    /\ \A o \in Ops : opSched[o] # None /\ opStatus[o] = "succeeded" => accepted[opSched[o]] = 1
    /\ \A w \in Workers : pc[w] = "record" /\ out[w] = "succeeded" => accepted[job[w]] = 1

\* A worker that might fail its row, or dispatch it,
MayRefuse(w) ==
    \/ pc[w] \in {"insertOp", "preflight", "rejectOp", "check", "cas", "connect", "failing"}
    \/ pc[w] = "finish" /\ verdict[w] \in {"failed", "requeue"}
    \/ pc[w] = "record" /\ out[w] = "failed"

\* or put it back.
MayRetract(w) == MayRefuse(w) \/ pc[w] = "retrying"

\* Once the message has departed no such worker holds the claim ...
NoRetraction == \A w \in Workers : MayRetract(w) /\ Departed(job[w]) => ~HoldsClaim(w)

\* ... and the row is not one that promises otherwise.
DepartedRows == \A s \in Schedules : Departed(s) => sched[s] \in {"sending", "sent", "uncertain"}

\* On a store whose statements fail a row may be put back all the same, but not failed.
NoRefusal == \A w \in Workers : MayRefuse(w) /\ Departed(job[w]) => ~HoldsClaim(w)

\* A call about to write "sent" knows of the acceptance that justifies it.
Superseding ==
    /\ \A w \in Workers :
        pc[w] = "markOther" => other[w] \in Schedules /\ draft[other[w]] = draft[job[w]]
    /\ \A c \in Clients :
        /\ cpc[c] \in {"find", "mark"} => sentNow[cdraft[c]]
        /\ cpc[c] = "mark" => draft[cjob[c]] = cdraft[c]

\* The frames, the calls and the links between the tables,
Consistent ==
    /\ BusyHasRow /\ RowsHaveDrafts /\ HoldsLinkedOp /\ ResultsGiven
    /\ OneOpEach /\ LinkedLast /\ Superseding

\* the delivery and what its operation tells,
Delivery == OneDispatcher /\ DispatchedOp /\ DispatchIsTrue /\ OutcomesOnRecord /\ AtMostOnce

\* and the rows marked as failed or sent: all this holds whatever statements fail.
FaultyInv == TypeOK /\ Consistent /\ Delivery /\ NoRefusal /\ FailedIsUnsent /\ SentWasAccepted

\* As long as none fails, no row is put back either.
IInv == FaultyInv /\ NoRetraction /\ DepartedRows

----------------------------------------------------------------------------
\* What the documents and tests say and the code does not keep.

\* A queued operation is one to wait for: the delivery it announces will be decided.
QueuedIsDecided == \A o \in Ops : opStatus[o] = "queued" ~> opStatus[o] # "queued"

\* An operation reported as uncertain is never sent, or queued to be sent, on its own.
UncertainStaysUnsent ==
    [][\A o \in Ops : opStatus[o] = "uncertain" => opStatus'[o] \notin {"queued", "sending"}]_vars

\* A schedule that could be canceled was not sent, and is not being sent: its draft stays
\* in the Drafts folder.
CanceledStaysUnsent == \A s \in Schedules : sched[s] = "canceled" => ~Departed(s)

\* A draft has at most one pending schedule.
OnePendingPerDraft == \A d \in Drafts : Cardinality(PendingFor(d)) <= 1
============================================================================
