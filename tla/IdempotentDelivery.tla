------------------------- MODULE IdempotentDelivery -------------------------
(***************************************************************************)
(* Deliveries under an idempotency key: DeliveryCoordinator.run (send and  *)
(* forward), DeliveryCoordinator.schedule, .get, and the records of the    *)
(* older REST interface that the send routes still honour.  Calls may come *)
(* from several processes that share the store; every SQL statement and    *)
(* every await is a place where the others may run.                        *)
(*                                                                         *)
(* A key stands for a pair of credential and key, as in the unique index   *)
(* of delivery_operations.  A request stands for the hash of account, kind *)
(* and content.  What a call does for its key (the provider accepts the    *)
(* message, or a schedule is created) is its effect.                       *)
(***************************************************************************)
EXTENDS Naturals, FiniteSets

CONSTANTS Calls,      \* one tool, CLI or REST call each
          RestCalls,  \* those that come through the REST send and forward routes
          Keys,
          Requests,
          Later,      \* the requests that carry a sendAt
          None,
          MaxFaults   \* bound: crashes, and heartbeats that stay away

ASSUME KeyedConstants ==
    /\ RestCalls \subseteq Calls
    /\ Later \subseteq Requests
    /\ None \notin Requests \cup Keys
    /\ MaxFaults \in Nat

Statuses == {"absent", "sending", "queued", "succeeded", "failed", "uncertain"}
Decided  == {"queued", "succeeded", "failed"}
Answers  == Statuses \cup {"conflict", "in_progress", "replayed", "none"}
CallPC   == {"ready", "legacy", "insert", "select", "read", "expire", "reread",
             "deliver", "finish", "done"}

VARIABLES
    legacy,                    \* rest_idempotency, as an older version left it
    status, hash, stale,       \* delivery_operations; stale: not touched for five minutes
    pc, key, request, verdict, answer,  \* the frame of each call
    effect,                    \* the call had its effect
    faults

table == <<status, hash, stale>>
frame == <<key, request>>
vars  == <<legacy, table, pc, frame, verdict, answer, effect, faults>>

LegacyRecords == [hash : Requests, state : {"in_progress", "completed"}]

TypeOK ==
    /\ legacy \in [Keys -> LegacyRecords \cup {None}]
    /\ status \in [Keys -> Statuses]
    /\ hash \in [Keys -> Requests \cup {None}]
    /\ stale \in [Keys -> BOOLEAN]
    /\ pc \in [Calls -> CallPC]
    /\ key \in [Calls -> Keys \cup {None}]
    /\ request \in [Calls -> Requests \cup {None}]
    /\ verdict \in [Calls -> Decided \cup {"uncertain", "none"}]
    /\ answer \in [Calls -> Answers]
    /\ effect \in [Calls -> BOOLEAN]
    /\ faults \in Nat

Init ==
    /\ legacy \in [Keys -> LegacyRecords \cup {None}]
    /\ status = [k \in Keys |-> "absent"]
    /\ hash = [k \in Keys |-> None]
    /\ stale = [k \in Keys |-> FALSE]
    /\ pc = [c \in Calls |-> "ready"]
    /\ key = [c \in Calls |-> None]
    /\ request = [c \in Calls |-> None]
    /\ verdict = [c \in Calls |-> "none"]
    /\ answer = [c \in Calls |-> "none"]
    /\ effect = [c \in Calls |-> FALSE]
    /\ faults = 0

----------------------------------------------------------------------------
Goto(c, from, to) == pc[c] = from /\ pc' = [pc EXCEPT ![c] = to]

Reply(c, from, a) == Goto(c, from, "done") /\ answer' = [answer EXCEPT ![c] = a]

Fault == faults < MaxFaults /\ faults' = faults + 1

Working(c) == pc[c] \in {"deliver", "finish"}

\* finish() renews the operation every minute while it delivers; schedule() does not.
Attended(k) == \E c \in Calls : Working(c) /\ key[c] = k /\ request[c] \notin Later

----------------------------------------------------------------------------
\* A call.

\* A client makes, or repeats, a request under a key.
Call(c, k, r) ==
    /\ Goto(c, "ready", IF c \in RestCalls THEN "legacy" ELSE "insert")
    /\ key' = [key EXCEPT ![c] = k]
    /\ request' = [request EXCEPT ![c] = r]
    /\ UNCHANGED <<legacy, table, verdict, answer, effect, faults>>

\* The REST routes first look for a record of the older interface: an outcome
\* to repeat, or one that was never known.
Legacy(c) ==
    /\ pc[c] = "legacy"
    /\ LET old == legacy[key[c]] IN
       \/ old = None /\ Goto(c, "legacy", "insert") /\ UNCHANGED answer
       \/ old # None /\ old.hash # request[c] /\ Reply(c, "legacy", "conflict")
       \/ /\ old # None /\ old.hash = request[c]
          /\ Reply(c, "legacy", IF old.state = "completed" THEN "replayed" ELSE "in_progress")
    /\ UNCHANGED <<legacy, table, frame, verdict, effect, faults>>

\* Insert, or do nothing on conflict: the unique index elects one call per key.
Insert(c) ==
    LET k == key[c] IN
    /\ \/ /\ Goto(c, "insert", "deliver")
          /\ status[k] = "absent"
          /\ status' = [status EXCEPT ![k] = "sending"]
          /\ hash' = [hash EXCEPT ![k] = request[c]]
          /\ stale' = [stale EXCEPT ![k] = FALSE]
       \/ Goto(c, "insert", "select") /\ status[k] # "absent" /\ UNCHANGED table
    /\ UNCHANGED <<legacy, frame, verdict, answer, effect, faults>>

\* The operation in the way: the same request, or a conflict.
Select(c) ==
    /\ \/ Goto(c, "select", "read") /\ hash[key[c]] = request[c] /\ UNCHANGED answer
       \/ Reply(c, "select", "conflict") /\ hash[key[c]] # request[c]
    /\ UNCHANGED <<legacy, table, frame, verdict, effect, faults>>

\* get() reads the operation; one that nobody tends is given up first.
Read(c) ==
    /\ pc[c] = "read"
    /\ LET k == key[c]
           givenUp == status[k] = "sending" /\ stale[k]
       IN  \/ givenUp /\ Goto(c, "read", "expire") /\ UNCHANGED answer
           \/ ~givenUp /\ Reply(c, "read", status[k])
    /\ UNCHANGED <<legacy, table, frame, verdict, effect, faults>>

\* Mutant: an operation given up is opened for another delivery.
ExpireToRetry(c) ==
    /\ Goto(c, "expire", "insert")
    /\ status' = [status EXCEPT ![key[c]] = IF @ = "sending" THEN "absent" ELSE @]
    /\ UNCHANGED <<legacy, hash, stale, frame, verdict, answer, effect, faults>>

\* sending -> uncertain, on condition.
Expire(c) ==
    LET k == key[c] IN
    /\ Goto(c, "expire", "reread")
    /\ \/ /\ status[k] = "sending"
          /\ status' = [status EXCEPT ![k] = "uncertain"]
          /\ stale' = [stale EXCEPT ![k] = FALSE]
       \/ status[k] # "sending" /\ UNCHANGED <<status, stale>>
    /\ UNCHANGED <<legacy, hash, frame, verdict, answer, effect, faults>>

\* Whatever the operation says now is the call's answer.
Reread(c) ==
    /\ pc[c] = "reread"
    /\ Reply(c, "reread", status[key[c]])
    /\ UNCHANGED <<legacy, table, frame, verdict, effect, faults>>

\* The call does its work, and learns of it, or does not.
Deliver(c) ==
    /\ Goto(c, "deliver", "finish")
    /\ \/ /\ effect' = [effect EXCEPT ![c] = TRUE]
          /\ verdict' = [verdict EXCEPT ![c] =
                            IF request[c] \in Later THEN "queued" ELSE "succeeded"]
       \/ /\ effect' = [effect EXCEPT ![c] = TRUE]
          /\ verdict' = [verdict EXCEPT ![c] = "uncertain"]
       \/ /\ verdict' \in {[verdict EXCEPT ![c] = v] : v \in {"failed", "uncertain"}}
          /\ UNCHANGED effect
    /\ UNCHANGED <<legacy, table, frame, answer, faults>>

\* The outcome is written by the operation's id alone.
Finish(c) ==
    LET k == key[c] IN
    /\ Goto(c, "finish", "reread")
    /\ status' = [status EXCEPT ![k] = verdict[c]]
    /\ stale' = [stale EXCEPT ![k] = FALSE]
    /\ UNCHANGED <<legacy, hash, frame, verdict, answer, effect, faults>>

\* The process dies, or the client's connection does: nobody hears the answer.
Crash(c) ==
    /\ pc[c] \notin {"ready", "done"}
    /\ pc' = [pc EXCEPT ![c] = "done"]
    /\ Fault
    /\ UNCHANGED <<legacy, table, frame, verdict, answer, effect>>

----------------------------------------------------------------------------
\* Readers of an operation, and time.

\* Mutant: the reader reports a given-up operation without storing what it says.
PollOnly(k) ==
    /\ status[k] = "sending" /\ stale[k]
    /\ UNCHANGED vars

\* get_delivery_operation and its CLI and REST twins.
Poll(k) ==
    /\ status[k] = "sending" /\ stale[k]
    /\ status' = [status EXCEPT ![k] = "uncertain"]
    /\ stale' = [stale EXCEPT ![k] = FALSE]
    /\ UNCHANGED <<legacy, hash, pc, frame, verdict, answer, effect, faults>>

\* Five minutes pass over an operation that nobody renews.
GoStale(k) ==
    /\ status[k] = "sending" /\ ~stale[k] /\ ~Attended(k)
    /\ stale' = [stale EXCEPT ![k] = TRUE]
    /\ UNCHANGED <<legacy, status, hash, pc, frame, verdict, answer, effect, faults>>

\* They pass although a call is at work: the heartbeats fail or come late.
Stall(k) ==
    /\ status[k] = "sending" /\ ~stale[k] /\ Attended(k)
    /\ stale' = [stale EXCEPT ![k] = TRUE]
    /\ Fault
    /\ UNCHANGED <<legacy, status, hash, pc, frame, verdict, answer, effect>>

\* The heartbeat of finish().
Heartbeat(k) ==
    /\ status[k] = "sending" /\ stale[k] /\ Attended(k)
    /\ stale' = [stale EXCEPT ![k] = FALSE]
    /\ UNCHANGED <<legacy, status, hash, pc, frame, verdict, answer, effect, faults>>

\* A record of the older interface reaches its 24 hours.
LegacyExpires(k) ==
    /\ legacy[k] # None
    /\ legacy' = [legacy EXCEPT ![k] = None]
    /\ UNCHANGED <<table, pc, frame, verdict, answer, effect, faults>>

CallStep(c) ==
    \/ Legacy(c) \/ Insert(c) \/ Select(c) \/ Read(c) \/ Expire(c) \/ Reread(c)
    \/ Deliver(c) \/ Finish(c)

Next ==
    \/ \E c \in Calls : \E k \in Keys : \E r \in Requests : Call(c, k, r)
    \/ \E c \in Calls : CallStep(c) \/ Crash(c)
    \/ \E k \in Keys : Poll(k) \/ GoStale(k) \/ Stall(k) \/ Heartbeat(k) \/ LegacyExpires(k)

Spec == Init /\ [][Next]_vars

(***************************************************************************)
(* A call that was made runs on; time passes; and a client that was told   *)
(* "sending" checks the operation again, as the documentation asks.        *)
(***************************************************************************)
Fairness ==
    /\ \A c \in Calls : WF_vars(CallStep(c))
    /\ \A k \in Keys : WF_vars(GoStale(k)) /\ WF_vars(Poll(k))

FairSpec == Spec /\ Fairness

----------------------------------------------------------------------------
\* Properties.

EffectsUnder(k) == {c \in Calls : key[c] = k /\ effect[c]}

\* However often a request is repeated under a key, and whatever crashes or stalls in
\* between, at most one call has its effect, and it is the request on record (run).
OneEffectPerKey ==
    \A k \in Keys :
        /\ \A c, d \in EffectsUnder(k) : c = d
        /\ \A c \in EffectsUnder(k) : hash[k] = request[c]

\* Nobody is told the outcome of somebody else's request (select, and the hash on record).
AnswersTheRequest ==
    \A c \in Calls : answer[c] \in Statuses => hash[key[c]] = request[c]

\* "failed" was told only of a request that had no effect and will have none, "succeeded"
\* and "queued" only of one that had: a client may act on such an answer for good.
AnswersHold ==
    \A c \in Calls :
        /\ answer[c] = "failed" =>
              EffectsUnder(key[c]) = {} /\ ~\E d \in Calls : key[d] = key[c] /\ pc[d] = "deliver"
        /\ answer[c] \in {"succeeded", "queued"} => EffectsUnder(key[c]) # {}

\* A key stands for one request with one effect, and what a caller was told under it can be
\* acted on (run, get, finish and the readers that give an operation up).
KeyedSafety == OneEffectPerKey /\ AnswersTheRequest /\ AnswersHold

\* A decided operation never changes, although finish() and schedule() write by id and a
\* reader may be about to give the operation up.
DecidedForGood ==
    [][\A k \in Keys : status[k] \in Decided => status'[k] = status[k]]_vars

\* An operation does not stay in "sending": its call decides it, or, should the call have
\* died, five minutes and a reader do.
SendingEnds == \A k \in Keys : status[k] = "sending" ~> status[k] # "sending"

\* Together the calls of a key keep the promise that a delivery makes.
Told(k) ==
    CASE status[k] \in {"succeeded", "queued"} -> "delivered"
      [] status[k] = "failed" -> "refused"
      [] status[k] = "uncertain" -> "unknown"
      [] OTHER -> "open"

Promise == INSTANCE DeliveryPromise
           WITH Schedules <- Keys,
                delivered <- [k \in Keys |-> EffectsUnder(k) # {}],
                told      <- [k \in Keys |-> Told(k)]

KeepsPromise == Promise!Spec

----------------------------------------------------------------------------
\* The inductive invariant.

\* A call under way has a key and a request.
CallsHaveKeys ==
    \A c \in Calls : pc[c] # "ready" => key[c] \in Keys /\ request[c] \in Requests

\* An effect is that of a call that went to work, an answer that of a finished one.
CallsInOrder ==
    \A c \in Calls :
        /\ effect[c] => pc[c] \in {"finish", "reread", "done"}
        /\ answer[c] # "none" => pc[c] = "done"

\* Beyond the insert there is an operation, and it is of this request.
OperationOfRequest ==
    /\ \A k \in Keys : status[k] = "absent" => hash[k] = None
    /\ \A c \in Calls :
        /\ pc[c] \in {"read", "expire", "reread", "deliver", "finish"} \/ effect[c] =>
              status[key[c]] # "absent" /\ hash[key[c]] = request[c]
        /\ pc[c] = "select" => status[key[c]] # "absent"

\* The call that inserted the operation is the only one at work on it, nothing has been
\* decided without it, and its verdict says what happened.
OneAtWork ==
    /\ \A c, d \in Calls : Working(c) /\ Working(d) /\ key[c] = key[d] => c = d
    /\ \A c \in Calls : Working(c) => status[key[c]] \in {"sending", "uncertain"}
    /\ \A c, d \in Calls : Working(c) /\ effect[d] /\ key[c] = key[d] => c = d
    /\ \A c \in Calls : pc[c] = "finish" =>
          /\ verdict[c] # "none"
          /\ verdict[c] \in {"succeeded", "queued"} => effect[c]
          /\ verdict[c] = "failed" => ~effect[c]

\* A decided operation says what happened.
StatusIsTrue ==
    \A k \in Keys :
        /\ status[k] \in {"succeeded", "queued"} => EffectsUnder(k) # {}
        /\ status[k] = "failed" => EffectsUnder(k) = {}

\* An answer that decides is what the operation says, and nobody is at work on it.
AnswersOnRecord ==
    \A c \in Calls : answer[c] \in Decided => status[key[c]] = answer[c]

KeyedInv ==
    /\ TypeOK /\ CallsHaveKeys /\ CallsInOrder /\ OperationOfRequest /\ OneAtWork
    /\ StatusIsTrue /\ AnswersOnRecord /\ AnswersTheRequest /\ OneEffectPerKey
============================================================================
