--------------------------- MODULE MailboxChanges ---------------------------
(* modify() of EmailService and the bookkeeping of withProvider(): a batch of  *)
(* messages is changed by a few workers, one provider call for each message,   *)
(* and every call leaves behind what it learnt about the mailbox's sign-in.    *)
EXTENDS Naturals, FiniteSets

CONSTANTS ChangeCalls,      \* calls of the service, each made once
          Messages,         \* messages of a mailbox: 1..n
          ChangeWorkers     \* provider calls at a time, 4 in the code

ASSUME ChangeConstants ==
    IsFiniteSet(Messages) /\ Messages = 1..Cardinality(Messages) /\ ChangeWorkers \in Nat \ {0}

VARIABLES signIn,       \* status of the account's row
          signInGood,   \* the provider still takes the account's credentials
          change,       \* where each call is, and the status it read before
          outcomes,     \* what a call has learnt of each message
          effects,      \* history: how often a call changed a message
          repeated      \* history: messages the provider was asked for again, unanswered

changeVars == <<signIn, signInGood, change, outcomes, effects, repeated>>

Unused == [at |-> "unused", seen |-> "active", ids |-> {}, next |-> 1, asked |-> {}]

ChangesTypeOK ==
    /\ signIn \in {"active", "auth_error"} /\ signInGood \in BOOLEAN
    /\ change \in [ChangeCalls -> [at : {"unused", "reading", "changing", "done"}, seen : {"active", "auth_error"},
                                   ids : SUBSET Messages, next : Messages \cup {Cardinality(Messages) + 1},
                                   asked : SUBSET Messages]]
    /\ outcomes \in [ChangeCalls -> [Messages -> {"uncertain", "succeeded", "auth_expired", "refused"}]]
    /\ effects \in [ChangeCalls -> [Messages -> Nat]]
    /\ repeated \in [ChangeCalls -> SUBSET Messages]

ChangesInit ==
    /\ signIn = "active" /\ signInGood = TRUE
    /\ change = [c \in ChangeCalls |-> Unused]
    /\ outcomes = [c \in ChangeCalls |-> [m \in Messages |-> "uncertain"]]
    /\ effects = [c \in ChangeCalls |-> [m \in Messages |-> 0]]
    /\ repeated = [c \in ChangeCalls |-> {}]

(* withProvider() reads the account once, before the call. *)
BeginRead(c) ==
    /\ change[c] = Unused
    /\ change' = [change EXCEPT ![c].at = "reading", ![c].seen = signIn]
    /\ UNCHANGED <<signIn, signInGood, outcomes, effects, repeated>>
ReadSucceeds(c) ==
    /\ change[c].at = "reading" /\ signInGood
    /\ signIn' = IF change[c].seen = "auth_error" THEN "active" ELSE signIn
    /\ change' = [change EXCEPT ![c].at = "done"]
    /\ UNCHANGED <<signInGood, outcomes, effects, repeated>>
ReadFails(c) ==
    /\ change[c].at = "reading"
    /\ signIn' \in {signIn} \cup (IF signInGood THEN {} ELSE {"auth_error"})
    /\ change' = [change EXCEPT ![c].at = "done"]
    /\ UNCHANGED <<signInGood, outcomes, effects, repeated>>

(* The distinct ids of the request. *)
BeginChange(c, ids) ==
    /\ change[c] = Unused /\ ids # {}
    /\ change' = [change EXCEPT ![c].at = "changing", ![c].seen = signIn, ![c].ids = ids]
    /\ UNCHANGED <<signIn, signInGood, outcomes, effects, repeated>>

TakeMessage(c) ==
    /\ change[c].at = "changing" /\ Cardinality(change[c].asked) < ChangeWorkers
    /\ change[c].next \in Messages
    /\ change' = [change EXCEPT ![c].next = @ + 1,
                                ![c].asked = @ \cup ({change[c].next} \cap change[c].ids)]
    /\ UNCHANGED <<signIn, signInGood, outcomes, effects, repeated>>

Learn(c, m, outcome) ==
    /\ m \in change[c].asked
    /\ outcomes' = [outcomes EXCEPT ![c][m] = outcome]
    /\ change' = [change EXCEPT ![c].asked = @ \ {m}]
    /\ UNCHANGED <<signIn, signInGood, repeated>>
Applied(c, m) ==
    /\ signInGood
    /\ effects' = [effects EXCEPT ![c][m] = @ + 1] /\ Learn(c, m, "succeeded")
(* An attempt the provider's own retries follow: its answer tells of the next. *)
RetriedUnanswered(c, m) ==
    /\ m \in change[c].asked \ repeated[c] /\ signInGood
    /\ \E done \in 0..1 : effects' = [effects EXCEPT ![c][m] = @ + done]
    /\ repeated' = [repeated EXCEPT ![c] = @ \cup {m}]
    /\ UNCHANGED <<signIn, signInGood, change, outcomes>>
(* isDefiniteDeliveryFailure: the provider answered that it did nothing. *)
Refused(c, m) ==
    /\ UNCHANGED effects
    /\ Learn(c, m, IF signInGood THEN "refused" ELSE "auth_expired")
(* No answer: whether the change was made is not known. *)
AnswerLostIsFailure(c, m) ==
    /\ signInGood
    /\ \E done \in 0..1 : effects' = [effects EXCEPT ![c][m] = @ + done]
    /\ Learn(c, m, "refused")
AnswerLost(c, m) ==
    /\ signInGood
    /\ \E done \in 0..1 : effects' = [effects EXCEPT ![c][m] = @ + done]
    /\ Learn(c, m, "uncertain")

(* The call as a whole succeeded for withProvider(); an expired sign-in among *)
(* the outcomes is marked afterwards.                                         *)
EndChange(c) ==
    /\ change[c].at = "changing" /\ change[c].next \notin Messages /\ change[c].asked = {}
    /\ signIn' = IF \E m \in change[c].ids : outcomes[c][m] = "auth_expired" THEN "auth_error"
                 ELSE IF change[c].seen = "auth_error" THEN "active" ELSE signIn
    /\ change' = [change EXCEPT ![c].at = "done"]
    /\ UNCHANGED <<signInGood, outcomes, effects, repeated>>

SignInRevoked ==
    /\ signInGood' = FALSE /\ UNCHANGED <<signIn, change, outcomes, effects, repeated>>
SignedInAgain ==
    /\ signInGood' = TRUE /\ signIn' = "active" /\ UNCHANGED <<change, outcomes, effects, repeated>>

ChangesNext ==
    \/ \E c \in ChangeCalls :
          \/ BeginRead(c) \/ ReadSucceeds(c) \/ ReadFails(c) \/ TakeMessage(c) \/ EndChange(c)
          \/ \E ids \in SUBSET Messages : BeginChange(c, ids)
          \/ \E m \in Messages : Applied(c, m) \/ RetriedUnanswered(c, m) \/ Refused(c, m) \/ AnswerLost(c, m)
    \/ SignInRevoked \/ SignedInAgain

ChangesSpec == ChangesInit /\ [][ChangesNext]_changeVars

-----------------------------------------------------------------------------
(* What a batch reports is what happened: a message it calls done was changed, *)
(* one it calls failed was not touched unless an attempt before the last lost   *)
(* its answer, each attempt changes it once, and nothing else was asked for.    *)
ModifyTellsTheTruth ==
    \A c \in ChangeCalls : change[c].at = "done" =>
        \A m \in Messages :
            LET attempts == IF m \notin change[c].ids THEN 0 ELSE IF m \in repeated[c] THEN 2 ELSE 1
            IN /\ effects[c][m] <= attempts
               /\ (m \in change[c].ids /\ outcomes[c][m] = "succeeded") => effects[c][m] >= 1
               /\ outcomes[c][m] \in {"refused", "auth_expired"} => effects[c][m] <= attempts - 1
=============================================================================
