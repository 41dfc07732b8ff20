--------------------------- MODULE DeliveryPromise ---------------------------
(***************************************************************************)
(* What a scheduled delivery promises to the person who scheduled it: the  *)
(* provider accepts the message at most once, and what the delivery        *)
(* operation tells is never untrue.  "unknown" is the honest answer of a   *)
(* worker that cannot tell; it may replace any other answer, and a late    *)
(* worker may still replace it by the truth, but an operation that has     *)
(* answered never goes back to being open, so nobody sends it again.       *)
(***************************************************************************)
CONSTANT Schedules

VARIABLES delivered,   \* the provider accepted the message of this schedule
          told         \* what the schedule's delivery operation says

Answer == {"delivered", "refused", "unknown"}

PromiseTypeOK ==
    /\ delivered \in [Schedules -> BOOLEAN]
    /\ told \in [Schedules -> Answer \cup {"open"}]

Init ==
    /\ delivered = [s \in Schedules |-> FALSE]
    /\ told = [s \in Schedules |-> "open"]

\* The provider takes the message, once, and never after a refusal was told.
Deliver(s) ==
    /\ ~delivered[s]
    /\ told[s] \in {"open", "unknown"}
    /\ delivered' = [delivered EXCEPT ![s] = TRUE]
    /\ UNCHANGED told

\* The operation answers, or changes its answer.
Tell(s, answer) ==
    /\ answer = "delivered" => delivered[s]
    /\ answer = "refused" => ~delivered[s]
    /\ told' = [told EXCEPT ![s] = answer]
    /\ UNCHANGED delivered

Next == \E s \in Schedules : Deliver(s) \/ \E answer \in Answer : Tell(s, answer)

vars == <<delivered, told>>

Spec == Init /\ [][Next]_vars
=============================================================================
