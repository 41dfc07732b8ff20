-------------------------- MODULE ProviderRequests --------------------------
(* How the Gmail and Outlook providers ask their service: withRetry() and      *)
(* request() repeat what may be repeated, and an operation made of several     *)
(* requests (a draft, its attachments, the send) stops at the first that fails. *)
EXTENDS Naturals, Sequences

CONSTANTS MaxRetries        \* 3 in both providers

ASSUME RequestConstants == MaxRetries \in Nat

Requests == {"read", "create", "reply", "attach", "session", "chunk", "detach", "patch", "purge", "send"}

\* One small file, or a large one in two chunks.
Attachments == {<< >>, <<"attach">>, <<"session", "chunk", "chunk">>}
OutlookDrafting == {first \o files : first \in {<<"create">>, <<"reply", "patch">>}, files \in Attachments}
OutlookPlans ==
    {drafting \o <<"read">> : drafting \in OutlookDrafting}
    \cup {drafting \o <<"read", "send">> : drafting \in OutlookDrafting}
    \cup {<<"read", "patch", "read", "detach">> \o files \o <<"read">> : files \in Attachments}
    \cup {<<"read", "send">>, <<"read", "purge">>}
GmailPlans == {<<"create", "read">>, <<"read", "patch", "read">>, <<"patch">>, <<"send">>, <<"read", "send">>}
Operations(provider) == IF provider = "gmail" THEN GmailPlans ELSE OutlookPlans

VARIABLES plan, step,       \* the operation and how far it is
          service,          \* whose request loop
          attempt, forced,  \* of the request under way; a token was refreshed by force
          made,             \* history: how often each request took effect
          ended             \* "going" while under way, then "ok" or the code of the error

requestVars == <<plan, step, service, attempt, forced, made, ended>>

Statuses == {"401", "403", "403rate", "404", "400", "429", "5xx", "lost"}
ErrorCodes == {"ok", "auth_expired", "permission_denied", "rate_limited", "not_found", "invalid_request",
          "provider_unavailable"}

RequestsTypeOK ==
    /\ service \in {"gmail", "outlook"} /\ plan \in Operations(service) /\ step \in 1..Len(plan) + 1
    /\ attempt \in 0..MaxRetries /\ forced \in BOOLEAN
    /\ made \in [DOMAIN plan -> Nat] /\ ended \in ErrorCodes \cup {"going"}

RequestsInit ==
    /\ service \in {"gmail", "outlook"} /\ plan \in Operations(service) /\ step = 1
    /\ attempt = 0 /\ forced = FALSE
    /\ made = [i \in DOMAIN plan |-> 0] /\ ended = "going"

(* What must not be asked twice when the first answer is not known. *)
NonIdempotent(request) == request \in {"create", "reply", "attach", "session", "purge", "send"}

\* toEmailError() of the two.
CodeOf(status) ==
    CASE status = "401" -> "auth_expired"
      [] status \in {"429", "403rate"} -> "rate_limited"
      [] status = "403" -> IF service = "gmail" THEN "provider_unavailable" ELSE "permission_denied"
      [] status = "404" -> "not_found"
      [] status = "400" -> "invalid_request"
      [] OTHER -> "provider_unavailable"
Rejected(status) == status = "429" \/ (service = "gmail" /\ status = "403rate")
RetryableAnyway(status, request) == Rejected(status) \/ status = "5xx"
Retryable(status, request) ==
    /\ request # "chunk"
    /\ Rejected(status) \/ (status = "5xx" /\ ~NonIdempotent(request))

(* A request that was refused was not made; one whose answer is a server's      *)
(* failure, or is lost, may have been.                                          *)
Took(status) ==
    /\ ended = "going" /\ (status = "403rate" => service = "gmail")
    /\ \E e \in (IF status \in {"5xx", "lost"} THEN 0..1 ELSE {0}) : made' = [made EXCEPT ![step] = @ + e]
    /\ UNCHANGED <<plan, step, service>>
Accepted ==
    /\ ended = "going"
    /\ made' = [made EXCEPT ![step] = @ + 1]
    /\ step' = step + 1 /\ attempt' = 0 /\ forced' = FALSE
    /\ ended' = IF step = Len(plan) THEN "ok" ELSE "going"
    /\ UNCHANGED <<plan, service>>
\* The first 401 forces a new access token.
TokenRefused == service = "outlook" /\ ~forced /\ plan[step] # "chunk"
AskAgain(status) ==
    /\ Took(status) /\ attempt < MaxRetries
    /\ \/ status = "401" /\ TokenRefused /\ forced' = TRUE
       \/ Retryable(status, plan[step]) /\ UNCHANGED forced
    /\ attempt' = attempt + 1
    /\ UNCHANGED ended
GiveUp(status) ==
    /\ Took(status)
    /\ attempt = MaxRetries \/ ~(Retryable(status, plan[step]) \/ (status = "401" /\ TokenRefused))
    /\ ended' = IF plan[step] = "chunk" THEN "provider_unavailable" ELSE CodeOf(status)
    /\ UNCHANGED <<attempt, forced>>

(* No access token is to be had. *)
NoAccessToken ==
    /\ ended = "going" /\ plan[step] # "chunk"
    /\ ended' = "auth_expired"
    /\ UNCHANGED <<plan, step, service, attempt, forced, made>>

RequestsNext == Accepted \/ NoAccessToken \/ \E status \in Statuses : AskAgain(status) \/ GiveUp(status)
RequestsSpec == RequestsInit /\ [][RequestsNext]_requestVars

-----------------------------------------------------------------------------
\* isDefiniteDeliveryFailure() of the delivery coordinator.
Definite(code) == code \in {"invalid_request", "not_found", "permission_denied", "auth_expired", "rate_limited"}

(* However often its requests are repeated, an operation sends a message once *)
(* at most, and when its error is one the coordinator calls definite, nothing  *)
(* was sent; a request that adds something is made once at most.               *)
SendsOnceOrSaysSo ==
    \A i \in DOMAIN plan :
        /\ NonIdempotent(plan[i]) => made[i] <= 1
        /\ plan[i] = "send" /\ ended = "ok" => made[i] = 1
        /\ plan[i] = "send" /\ Definite(ended) => made[i] = 0
=============================================================================
