--------------------------- MODULE OAuthCallback ---------------------------
(***************************************************************************)
(* The OAuth flow of the command line (src/packages/server/src/accounts/   *)
(* oauthCallback.ts): the redirect to a loopback listener, the same URL    *)
(* pasted into the terminal, a timeout and the end of the input race to    *)
(* settle one flow.  The first callback that carries a code claims it.     *)
(***************************************************************************)
EXTENDS Naturals

CONSTANT MaxCallbacks     \* bound on the callbacks that carry a code

ASSUME CallbackConstants == MaxCallbacks \in Nat

VARIABLES
    paste,        \* a terminal to paste into: "none", "open" or "closed"
    port,         \* "starting", "listening", "busy" or "closed"
    announced, claimed,
    outcome,      \* "none" until the flow is settled
    callbacks, exchanges,   \* history: codes received and codes exchanged
    added         \* history: complete() stored the account

callbackVars == <<paste, port, announced, claimed, outcome, callbacks, exchanges, added>>

CallbackTypeOK ==
    /\ paste \in {"none", "open", "closed"}
    /\ port \in {"starting", "listening", "busy", "closed"}
    /\ announced \in BOOLEAN /\ claimed \in BOOLEAN /\ added \in BOOLEAN
    /\ outcome \in {"none", "connected", "failed", "providerError", "timeout", "noInput", "noPort"}
    /\ callbacks \in 0..MaxCallbacks /\ exchanges \in Nat

CallbackInit ==
    /\ paste \in {"none", "open"}
    /\ port = "starting"
    /\ announced = FALSE /\ claimed = FALSE /\ added = FALSE
    /\ outcome = "none"
    /\ callbacks = 0 /\ exchanges = 0

Settled == outcome # "none"

\* settle() with its cleanup(): only the first one counts.
Settle(o) ==
    /\ outcome' = IF Settled THEN outcome ELSE o
    /\ paste' = IF Settled \/ paste = "none" THEN paste ELSE "closed"
    /\ port' = IF ~Settled /\ port = "listening" THEN "closed" ELSE port

----------------------------------------------------------------------------
\* The listening event, which may come after the flow was settled.
Listens ==
    /\ port = "starting"
    /\ port' = IF Settled THEN "closed" ELSE "listening"
    /\ announced' = (announced \/ ~Settled)
    /\ UNCHANGED <<paste, claimed, outcome, callbacks, exchanges, added>>

\* Without a terminal a busy port ends the flow; with one it only needs a paste.
PortInUse ==
    /\ port = "starting"
    /\ IF Settled \/ paste # "none" THEN UNCHANGED <<outcome, paste>> /\ port' = "busy"
       ELSE outcome' = "noPort" /\ port' = "busy" /\ UNCHANGED paste
    /\ announced' = (announced \/ (~Settled /\ paste # "none"))
    /\ UNCHANGED <<claimed, callbacks, exchanges, added>>

PortFails ==
    /\ port = "starting"
    /\ port' = "busy"
    /\ outcome' = IF Settled THEN outcome ELSE "noPort"
    /\ paste' = IF Settled \/ paste = "none" THEN paste ELSE "closed"
    /\ UNCHANGED <<announced, claimed, callbacks, exchanges, added>>

\* A callback reaches the flow by the listener or the terminal; its state is the
\* announced one.  Anything else is answered and changes nothing.
CallbackArrives == announced /\ (port = "listening" \/ paste = "open")

\* Mutant: the second code is exchanged too while the first one is.
CodeArrivesAgain ==
    /\ CallbackArrives /\ callbacks < MaxCallbacks
    /\ callbacks' = callbacks + 1
    /\ claimed' = (claimed \/ ~Settled)
    /\ exchanges' = IF Settled THEN exchanges ELSE exchanges + 1
    /\ UNCHANGED <<paste, port, announced, outcome, added>>

CodeArrives ==
    /\ CallbackArrives /\ callbacks < MaxCallbacks
    /\ callbacks' = callbacks + 1
    /\ claimed' = (claimed \/ ~Settled)
    /\ exchanges' = IF claimed \/ Settled THEN exchanges ELSE exchanges + 1
    /\ UNCHANGED <<paste, port, announced, outcome, added>>

ProviderErrorArrives ==
    /\ CallbackArrives /\ ~claimed /\ ~Settled
    /\ Settle("providerError")
    /\ UNCHANGED <<announced, claimed, callbacks, exchanges, added>>

TimesOut ==
    /\ ~Settled /\ ~claimed
    /\ Settle("timeout")
    /\ UNCHANGED <<announced, claimed, callbacks, exchanges, added>>

\* The terminal is closed; the redirect may still finish a flow that listens.
InputEnds ==
    /\ paste = "open"
    /\ IF claimed \/ port = "listening" THEN paste' = "closed" /\ UNCHANGED <<port, outcome>>
       ELSE Settle("noInput")
    /\ UNCHANGED <<announced, claimed, callbacks, exchanges, added>>

\* complete() exchanges the code and stores the account, or throws.
ExchangeDone ==
    /\ claimed /\ ~Settled
    /\ \/ Settle("connected") /\ added' = TRUE
       \/ Settle("failed") /\ added' = added
    /\ UNCHANGED <<announced, claimed, callbacks, exchanges>>

CallbackNext ==
    \/ Listens \/ PortInUse \/ PortFails \/ CodeArrives \/ ProviderErrorArrives
    \/ TimesOut \/ InputEnds \/ ExchangeDone

CallbackSpec == CallbackInit /\ [][CallbackNext]_callbackVars

----------------------------------------------------------------------------
\* One code is exchanged, a claimed code alone decides how its flow ends, and a
\* settled flow leaves no listener and no terminal open.
FirstCodeWins ==
    /\ exchanges <= 1
    /\ claimed => exchanges = 1 /\ outcome \in {"none", "connected", "failed"}
    /\ added <=> outcome = "connected"
    /\ Settled => port # "listening" /\ paste # "open"
============================================================================
