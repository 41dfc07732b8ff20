-------------------------- MODULE HostedConnection --------------------------
(***************************************************************************)
(* Connecting a mailbox in a browser: an administrator makes a one-time    *)
(* link, whoever opens it is sent to Google or Microsoft and comes back to *)
(* the callback, which exchanges the code and adds the mailbox             *)
(* (src/packages/server/src/http/app.ts, accounts/gmailConnection.ts and   *)
(* storage/gmailConnectionGrants.ts).  Links are rows; OAuth states live   *)
(* in the server's memory and are lost when it restarts.                   *)
(***************************************************************************)
EXTENDS AccountRegistry

CONSTANTS Links, OAuthStates,   \* each made once
          HostProcess           \* the process that serves HTTP

ASSUME HostedConstants == HostProcess \in Processes

VARIABLES link, oauthState,
          completed     \* history: connections completed with each link

hostedVars == <<registryVars, link, oauthState, completed>>

HostedKinds == {"gmail", "outlook"}
\* What a connection is for: a new mailbox of an owner, or an existing one.
NoIntent == [kind |-> "gmail", owner |-> Nothing, reauthorize |-> Nothing]
Intents == [kind : HostedKinds, owner : Owners, reauthorize : {Nothing}]
           \cup [kind : HostedKinds, owner : {Nothing}, reauthorize : Mailboxes]
LinkRow(status, intent) == [status |-> status, intent |-> intent]
OAuthEntry(status, intent, from) == [status |-> status, intent |-> intent, from |-> from]

HostedTypeOK ==
    /\ RegistryTypeOK
    /\ link \in [Links -> [status : {"none", "open", "expired", "used"}, intent : Intents \cup {NoIntent}]]
    /\ oauthState \in [OAuthStates ->
         [status : {"none", "open", "exchanging", "gone"}, intent : Intents \cup {NoIntent},
          from : Links \cup {Nothing}]]
    /\ completed \in [Links -> Nat]

HostedInit ==
    /\ RegistryInit
    /\ link = [l \in Links |-> LinkRow("none", NoIntent)]
    /\ oauthState = [s \in OAuthStates |-> OAuthEntry("none", NoIntent, Nothing)]
    /\ completed = [l \in Links |-> 0]

----------------------------------------------------------------------------
\* POST /auth/connections, and the same for members and on the command line.
CreateLink(l, intent) ==
    /\ link[l].status = "none"
    /\ intent.reauthorize # Nothing => mailbox[intent.reauthorize].kind = intent.kind
    /\ link' = [link EXCEPT ![l] = LinkRow("open", intent)]
    /\ UNCHANGED <<registryVars, oauthState, completed>>

LinkExpires(l) ==
    /\ link[l].status = "open"
    /\ link' = [link EXCEPT ![l].status = "expired"]
    /\ UNCHANGED <<registryVars, oauthState, completed>>

\* beginGoogleOAuth(), beginMicrosoftOAuth(): a state for the browser to bring back.
BeginOAuth(s, intent, from) ==
    /\ oauthState[s].status = "none"
    /\ oauthState' = [oauthState EXCEPT ![s] = OAuthEntry("open", intent, from)]

\* GET /auth/google?owner=..., for administrators without a link.
StartWithoutLink(s, kind, m) ==
    /\ BeginOAuth(s, [kind |-> kind, owner |-> m, reauthorize |-> Nothing], Nothing)
    /\ UNCHANGED <<registryVars, link, completed>>

\* Mutant: the link is marked used by the callback only.
OpenLink(l, s) ==
    /\ link[l].status = "open"
    /\ BeginOAuth(s, link[l].intent, l)
    /\ UNCHANGED <<registryVars, link, completed>>

\* POST of the confirmation page: the link is claimed, and is spent even when no
\* OAuth application is configured to go on with.
ClaimLink(l, s) ==
    /\ link[l].status = "open"
    /\ link' = [link EXCEPT ![l].status = "used"]
    /\ BeginOAuth(s, link[l].intent, l) \/ UNCHANGED oauthState
    /\ UNCHANGED <<registryVars, completed>>

\* The state is spent first; an error of the provider or no code ends it there.
Callback(s) ==
    /\ oauthState[s].status = "open"
    /\ \E next \in {"exchanging", "gone"} : oauthState' = [oauthState EXCEPT ![s].status = next]
    /\ UNCHANGED <<registryVars, link, completed>>

\* The state is too old, and so refused or swept by a later flow.
StateExpires(s) ==
    /\ oauthState[s].status = "open"
    /\ oauthState' = [oauthState EXCEPT ![s].status = "gone"]
    /\ UNCHANGED <<registryVars, link, completed>>

\* The person at the browser authorised address addr, whichever it is.
MayConnect(intent, addr) ==
    LET a == intent.reauthorize IN
    IF a # Nothing THEN mailbox[a].kind = intent.kind /\ mailbox[a].address = addr
    ELSE \A b \in Connected : mailbox[b].address = addr => mailbox[b].owner = intent.owner

ExchangeSucceeds(s, addr, c) ==
    LET intent == oauthState[s].intent IN
    /\ oauthState[s].status = "exchanging" /\ MayConnect(intent, addr)
    /\ AddAccount(HostProcess, intent.kind, addr, intent.owner, c)
    /\ oauthState' = [oauthState EXCEPT ![s].status = "gone"]
    /\ completed' = IF oauthState[s].from = Nothing THEN completed
                    ELSE [completed EXCEPT ![oauthState[s].from] = @ + 1]
    /\ UNCHANGED link

\* The exchange fails, or the address is not one this connection may add.
ExchangeFails(s) ==
    /\ oauthState[s].status = "exchanging"
    /\ oauthState' = [oauthState EXCEPT ![s].status = "gone"]
    /\ UNCHANGED <<registryVars, link, completed>>

HostRestarts ==
    /\ \E s \in OAuthStates : oauthState[s].status \in {"open", "exchanging"}
    /\ oauthState' = [s \in OAuthStates |-> IF oauthState[s].status = "none" THEN oauthState[s]
                                           ELSE [oauthState[s] EXCEPT !.status = "gone"]]
    /\ UNCHANGED <<registryVars, link, completed>>

HostedFlow ==
    \/ \E l \in Links : \/ \E i \in Intents : CreateLink(l, i)
                        \/ LinkExpires(l) \/ \E s \in OAuthStates : ClaimLink(l, s)
    \/ \E s \in OAuthStates :
         \/ Callback(s) \/ StateExpires(s) \/ ExchangeFails(s)
         \/ \E kind \in HostedKinds, m \in Owners : StartWithoutLink(s, kind, m)
         \/ \E addr \in Addresses, c \in OAuthClients : ExchangeSucceeds(s, addr, c)
    \/ HostRestarts

HostedNext ==
    \/ HostedFlow
    \/ RegistryNext /\ UNCHANGED <<link, oauthState, completed>>

HostedSpec == HostedInit /\ [][HostedNext]_hostedVars

----------------------------------------------------------------------------
\* A link connects one mailbox at most, whoever opens it and however often, and
\* it has been used up by then.
LinksConnectOnce ==
    \A l \in Links : completed[l] <= 1 /\ (completed[l] = 1 => link[l].status = "used")
============================================================================
