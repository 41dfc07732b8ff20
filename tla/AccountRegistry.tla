-------------------------- MODULE AccountRegistry --------------------------
(***************************************************************************)
(* The mailboxes of an instance, their stored OAuth tokens and the cached  *)
(* providers that refresh them (src/packages/server/src/accounts/          *)
(* registry.ts).  Two processes of one instance, say the server and a      *)
(* command, keep providers of their own over the same rows.  A refresh     *)
(* awaits the identity provider; everything else is one step.              *)
(***************************************************************************)
EXTENDS Naturals, FiniteSets

CONSTANTS Mailboxes,      \* account ids, each given once
          Addresses, Owners,
          OAuthClients,   \* OAuth applications
          Processes, Providers,   \* provider objects
          MaxTokens,      \* bound on the token sets issued
          Nothing

ASSUME RegistryConstants == MaxTokens \in Nat /\ Owners # {} /\ Nothing \notin Owners

VARIABLES
    mailbox,       \* rows of accounts
    credential,    \* rows of account_credentials
    provider,      \* provider objects, cached or still refreshing
    issued,        \* token sets issued so far
    connects       \* history: how often each mailbox was connected

registryVars == <<mailbox, credential, provider, issued, connects>>

Kinds == {"gmail", "outlook", "imap"}
NoMailbox == [kind |-> "none", address |-> Nothing, owner |-> Nothing]
NoTokens == [connection |-> 0, token |-> 0, revision |-> 0, client |-> Nothing]
NoProvider == [process |-> Nothing, of |-> Nothing, seen |-> NoTokens, client |-> Nothing,
               token |-> 0, cached |-> FALSE, refreshing |-> FALSE]

RegistryTypeOK ==
    /\ mailbox \in [Mailboxes ->
         [kind : Kinds \cup {"none"}, address : Addresses \cup {Nothing},
          owner : Owners \cup {Nothing}]]
    /\ \A a \in Mailboxes :
         credential[a] \in [connection : Nat, token : 0..MaxTokens, revision : Nat,
                            client : OAuthClients \cup {Nothing}]
    /\ \A h \in Providers : DOMAIN provider[h] = DOMAIN NoProvider
    /\ issued \in 0..MaxTokens
    /\ connects \in [Mailboxes -> Nat]

RegistryInit ==
    /\ mailbox = [a \in Mailboxes |-> NoMailbox]
    /\ credential = [a \in Mailboxes |-> NoTokens]
    /\ provider = [h \in Providers |-> NoProvider]
    /\ issued = 0
    /\ connects = [a \in Mailboxes |-> 0]

----------------------------------------------------------------------------
Connected == {a \in Mailboxes : mailbox[a] # NoMailbox}

\* A provider that leaves the cache lives on while it refreshes.
Evicted(h) == IF provider[h].refreshing THEN [provider[h] EXCEPT !.cached = FALSE] ELSE NoProvider
CachedIn(p, a) == {h \in Providers : provider[h].cached /\ provider[h].process = p /\ provider[h].of = a}
EvictProvider(p, a) == [h \in Providers |-> IF h \in CachedIn(p, a) THEN Evicted(h) ELSE provider[h]]

\* writeCredentials() of newly issued tokens, with the application that got them.
NewTokens(a, c) ==
    [connection |-> connects[a] + 1, token |-> issued + 1,
     revision |-> credential[a].revision + 1, client |-> c]

\* addGmailAccount(), addOutlookAccount(), addImapAccount() in process p: the
\* mailbox with this address is reconnected and keeps its owner, or one is added.
AddAccount(p, kind, addr, owner, c) ==
    /\ issued < MaxTokens
    /\ \E a \in Mailboxes :
         /\ \/ mailbox[a].address = addr /\ mailbox[a].kind = kind /\ mailbox' = mailbox
            \/ /\ \A b \in Connected : mailbox[b].address # addr
               /\ owner # Nothing /\ connects[a] = 0
               /\ mailbox' = [mailbox EXCEPT ![a] = [kind |-> kind, address |-> addr, owner |-> owner]]
         /\ credential' = [credential EXCEPT ![a] = NewTokens(a, c)]
         /\ connects' = [connects EXCEPT ![a] = @ + 1]
         /\ provider' = EvictProvider(p, a)
    /\ issued' = issued + 1

\* saveImapCredentials(), after the folders were changed.
SaveImapCredentials(p, a) ==
    /\ mailbox[a].kind = "imap" /\ issued < MaxTokens
    /\ credential' = [credential EXCEPT ![a].token = issued + 1, ![a].revision = @ + 1]
    /\ issued' = issued + 1
    /\ provider' = EvictProvider(p, a)
    /\ UNCHANGED <<mailbox, connects>>

AssignAccountOwner(a, m) ==
    /\ a \in Connected
    /\ mailbox' = [mailbox EXCEPT ![a].owner = m]
    /\ UNCHANGED <<credential, provider, issued, connects>>

RemoveAccount(p, a) ==
    /\ a \in Connected
    /\ mailbox' = [mailbox EXCEPT ![a] = NoMailbox]
    /\ credential' = [credential EXCEPT ![a] = NoTokens]
    /\ provider' = EvictProvider(p, a)
    /\ UNCHANGED <<issued, connects>>

\* getProvider() when no cached provider was built from, or has seen, the row.
GetProvider(p, a, h) ==
    /\ a \in Connected /\ provider[h] = NoProvider
    /\ \A g \in CachedIn(p, a) : provider[g].seen # credential[a]
    /\ provider' = [EvictProvider(p, a) EXCEPT ![h] =
         [process |-> p, of |-> a, seen |-> credential[a], client |-> credential[a].client,
          token |-> credential[a].token, cached |-> TRUE, refreshing |-> FALSE]]
    /\ UNCHANGED <<mailbox, credential, issued, connects>>

----------------------------------------------------------------------------
StartRefresh(h) ==
    /\ provider[h].cached /\ ~provider[h].refreshing
    /\ mailbox[provider[h].of].kind \in {"gmail", "outlook"}
    /\ issued < MaxTokens
    /\ provider' = [provider EXCEPT ![h].refreshing = TRUE]
    /\ UNCHANGED <<mailbox, credential, issued, connects>>

\* The refresh of h ended and leaves it as state r; an evicted one is forgotten.
Refreshed(h, r) == provider' = [provider EXCEPT ![h] = IF r.cached THEN [r EXCEPT !.refreshing = FALSE]
                                                      ELSE NoProvider]

\* Mutant: the fresh tokens are stored whatever the row has become.
WriteTokensAnyway(h) ==
    LET a == provider[h].of
        fresh == [provider[h].seen EXCEPT !.token = issued + 1, !.revision = @ + 1] IN
    /\ provider[h].refreshing /\ issued < MaxTokens
    /\ credential[a] # NoTokens
    /\ credential' = [credential EXCEPT ![a] = fresh]
    /\ Refreshed(h, [provider[h] EXCEPT !.seen = fresh, !.token = issued + 1])
    /\ issued' = issued + 1
    /\ UNCHANGED <<mailbox, connects>>

\* writeTokensIfCurrent(): revision and ciphertext are those this provider saw.
WriteTokensIfCurrent(h) ==
    LET a == provider[h].of
        fresh == [provider[h].seen EXCEPT !.token = issued + 1, !.revision = @ + 1] IN
    /\ provider[h].refreshing /\ issued < MaxTokens
    /\ credential[a] = provider[h].seen
    /\ credential' = [credential EXCEPT ![a] = fresh]
    /\ Refreshed(h, [provider[h] EXCEPT !.seen = fresh, !.token = issued + 1])
    /\ issued' = issued + 1
    /\ UNCHANGED <<mailbox, connects>>

\* Somebody else wrote the row: adopt it.  A Gmail provider whose OAuth client
\* is no longer the row's leaves the cache instead.
AdoptTokens(h) ==
    LET row == credential[provider[h].of] IN
    /\ provider[h].refreshing /\ row \notin {provider[h].seen, NoTokens}
    /\ IF mailbox[provider[h].of].kind = "gmail" /\ row.client # provider[h].client
       THEN Refreshed(h, NoProvider)
       ELSE Refreshed(h, [provider[h] EXCEPT !.seen = row, !.token = row.token, !.client = row.client])
    /\ UNCHANGED <<mailbox, credential, issued, connects>>

\* The request fails, or the mailbox is gone and its row cannot be read.
RefreshFails(h) ==
    /\ provider[h].refreshing
    /\ Refreshed(h, provider[h])
    /\ UNCHANGED <<mailbox, credential, issued, connects>>

\* close() of a process's registry, and its end.
ProcessEnds(p) ==
    /\ \E h \in Providers : provider[h].process = p
    /\ provider' = [h \in Providers |-> IF provider[h].process = p THEN NoProvider ELSE provider[h]]
    /\ UNCHANGED <<mailbox, credential, issued, connects>>

RegistryStep(p) ==
    \/ \E kind \in Kinds, addr \in Addresses, m \in Owners, c \in OAuthClients :
         AddAccount(p, kind, addr, m, c)
    \/ \E a \in Mailboxes : SaveImapCredentials(p, a) \/ RemoveAccount(p, a)
    \/ \E a \in Mailboxes, h \in Providers : GetProvider(p, a, h)
    \/ ProcessEnds(p)

RegistryNext ==
    \/ \E p \in Processes : RegistryStep(p)
    \/ \E a \in Mailboxes, m \in Owners : AssignAccountOwner(a, m)
    \/ \E h \in Providers : \/ StartRefresh(h) \/ WriteTokensIfCurrent(h) \/ AdoptTokens(h)
                            \/ RefreshFails(h)

RegistrySpec == RegistryInit /\ [][RegistryNext]_registryVars

----------------------------------------------------------------------------
\* The stored tokens are those of the mailbox's last connection: a refresh that
\* began before a reconnect never replaces what the reconnect stored.  And a
\* cached provider that is taken for current holds the tokens and the OAuth
\* client of the row.
ReconnectionWins ==
    /\ \A a \in Connected : credential[a].connection = connects[a]
    /\ \A h \in Providers : LET a == provider[h].of IN
         provider[h].cached /\ provider[h].seen = credential[a] =>
            provider[h].token = credential[a].token /\ provider[h].client = credential[a].client
============================================================================
