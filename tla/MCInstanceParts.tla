-------------------------- MODULE MCInstanceParts --------------------------
(***************************************************************************)
(* The components of an instance other than scheduled delivery, the        *)
(* runtime and the members, on small sets, in one specification.  They     *)
(* share no variable, so their product says nothing that they do not say   *)
(* one at a time: `part', chosen at the start, is the component that takes *)
(* steps, and the others stay in one initial state. What two of them share *)
(* is composed in their modules: HostedConnection steps the                *)
(* AccountRegistry it extends, and StoreOpening the FileLock.              *)
(***************************************************************************)
EXTENDS Entitlements, LoginAttempts, ConnectionPermissions,
        HostedConnection, OAuthCallback, StoreOpening,
        MailboxSearch, MailboxChanges, ImapMessages, ImapPaging,
        ProviderRequests, ProviderPaging, OutlookMoves,
        DeploymentKey, InstanceSettings, LocalLog, ReleasePublishing

VARIABLE part

Parts == {"entitlements", "logins", "permissions",
          "registry", "hosted", "callback", "store",
          "search", "changes", "imap", "paging", "requests", "candidates", "moves",
          "key", "settings", "log", "release"}

(* The values of the constants that a configuration file cannot write. *)
LeaseOf(members, accounts, expires) ==
    [members |-> members, accounts |-> accounts, expires |-> expires]
MCLeases == {LeaseOf(2, 2, 2), LeaseOf(1, 2, 2), LeaseOf(2, 1, 4)}
MCAllowChoices == {{}, {"mail.send"}, {"mail.read", "mail.delete"}}
MCAdminCaps == {"admin.accounts"}
PlainBox(use, under) == [use |-> use, name |-> "none", under |-> under, selectable |-> TRUE]
MCListings == {<<PlainBox("none", 0), PlainBox("none", 0)>>,
               <<PlainBox("none", 0), PlainBox("trash", 0)>>}
MCOverride == [trash |-> 0, spam |-> 0]
MCPackageOrder == <<"core", "fluxmail">>

accessVars     == <<entitlementVars, loginVars, permissionVars>>
accountVars    == <<hostedVars, callbackVars, storeVars>>
mailVars       == <<searchVars, changeVars, imapVars, pagingVars, requestVars, candidateVars,
                    moveVars>>
deploymentVars == <<keyVars, settingVars, logVars, releaseVars>>
partsVars      == <<part, accessVars, accountVars, mailVars, deploymentVars>>

-----------------------------------------------------------------------------
(* A component that takes no steps begins in one of its initial states.  Of two that *)
(* differ by the names of processes only, one is taken.                               *)
AReader == CHOOSE p \in Readers : TRUE
PartsInit ==
    /\ part \in Parts
    /\ EntitlementsInit
    /\ LoginInit
    /\ part # "logins" => \A l \in Logins : login[l].email = CHOOSE e \in Emails : TRUE
    /\ PermissionsInit
    /\ HostedInit
    /\ CallbackInit
    /\ part # "callback" => paste = "none"
    /\ StoreInit
    /\ part # "store" => storeEmpty
    /\ SearchInit /\ ChangesInit
    /\ ImapInit
    /\ part # "imap" => \A p \in Paths : \A uid \in DOMAIN held[p] : held[p][uid] = 1
    /\ PagingInit
    /\ part # "paging" => /\ listing = CHOOSE l \in Listings : TRUE
                          /\ \A i \in Idx : matching[i] = 1 .. TopUid
    /\ RequestsInit
    /\ part # "requests" => service = "gmail" /\ plan = CHOOSE p \in Operations("gmail") : TRUE
    /\ ProviderPagingInit
    /\ part # "candidates" => style = "gmail"
    /\ MovesInit
    /\ part # "moves" => subOf = "root" /\ \A m \in Moved : place[m] = "inbox"
    /\ DeploymentKeyInit
    /\ part # "key" => /\ keyFile = NoKey
                       /\ \A m \in Migrations : ~request[m].deployment /\ ~request[m].secrets
                                                 /\ request[m].key = NoKey
    /\ InstanceSettingsInit
    /\ fixed[AReader] = {}
    /\ part # "settings" => /\ \A s \in SettingNames : stored[s] = NoValue
                            /\ \A p \in Readers : fixed[p] = {}
    /\ LogInit /\ ReleaseInit

-----------------------------------------------------------------------------
OthersThanAccess     == UNCHANGED <<part, accountVars, mailVars, deploymentVars>>
OthersThanAccounts   == UNCHANGED <<part, accessVars, mailVars, deploymentVars>>
OthersThanMail       == UNCHANGED <<part, accessVars, accountVars, deploymentVars>>
OthersThanDeployment == UNCHANGED <<part, accessVars, accountVars, mailVars>>

EntitlementsStep ==
    part = "entitlements" /\ EntitlementsNext /\ UNCHANGED <<loginVars, permissionVars>>
LoginStep ==
    part = "logins" /\ LoginNext /\ UNCHANGED <<entitlementVars, permissionVars>>
PermissionStep ==
    part = "permissions" /\ PermissionsNext /\ UNCHANGED <<entitlementVars, loginVars>>

(* The registry by itself, with every writer of an account, and under the hosted flow, which *)
(* writes accounts through it while people remove and reassign them.                         *)
RegistryAlone ==
    /\ part = "registry" /\ RegistryNext
    /\ UNCHANGED <<link, oauthState, completed, callbackVars, storeVars>>
HostedStep ==
    /\ part = "hosted"
    /\ \/ HostedFlow
       \/ /\ \E a \in Mailboxes :
                RemoveAccount(HostProcess, a) \/ \E m \in Owners : AssignAccountOwner(a, m)
          /\ UNCHANGED <<link, oauthState, completed>>
    /\ UNCHANGED <<callbackVars, storeVars>>
CallbackStep == part = "callback" /\ CallbackNext /\ UNCHANGED <<hostedVars, storeVars>>
StoreStep    == part = "store" /\ StoreNext /\ UNCHANGED <<hostedVars, callbackVars>>

SearchStep ==
    /\ part = "search" /\ SearchNext
    /\ UNCHANGED <<changeVars, imapVars, pagingVars, requestVars, candidateVars, moveVars>>
ChangeStep ==
    /\ part = "changes" /\ ChangesNext
    /\ UNCHANGED <<searchVars, imapVars, pagingVars, requestVars, candidateVars, moveVars>>
ImapStep ==
    /\ part = "imap" /\ ImapNext
    /\ UNCHANGED <<searchVars, changeVars, pagingVars, requestVars, candidateVars, moveVars>>
PagingStep ==
    /\ part = "paging" /\ PagingNext
    /\ UNCHANGED <<searchVars, changeVars, imapVars, requestVars, candidateVars, moveVars>>
RequestStep ==
    /\ part = "requests" /\ RequestsNext
    /\ UNCHANGED <<searchVars, changeVars, imapVars, pagingVars, candidateVars, moveVars>>
CandidateStep ==
    /\ part = "candidates" /\ ProviderPagingNext
    /\ UNCHANGED <<searchVars, changeVars, imapVars, pagingVars, requestVars, moveVars>>
MoveStep ==
    /\ part = "moves" /\ MovesNext
    /\ UNCHANGED <<searchVars, changeVars, imapVars, pagingVars, requestVars, candidateVars>>

KeyStep     == part = "key" /\ DeploymentKeyNext /\ UNCHANGED <<settingVars, logVars, releaseVars>>
SettingStep == part = "settings" /\ InstanceSettingsNext /\ UNCHANGED <<keyVars, logVars, releaseVars>>
LogStep     == part = "log" /\ LogNext /\ UNCHANGED <<keyVars, settingVars, releaseVars>>
ReleaseStep == part = "release" /\ ReleaseNext /\ UNCHANGED <<keyVars, settingVars, logVars>>

PartsNext ==
    \/ /\ EntitlementsStep \/ LoginStep \/ PermissionStep
       /\ OthersThanAccess
    \/ /\ RegistryAlone \/ HostedStep \/ CallbackStep \/ StoreStep
       /\ OthersThanAccounts
    \/ /\ \/ SearchStep \/ ChangeStep \/ ImapStep \/ PagingStep \/ RequestStep
          \/ CandidateStep \/ MoveStep
       /\ OthersThanMail
    \/ /\ KeyStep \/ SettingStep \/ LogStep \/ ReleaseStep
       /\ OthersThanDeployment

PartsSpec == PartsInit /\ [][PartsNext]_partsVars

(* The state of the component that takes steps has its type. *)
PartsTypeOK ==
    /\ part \in Parts
    /\ part = "entitlements" => EntitlementsTypeOK
    /\ part = "logins" => LoginTypeOK
    /\ part = "permissions" => PermissionsTypeOK
    /\ part \in {"registry", "hosted"} => RegistryTypeOK /\ HostedTypeOK
    /\ part = "callback" => CallbackTypeOK
    /\ part = "store" => StoreTypeOK
    /\ part = "search" => SearchTypeOK
    /\ part = "changes" => ChangesTypeOK
    /\ part = "imap" => ImapTypeOK
    /\ part = "paging" => PagingTypeOK
    /\ part = "requests" => RequestsTypeOK
    /\ part = "candidates" => ProviderPagingTypeOK
    /\ part = "moves" => MovesTypeOK
    /\ part = "key" => DeploymentKeyTypeOK
    /\ part = "settings" => SettingsTypeOK
    /\ part = "log" => LogTypeOK
    /\ part = "release" => ReleaseTypeOK
=============================================================================
