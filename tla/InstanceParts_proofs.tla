------------------------ MODULE InstanceParts_proofs ------------------------
(***************************************************************************)
(* What is proved of each component, of the specification that composes    *)
(* them: every behaviour of the instance's parts is one of each part, be   *)
(* it the part that takes steps or one that rests, and so has all that is  *)
(* proved of it.  MCInstanceParts is checked on small sets; these theorems *)
(* state the same properties of the same specification for any sets.       *)
(***************************************************************************)
EXTENDS MCInstanceParts, Access_proofs, Deployment_proofs

----------------------------------------------------------------------------
(* A step of the parts is one of each component, or leaves it alone.       *)

AccessSteps ==
    [EntitlementsNext]_entitlementVars /\ [LoginNext]_loginVars /\ [PermissionsNext]_permissionVars

AccountSteps == [HostedNext]_hostedVars /\ [CallbackNext]_callbackVars /\ [StoreNext]_storeVars

MailSteps ==
    /\ [SearchNext]_searchVars /\ [ChangesNext]_changeVars /\ [ImapNext]_imapVars /\ [PagingNext]_pagingVars
    /\ [RequestsNext]_requestVars /\ [ProviderPagingNext]_candidateVars /\ [MovesNext]_moveVars

DeploymentSteps ==
    /\ [DeploymentKeyNext]_keyVars /\ [InstanceSettingsNext]_settingVars
    /\ [LogNext]_logVars /\ [ReleaseNext]_releaseVars

LEMMA AccessStep == [PartsNext]_partsVars => AccessSteps
<1>1. ASSUME UNCHANGED accessVars PROVE AccessSteps
  BY <1>1 DEF accessVars, AccessSteps
<1>2. ASSUME EntitlementsStep \/ LoginStep \/ PermissionStep PROVE AccessSteps
  BY <1>2 DEF EntitlementsStep, LoginStep, PermissionStep, AccessSteps
<1>3. ASSUME [PartsNext]_partsVars
      PROVE  UNCHANGED accessVars \/ EntitlementsStep \/ LoginStep \/ PermissionStep
  BY <1>3 DEF PartsNext, partsVars, OthersThanAccounts, OthersThanMail, OthersThanDeployment
<1> QED BY <1>1, <1>2, <1>3

\* The registry by itself, and under the hosted flow, takes steps of the hosted specification.
LEMMA AccountStep == [PartsNext]_partsVars => AccountSteps
<1>1. ASSUME UNCHANGED accountVars PROVE AccountSteps
  BY <1>1 DEF accountVars, AccountSteps
<1>2. ASSUME RegistryAlone PROVE AccountSteps
  BY <1>2 DEF RegistryAlone, HostedNext, AccountSteps
<1>3. ASSUME HostedStep PROVE AccountSteps
  <2>1. HostedFlow \/ (RegistryNext /\ UNCHANGED <<link, oauthState, completed>>)
    BY <1>3, HostedConstants DEF HostedStep, RegistryNext, RegistryStep
  <2> QED BY <1>3, <2>1 DEF HostedStep, HostedNext, AccountSteps
<1>4. ASSUME CallbackStep \/ StoreStep PROVE AccountSteps
  BY <1>4 DEF CallbackStep, StoreStep, AccountSteps
<1>5. ASSUME [PartsNext]_partsVars
      PROVE  UNCHANGED accountVars \/ RegistryAlone \/ HostedStep \/ CallbackStep \/ StoreStep
  BY <1>5 DEF PartsNext, partsVars, OthersThanAccess, OthersThanMail, OthersThanDeployment
<1> QED BY <1>1, <1>2, <1>3, <1>4, <1>5

LEMMA MailStep == [PartsNext]_partsVars => MailSteps
<1>1. ASSUME UNCHANGED mailVars PROVE MailSteps
  BY <1>1 DEF mailVars, MailSteps
<1>2. ASSUME SearchStep \/ ChangeStep \/ ImapStep \/ PagingStep PROVE MailSteps
  BY <1>2 DEF SearchStep, ChangeStep, ImapStep, PagingStep, MailSteps
<1>3. ASSUME RequestStep \/ CandidateStep \/ MoveStep PROVE MailSteps
  BY <1>3 DEF RequestStep, CandidateStep, MoveStep, MailSteps
<1>4. ASSUME [PartsNext]_partsVars
      PROVE  \/ UNCHANGED mailVars \/ SearchStep \/ ChangeStep \/ ImapStep \/ PagingStep
             \/ RequestStep \/ CandidateStep \/ MoveStep
  BY <1>4 DEF PartsNext, partsVars, OthersThanAccess, OthersThanAccounts, OthersThanDeployment
<1> QED BY <1>1, <1>2, <1>3, <1>4

LEMMA DeploymentStep == [PartsNext]_partsVars => DeploymentSteps
<1>1. ASSUME UNCHANGED deploymentVars PROVE DeploymentSteps
  BY <1>1 DEF deploymentVars, DeploymentSteps
<1>2. ASSUME KeyStep \/ SettingStep \/ LogStep \/ ReleaseStep PROVE DeploymentSteps
  BY <1>2 DEF KeyStep, SettingStep, LogStep, ReleaseStep, DeploymentSteps
<1>3. ASSUME [PartsNext]_partsVars
      PROVE  UNCHANGED deploymentVars \/ KeyStep \/ SettingStep \/ LogStep \/ ReleaseStep
  BY <1>3 DEF PartsNext, partsVars, OthersThanAccess, OthersThanAccounts, OthersThanMail
<1> QED BY <1>1, <1>2, <1>3

----------------------------------------------------------------------------
(* So the composition implements the specification of every component.     *)

\* Entitlements, logins and permissions are in the instance what they are alone.
THEOREM AccessComposed == PartsSpec => EntitlementsSpec /\ LoginSpec /\ PermissionsSpec
<1>1. PartsInit => EntitlementsInit /\ LoginInit /\ PermissionsInit
  BY DEF PartsInit
<1>2. [PartsNext]_partsVars =>
        [EntitlementsNext]_entitlementVars /\ [LoginNext]_loginVars /\ [PermissionsNext]_permissionVars
  BY AccessStep DEF AccessSteps
<1> QED BY <1>1, <1>2, PTL DEF PartsSpec, EntitlementsSpec, LoginSpec, PermissionsSpec

\* So are hosted connections, with the registry under them, the callback, and the store with its lock.
THEOREM AccountsComposed == PartsSpec => HostedSpec /\ RegistrySpec /\ CallbackSpec /\ StoreSpec /\ LockSpec
<1>1. PartsInit => HostedInit /\ CallbackInit /\ StoreInit
  BY DEF PartsInit
<1>2. [PartsNext]_partsVars => [HostedNext]_hostedVars /\ [CallbackNext]_callbackVars /\ [StoreNext]_storeVars
  BY AccountStep DEF AccountSteps
<1>3. PartsSpec => HostedSpec /\ CallbackSpec /\ StoreSpec
  BY <1>1, <1>2, PTL DEF PartsSpec, HostedSpec, CallbackSpec, StoreSpec
<1> QED BY <1>3, HostedRefinesRegistry, StoreOpenersLock, PTL

\* So are the reads and changes of mailboxes, and the requests they are made of.
THEOREM MailComposed ==
    PartsSpec => /\ SearchSpec /\ ChangesSpec /\ ImapSpec /\ PagingSpec
                 /\ RequestsSpec /\ ProviderPagingSpec /\ MovesSpec
<1>1. PartsInit => /\ SearchInit /\ ChangesInit /\ ImapInit /\ PagingInit
                   /\ RequestsInit /\ ProviderPagingInit /\ MovesInit
  BY DEF PartsInit
<1>2. [PartsNext]_partsVars =>
        /\ [SearchNext]_searchVars /\ [ChangesNext]_changeVars /\ [ImapNext]_imapVars /\ [PagingNext]_pagingVars
        /\ [RequestsNext]_requestVars /\ [ProviderPagingNext]_candidateVars /\ [MovesNext]_moveVars
  BY MailStep DEF MailSteps
<1> QED BY <1>1, <1>2, PTL
       DEF PartsSpec, SearchSpec, ChangesSpec, ImapSpec, PagingSpec, RequestsSpec, ProviderPagingSpec, MovesSpec

\* So are the key, the settings, the log and the publishing of releases.
THEOREM DeploymentComposed == PartsSpec => DeploymentKeySpec /\ InstanceSettingsSpec /\ LogSpec /\ ReleaseSpec
<1>1. PartsInit => DeploymentKeyInit /\ InstanceSettingsInit /\ LogInit /\ ReleaseInit
  BY DEF PartsInit
<1>2. [PartsNext]_partsVars =>
        /\ [DeploymentKeyNext]_keyVars /\ [InstanceSettingsNext]_settingVars
        /\ [LogNext]_logVars /\ [ReleaseNext]_releaseVars
  BY DeploymentStep DEF DeploymentSteps
<1> QED BY <1>1, <1>2, PTL DEF PartsSpec, DeploymentKeySpec, InstanceSettingsSpec, LogSpec, ReleaseSpec

----------------------------------------------------------------------------
(* What is proved of the components holds of the instance.                 *)

\* The state of every component has its type, whichever takes steps.
THEOREM PartsAreTyped == PartsSpec => []PartsTypeOK
<1> DEFINE KnownPart == part \in Parts
<1>1. PartsInit => KnownPart
  BY DEF PartsInit
<1>2. KnownPart /\ [PartsNext]_partsVars => KnownPart'
  BY DEF PartsNext, partsVars, OthersThanAccess, OthersThanAccounts, OthersThanMail, OthersThanDeployment
<1>k. KnownPart <=> part \in Parts
  OBVIOUS
<1> HIDE DEF KnownPart
<1>3. PartsSpec => []KnownPart
  BY <1>1, <1>2, PTL DEF PartsSpec
<1>4. PartsSpec => [](EntitlementsTypeOK /\ LoginTypeOK /\ PermissionsTypeOK)
  BY AccessComposed, EntitlementsAreTyped, LoginsAreTyped, PermissionsAreTyped, PTL
<1>5. PartsSpec => [](RegistryTypeOK /\ HostedTypeOK /\ CallbackTypeOK /\ StoreTypeOK)
  BY AccountsComposed, AccountsAreTyped, ConnectionsAreTyped, CallbacksAreTyped, StoresAreTyped, PTL
<1>6. PartsSpec => [](SearchTypeOK /\ ChangesTypeOK /\ ImapTypeOK /\ PagingTypeOK)
  BY MailComposed, SearchesAreTyped, ChangesAreTyped, IdsAreTyped, PagesAreTyped, PTL
<1>7. PartsSpec => [](RequestsTypeOK /\ ProviderPagingTypeOK /\ MovesTypeOK)
  BY MailComposed, RequestsAreTyped, CandidatesAreTyped, MovesAreTyped, PTL
<1>8. PartsSpec => [](DeploymentKeyTypeOK /\ SettingsTypeOK /\ LogTypeOK /\ ReleaseTypeOK)
  BY DeploymentComposed, KeysAreTyped, SettingsAreTyped, LogsAreTyped, ReleasesAreTyped, PTL
<1>9. /\ KnownPart
      /\ EntitlementsTypeOK /\ LoginTypeOK /\ PermissionsTypeOK
      /\ RegistryTypeOK /\ HostedTypeOK /\ CallbackTypeOK /\ StoreTypeOK
      /\ SearchTypeOK /\ ChangesTypeOK /\ ImapTypeOK /\ PagingTypeOK
      /\ RequestsTypeOK /\ ProviderPagingTypeOK /\ MovesTypeOK
      /\ DeploymentKeyTypeOK /\ SettingsTypeOK /\ LogTypeOK /\ ReleaseTypeOK
      => PartsTypeOK
  BY <1>k DEF PartsTypeOK
<1> QED BY <1>3, <1>4, <1>5, <1>6, <1>7, <1>8, <1>9, PTL

\* An instance counts its members and the attempts of logins; its interfaces agree and its
\* refusals say what to do.
THEOREM AccessIsKept ==
    PartsSpec => /\ [](CapClockRuns /\ AttemptsCounted /\ InterfacesAgree)
                 /\ InstructionsSuffice
BY AccessComposed, CapClockAlwaysRuns, AttemptsAlwaysCounted,
   InterfacesAlwaysAgree, InstructionsAlwaysSuffice, PTL

\* It connects a mailbox once with each link and by the first code, and the last sign-in wins.
\* Where no machine sleeps with the lock, one process has it, and backs up before it migrates.
THEOREM AccountsAreKept ==
    ASSUME Sleepers = {}
    PROVE  PartsSpec => /\ [](ReconnectionWins /\ LinksConnectOnce /\ FirstCodeWins /\ OneHolder)
                        /\ BackedUpFirst /\ FilesAreALock
BY AccountsComposed, ReconnectionAlwaysWins, LinksWorkOnce, FirstCodeAlwaysWins, LockExcludes, MigrationsAreBackedUp,
   FilesKeepLockPromise, PTL

\* It answers of mail what is so: of every mailbox searched, message changed, page and send.
THEOREM MailIsTold ==
    PartsSpec => /\ [](BatchAnswersItself /\ ModifyTellsTheTruth /\ IdsKeepTheirMessage /\ PagesMissNothing)
                 /\ [](SendsOnceOrSaysSo /\ CandidatesSeenOnce /\ LeavesTrashByUntrash)
BY MailComposed, BatchAlwaysAnswersItself, ModifyAlwaysTellsTheTruth, IdsAlwaysKeepTheirMessage, PagesNeverMiss,
   AlwaysSendsOnceOrSaysSo, CandidatesAlwaysSeenOnce, TrashIsLeftByUntrash, PTL

\* It keeps the key of its data and the settings it was given, accounts for what it logs, and is
\* installed from releases that can be resumed and channels that only advance.
THEOREM DeploymentIsKept ==
    PartsSpec => /\ [](KeyStaysWithData /\ AccountsKeepTheirApp /\ LogAccountsForRecords /\ AlwaysResumable)
                 /\ SettingsTakeEffect /\ ChannelsOnlyAdvance /\ KeyLocksAreLocks
BY DeploymentComposed, KeyHoldsData, OldAccountsKeepTheirApp, LogAlwaysAccounts, AttemptsAlwaysResumable, CopiesFollow,
   ChannelsNeverGoBack, KeyLocksKeepPromise, PTL
=============================================================================
