SPECIFICATION PartsSpec
CHECK_DEADLOCK FALSE
CONSTANTS
    \* access
    Leases <- MCLeases  NoLease = NoLease   Never = Never
    PersonalMembers = 1 PersonalAccounts = 1
    GracePeriod = 1     CapReductionGrace = 2   LastDay = 6
    Emails = {e1, e2}   Address = Address   Logins = {l1, l2, l3}   NoAttemptRow = NoAttemptRow
    EmailLimit = 2      AddressLimit = 2    Window = 2   LastMinute = 4
    AllowChoices <- MCAllowChoices   AdminCaps <- MCAdminCaps
    NoConnection = NoConnection      NoRefusal = NoRefusal
    \* accounts and the store
    Mailboxes = {m1}    Addresses = {x}   Owners = {o1}   OAuthClients = {oc1, oc2}
    Processes = {sv, cl}   Providers = {h1, h2}   MaxTokens = 4   Nothing = Nothing
    Links = {k1, k2}    OAuthStates = {s1, s2}    HostProcess = sv
    MaxCallbacks = 3
    Lockers = {e1, e2, e3}   SameHost = {e1, e2}   Sleepers = {}   Unowned = Unowned
    OldEngines = {e2}   NewestFormat = 2
    \* mail
    Boxes = {1, 2}      Queries = {q}   SearchWorkers = {w1, w2}   LastPage = 2   LastHour = 1
    NoToken = NoToken
    ChangeCalls = {c1}  Messages = {1, 2}   ChangeWorkers = 2
    Paths = {"drafts", "sent"}   DraftsPath = "drafts"   SentPath = "sent"   ImapCalls = {c1}
    Renumbered = {"drafts"}   LastUid = 2   LastValidity = 2   LastCopy = 2   NoRow = NoRow
    Listings <- MCListings   Override <- MCOverride   TopUid = 2   PageLimit = 1   ScanLimit = 2
    FolderLimit = 1     PageTurns = 4   NoCursor = NoCursor
    MaxRetries = 1
    Candidates = {1, 2, 3, 4, 5}   Wanted = {1, 3, 4}   BatchSize = 2   ResultLimit = 1
    InspectLimit = 3    Turns = 4   NoPageToken = NoPageToken
    Moved = {m1, m2}    NoMove = NoMove
    \* deployment
    Starters = {s1, s2}   Migrations = {g1}   KeySupply = {s1, s2, g1, ik}   Imported = ik
    NoKey = NoKey
    Readers = {r1, r2}  Importers = {g1}   Values = {v1}   NoValue = NoValue   MaxWrites = 1
    LogRecords = 3      DuplicateLimit = 1   RateBurst = 2   QueueLimit = 2   BatchLimit = 1
    SegmentLimit = 1    SegmentCount = 2     ForeignWrites = 1
    ReleaseVersions = 2 TouchedByHand = {1}   PackageOrder <- MCPackageOrder   NoVersion = 0
INVARIANTS
    PartsTypeOK
    CapClockRuns AttemptsCounted
    ReconnectionWins LinksConnectOnce FirstCodeWins
    OneHolder InterfacesAgree BatchAnswersItself ModifyTellsTheTruth IdsKeepTheirMessage
    PagesMissNothing SendsOnceOrSaysSo CandidatesSeenOnce LeavesTrashByUntrash KeyStaysWithData
    AccountsKeepTheirApp LogAccountsForRecords AlwaysResumable
PROPERTIES
    BackedUpFirst InstructionsSuffice SettingsTakeEffect ChannelsOnlyAdvance
