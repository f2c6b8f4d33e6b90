SPECIFICATION FairClientsSpec
CONSTANTS
    w1 = w1
    jita = jita
    s1 = s1
    a1 = a1
    a2 = a2
    h1 = h1
    h2 = h2
    admin1 = admin1
    admin2 = admin2
    token1 = token1
    token2 = token2
    caller1 = caller1
    caller2 = caller2
    window1 = window1
    window2 = window2
    key1 = key1
    key2 = key2
    op1 = op1
    op2 = op2
    Clients <- MCClients
    Systems <- MCSystems
    Replaces <- MCReplaces
    Legacy <- MCClients
    Qualities <- MCQualities
    SampleWindow = 2
    TruncatedLimit = 2
    MissingLimit = 2
    Lease = 3
    Grace = 1
    MaxStamp <- MCMaxStamp
    MaxEpoch <- MCMaxEpoch
    MaxRestarts = 1
    ScopeSystems <- MCScopeSystems
    Windows <- MCWindows
    Restless <- MCRestless
    CaptureLease = 3
    StartupGrace = 1
    MaxTurns = 2
    MaxBeatLosses = 1
    Accounts <- MCAccounts
    Handlers <- MCHandlers
    MaxTicks = 4
    MaxBeats = 3
    MaxChoices = 2
    MaxBeatFaults = 1
    Users <- MCUsers
    FirstUser = admin1
    Sessions <- MCSessions
    SeatRequests <- MCSeatRequests
    Callers <- MCCallers
    MaxRequests = 3
    MaxAccessFaults = 1
INVARIANTS
    ClientsTypeOK
    IndependentEvidence
    BillingIsDue
    NoticeReachesStream
PROPERTIES
    LiveWindowsStay
    RepetitionChangesNothing
    BeliefsEnd
CHECK_DEADLOCK FALSE
