SPECIFICATION FairWorkSpec
CONSTANTS
    t1 = t1
    t2 = t2
    t3 = t3
    k1 = k1
    g1 = g1
    g2 = g2
    Threads <- MCThreads
    MaxTickets = 6
    MaxTransfers = 2
    MaxRefreshFaults = 2
    Rows <- MCRows
    MaxUpdates = 1
    MaxUploads = 1
    MaxSwitches = 2
    MaxTaskFaults = 2
    Gateways <- MCGateways
    Ttl = 1
    StaleGrace = 1
    MaxTime = 2
    MaxReads = 3
    MaxCacheFaults = 2
INVARIANTS
    WorkTypeOK
    OneWriter
    TasksAreServed
    OneRefresh
    OutageIsBridged
PROPERTIES
    ImplementsFifo
    ProfilesAreCommitted
    NothingLate
    WorkSettles
CHECK_DEADLOCK FALSE
