CONSTANTS
    w1 = w1
    w2 = w2
    pc1 = pc1
    jita = jita
    amarr = amarr
    Clients <- OneWindow
    Systems <- OneSystem
    Replaces <- NoMachines
    Legacy <- NoWindow
    Qualities <- OnlyComplete
    SampleWindow = 1
    TruncatedLimit = 1
    MissingLimit = 3
    Lease = 1
    Grace = 1
    MaxStamp <- Three
    MaxEpoch <- One
    MaxRestarts = 0
SPECIFICATION TickSpec
INVARIANTS
    LaggingOcrAccepted
