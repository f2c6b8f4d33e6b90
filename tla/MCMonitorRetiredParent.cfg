CONSTANTS
    w1 = w1
    w2 = w2
    pc1 = pc1
    jita = jita
    amarr = amarr
    Clients <- TwoWindowsAndParent
    Systems <- OneSystem
    Replaces <- Machines
    Legacy <- NoWindow
    Qualities <- CompleteOrTruncated
    SampleWindow = 1
    TruncatedLimit = 1
    MissingLimit = 1
    Lease = 1
    Grace = 1
    MaxStamp <- One
    MaxEpoch <- One
    MaxRestarts = 0
SPECIFICATION TickSpec
PROPERTIES
    OnlyProvenTakeovers
