CONSTANTS
    w1 = w1
    w2 = w2
    pc1 = pc1
    jita = jita
    amarr = amarr
    Clients <- TwoWindows
    Systems <- OneSystem
    Replaces <- NoMachines
    Legacy <- NoWindow
    Qualities <- CompleteOrTruncated
    SampleWindow = 2
    TruncatedLimit = 2
    MissingLimit = 2
    Lease = 1
    Grace = 0
    MaxStamp <- Two
    MaxEpoch <- One
    MaxRestarts = 0
SPECIFICATION TickSpec
SYMMETRY TwoWindowSymmetry
INVARIANTS
    TypeOK
    DistinctOrders
PROPERTIES
    TakeoversAreDue
