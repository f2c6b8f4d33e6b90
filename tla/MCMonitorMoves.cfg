CONSTANTS
    w1 = w1
    w2 = w2
    pc1 = pc1
    jita = jita
    amarr = amarr
    Clients <- WindowAndParent
    Systems <- TwoSystems
    Replaces <- Machines
    Legacy <- BothWindows
    Qualities <- NoQualities
    SampleWindow = 1
    TruncatedLimit = 1
    MissingLimit = 1
    Lease = 1
    Grace = 0
    MaxStamp <- ThreeThenOne
    MaxEpoch <- TwoThenOne
    MaxRestarts = 1
SPECIFICATION RestartSpec
SYMMETRY SystemSymmetry
INVARIANTS
    OnePlace
PROPERTIES
    RetirementLasts
