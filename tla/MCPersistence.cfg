CONSTANTS
    u1 = u1
    u2 = u2
    e1 = e1
    maint = maint
    jita = jita
    amarr = amarr
    Systems <- OneSystem
    Uploaders <- OneUploader
    Enrichers <- OneEnricher
    Maintenance = maint
    MaxCount = 2
    MaxMutations = 3
    MaxFailures = 2
    MaxCrashes = 1
SPECIFICATION FairSpec
INVARIANTS
    TypeOK
    StorageMatchesMemory
PROPERTIES
    ObeysQueue
    NeverGoesBack
    EventuallySettles
