CONSTANTS
    u1 = u1
    u2 = u2
    e1 = e1
    maint = maint
    jita = jita
    amarr = amarr
    Systems <- OneSystem
    Uploaders <- OneUploader
    Enrichers <- NoEnricher
    Maintenance = maint
    MaxCount = 1
    MaxMutations = 3
    MaxFailures = 2
    MaxCrashes = 0
SPECIFICATION Spec
INVARIANTS
    LossIsNotSafety
