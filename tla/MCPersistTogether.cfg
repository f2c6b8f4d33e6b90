CONSTANTS
    u1 = u1
    u2 = u2
    e1 = e1
    maint = maint
    jita = jita
    amarr = amarr
    Systems <- TwoSystems
    Uploaders <- TwoUploaders
    Enrichers <- NoEnricher
    Maintenance = maint
    MaxCount = 1
    MaxMutations = 2
    MaxFailures = 1
    MaxCrashes = 0
SPECIFICATION Spec
INVARIANTS
    CommittedTogether
