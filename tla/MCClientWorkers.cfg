CONSTANTS
    win1 = win1
    win2 = win2
    Windows <- TwoWindows
    MaxSubmits = 3
    MaxTroubles = 2
    QueryWindows <- TwoWindows
    MaxRosters = 1
    MaxMishaps = 1
    MaxVersion = 3
    ModelOf <- NewModelsInSecond
    MaxPublishes = 2
    MaxClicks = 1
    MaxUpdateFaults = 2
SPECIFICATION FairSpec
INVARIANTS
    TypeOK
    NothingForgotten
    NamesAreAnswered
    InstallIsWhole
PROPERTIES
    WorkGetsDone
\* Nobody has to change anything.
CHECK_DEADLOCK FALSE
