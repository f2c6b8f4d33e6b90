CONSTANTS
    jita = jita
    order1 = order1
    order2 = order2
    chat1 = chat1
    chat2 = chat2
    member1 = member1
    query1 = query1
    query2 = query2
    query3 = query3
    room1 = room1
    writer1 = writer1
    writer2 = writer2
    group1 = group1
    group2 = group2
    watcher1 = watcher1
    watcher2 = watcher2
    thread1 = thread1
    thread2 = thread2
    Watchers <- TwoWatchers
    Threads <- TwoThreads
    MaxLines = 2
    Clears <- SecondClears
    MaxByHand = 1
    MaxMishaps = 1
    Systems <- OneSystem
    Writers <- TwoWriters
    Groups <- TwoGroups
    MaxSeq = 3
    MaxFaults = 1
    PageSize = 1
    MaxBreaks = 1
    Orders <- TwoOrders
    Chats <- TwoChats
    Members <- OneMember
    MaxNames = 2
    MaxActive = 1
    WorkerJobs = 1
    MaxHits = 1
    Queries <- ThreeQueries
    Rooms <- OneRoom
    MaxStops = 1
    MaxFlights = 3
    MaxCommands = 3
    MaxUpsets = 2
SPECIFICATION FairSpec
INVARIANTS
    TypeOK
    InSync
    GroupsTakeTurns
    ReportsAreKept
    StreamSkipsNothing
PROPERTIES
    JournalOnlyGrows
    NoOutdatedNews
    DisplayIsTrue
    ConsumerCatchesUp
CHECK_DEADLOCK FALSE
