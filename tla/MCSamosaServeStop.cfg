CONSTANTS
    Threads = {t1, t2, t3}
    MaxWaiting = 1
    MaxTickets = 3
    DeafClients = {t1, t2}
    MaxConnections = 3
    c1 = c1
    Conversations = {c1}
    NoConversation = NoConversation
    NoThread = NoThread
    NoSession = NoSession
    ModelLimit = 7
    FirstLimit = 6
    Requests <- Stops
SPECIFICATION FairSpec
CHECK_DEADLOCK FALSE
PROPERTIES StopLeadsToExit
INVARIANTS CleanExitIsDrained
