CONSTANTS
    Threads = {t1, t2}
    MaxWaiting = 1
    MaxTickets = 4
    DeafClients = {}
    MaxConnections = 4
    c1 = c1
    Conversations = {c1}
    NoConversation = NoConversation
    NoThread = NoThread
    NoSession = NoSession
    ModelLimit = 7
    FirstLimit = 6
    Requests <- Turns
SPECIFICATION Spec
CHECK_DEADLOCK FALSE
SYMMETRY Symmetry
INVARIANTS HandlersReturnModel TurnKeepsToLimit NoTurnLost CancelIsForThisTurn
