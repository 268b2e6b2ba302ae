CONSTANTS
    Threads = {t1, t2}
    MaxWaiting = 1
    MaxTickets = 2
    DeafClients = {}
    MaxConnections = 2
    c1 = c1
    Conversations = {c1}
    NoConversation = NoConversation
    NoThread = NoThread
    NoSession = NoSession
    ModelLimit = 7
    FirstLimit = 6
    Requests <- Images
SPECIFICATION Spec
CHECK_DEADLOCK FALSE
INVARIANTS PromptSeesOwnImage
