CONSTANTS
    Threads = {t1, t2, t3, t4}
    MaxWaiting = 2
    MaxTickets = 5
SPECIFICATION SchedFairSpec
PROPERTIES ImplementsFifo QueuedIsAnswered
INVARIANTS TicketsAreTheQueue NoLostWakeup
