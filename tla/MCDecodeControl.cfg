CONSTANTS
    a = a
    b = b
    Words = {a, b}
    Close = Close
    End = End
    Transition <- EarlyStop
    Budgets = {0, 1, 2}
    Limits = {2, 6}
    Repeats = 3
    MaxPeriod = 2
    Machines <- SomeMachines
    SampleEvery = 2
    GreensToRise = 2
SPECIFICATION Spec
INVARIANTS BudgetHolds StopsAtFirstLoop SinkAgrees
PROPERTIES ThreadsFollowHeat
