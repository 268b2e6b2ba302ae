CONSTANTS
  t1 = t1
  t2 = t2
  t3 = t3
  Threads = {t1, t2, t3}
  Helpers = {h1}
  Main = main
  Children = {1, 2, 3}
  Backends = {qwen, bonsai}
  Qwen = qwen
  Serves <- MCServes
  MaxToolRounds = 1
  None = none
SPECIFICATION Spec
INVARIANTS ChildrenAccounted FlagHasItsTurn OneOperationOneModel
PROPERTIES CancelledServerEnds
CHECK_DEADLOCK FALSE
