CONSTANTS
  t1 = t1
  t2 = t2
  Threads = {t1, t2}
  Helpers = {h1}
  Main = main
  Children = {1, 2, 3}
  Backends = {bonsai, ornith}
  Qwen = qwen
  Serves <- MCServesTurn
  MaxToolRounds = 1
  None = none
SPECIFICATION Spec
INVARIANT LedgerOfOneModel
CHECK_DEADLOCK FALSE
CONSTANT t3 = t3
