CONSTANTS
  Procs = {gateway, cli}
  Gateway = gateway
  Curls = {1, 2, 3}
  LastFile = 2
  Size <- MCSize
  PipeRoom = 3
  MaxExtra = 1
  MaxDownloads = 3
  None = none
SPECIFICATION Spec
INVARIANTS CompleteUntilMet
PROPERTIES VerifiedUntilMet CancelEnds
CHECK_DEADLOCK FALSE
