CONSTANTS
  Procs = {gateway, cli}
  Gateway = gateway
  Curls = {1, 2, 3}
  LastFile = 2
  Size <- MCSize
  PipeRoom = 3
  MaxExtra = 1
  MaxDownloads = 3
  None = none
SPECIFICATION Spec
PROPERTIES InstalledIsVerified
CHECK_DEADLOCK FALSE
