CONSTANTS
  Procs = {gateway}
  Gateway = gateway
  Curls = {1}
  LastFile = 2
  Size <- MCSize
  PipeRoom = 1
  MaxExtra = 1
  MaxDownloads = 2
  None = none
SPECIFICATION NetworkSpec
PROPERTIES DownloadEnds
CHECK_DEADLOCK FALSE
