SPECIFICATION FairSpec
CONSTANTS
  SampleLen = 1
  TelemetryLen = 1
  CommandLen = 1
  Commands = {work, halt}
  Shutdown = halt
  NoCommand = NoCommand
  ReturnAborts = TRUE
  MaxSeq = 2
  MaxUnacked = 0
PROPERTIES OrderlyShutdown
CHECK_DEADLOCK FALSE
