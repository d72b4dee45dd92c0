SPECIFICATION FairSpec
CONSTANTS
  SampleLen = 1
  TelemetryLen = 1
  CommandLen = 1
  Commands = {work, halt}
  Shutdown = halt
  NoCommand = NoCommand
  ReturnAborts = FALSE
  MaxSeq = 2
  MaxUnacked = 2
INVARIANTS PipelineOrder Accounted NoCommandUnheard SamplingStops
PROPERTIES ImplementsStream OrderlyShutdown SamplesMove
CHECK_DEADLOCK FALSE
