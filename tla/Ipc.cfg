CONSTANTS
  short = short
  long = long
  Client = {short, long}
  NoClient = NoClient
  LineLength <- MCLineLength
  Commands <- MCCommands
  Cap = 3
  Timeout = 2
SPECIFICATION FairSpec
INVARIANTS SuccessMeansRun HoldBounded
PROPERTIES LoopResumes
CHECK_DEADLOCK FALSE
