SPECIFICATION FairSpec
CONSTANTS
  MaxMessages = 1
  MaxStored = 1
  MaxEdits = 1
  MaxDrops = 1
  MaxCrashes = 0
  Kinds = {"run"}
  LossyDb = FALSE
  LogsMayPanic = FALSE
CHECK_DEADLOCK FALSE
PROPERTIES
  RunnerKeepsPolling
