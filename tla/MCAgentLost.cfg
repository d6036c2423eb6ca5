SPECIFICATION Spec
CONSTANTS
  MaxMessages = 2
  MaxStored = 2
  MaxEdits = 0
  MaxDrops = 1
  MaxCrashes = 0
  Kinds = {"run"}
  LossyDb = FALSE
  LogsMayPanic = FALSE
CHECK_DEADLOCK FALSE
INVARIANTS
  RejectedWasAdded
