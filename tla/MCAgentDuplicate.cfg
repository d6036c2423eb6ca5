SPECIFICATION Spec
CONSTANTS
  MaxMessages = 1
  MaxStored = 1
  MaxEdits = 0
  MaxDrops = 0
  MaxCrashes = 1
  Kinds = {"run"}
  LossyDb = FALSE
  LogsMayPanic = FALSE
CHECK_DEADLOCK FALSE
INVARIANTS
  ConfirmedNotRerun
