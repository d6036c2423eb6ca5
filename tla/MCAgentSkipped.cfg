SPECIFICATION Spec
CONSTANTS
  MaxMessages = 1
  MaxStored = 1
  MaxEdits = 1
  MaxDrops = 0
  MaxCrashes = 1
  Kinds = {"run", "skip"}
  LossyDb = FALSE
  LogsMayPanic = FALSE
CHECK_DEADLOCK FALSE
PROPERTIES
  SkipIsFinal
