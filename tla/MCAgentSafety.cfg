SPECIFICATION Spec
CONSTANTS
  MaxMessages = 2
  MaxStored = 2
  MaxEdits = 1
  MaxDrops = 1
  MaxCrashes = 1
  Kinds = {"run", "skip"}
  LossyDb = FALSE
  LogsMayPanic = FALSE
CHECK_DEADLOCK FALSE
INVARIANTS
  OnlyUpdateBlocks
PROPERTIES
  OutcomeIsKept
  RunLifeImplemented
