SPECIFICATION Spec
CONSTANTS
  MaxMessages = 2
  MaxStored = 1
  MaxEdits = 1
  MaxDrops = 0
  MaxCrashes = 1
  Kinds <- ConvertedKinds
  LossyDb = TRUE
  LogsMayPanic = TRUE
CHECK_DEADLOCK FALSE
INVARIANTS
  Inductive
  OnlyRestartsRepeat
  ConfirmedSucceeded
  RunIsUndisturbed
  TakenInOrder
  
PROPERTIES
  QueueImplemented
  NeverReadmitted
