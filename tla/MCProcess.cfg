SPECIFICATION Spec
CONSTANTS
  MaxTask = 2
  MaxAttempts = 1
  InfluxActive = FALSE
  MaxCrashes = 2
  UserDevices <- SomeDevices
INVARIANTS
  KeyBeforeTasks
  SettledStaysSettled
  Inductive
PROPERTIES
  NothingPassedOver
  ToldOutcome
  
  OutcomeIsOwn
  RunLifeImplemented
