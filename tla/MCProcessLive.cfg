SPECIFICATION FairSpec
CONSTANTS
  MaxTask = 1
  MaxAttempts = 2
  InfluxActive = TRUE
  MaxCrashes = 2
  UserDevices <- SomeDevices
PROPERTIES
  RunNearsEnd
  ComesUp
  EverythingSettles
