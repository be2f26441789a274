CONSTANTS
  Process = {1, 2, 3, 4, 5, 6, 7, 8, 9, 10, 11, 12, 13}
  Key <- Semaphores
  Device = {"terminal"}
  first = 1
  Scenario <- Scenarios
SPECIFICATION TestFairSpec
INVARIANTS
  TestTypeOK
  NoError
  LockConserved
  KillsIntended
PROPERTY
  Finishes
