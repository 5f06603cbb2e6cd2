SPECIFICATION FairSpec
CONSTANTS
  NoJob = NoJob
  Job = {j1}
  Worker = {w1}
  Operator = {o1}
  FileOf <- SameFile
  MaxAttempts = 2
  MaxControls = 0
  MaxFaults = 1
  Faults = {"crash"}
PROPERTIES
  EveryImportSettlesAnyhow
CHECK_DEADLOCK FALSE
