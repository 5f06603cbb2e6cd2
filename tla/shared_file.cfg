SPECIFICATION FairSpec
CONSTANTS
  NoJob = NoJob
  Job = {j1, j2}
  Worker = {w1}
  Operator = {o1}
  FileOf <- SameFile
  MaxAttempts = 2
  MaxControls = 1
  MaxFaults = 1
  Faults = {"crash", "persist", "write"}
PROPERTIES
  ReusedImportIsServed
CHECK_DEADLOCK FALSE
