SPECIFICATION FairSpec
CONSTANTS
  NoJob = NoJob
  Job = {j1}
  Worker = {w1, w2}
  Operator = {o1}
  FileOf <- SameFile
  MaxAttempts = 2
  MaxControls = 2
  MaxFaults = 1
  Faults = {"crash", "transition", "write"}
PROPERTIES
  EveryImportSettles
  DraftFollowsJob
CHECK_DEADLOCK FALSE
