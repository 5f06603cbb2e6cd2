SPECIFICATION Spec
CONSTANTS
  NoJob = NoJob
  Job = {j1}
  Worker = {w1, w2}
  Operator = {o1, o2}
  FileOf <- SameFile
  MaxAttempts = 2
  MaxControls = 2
  MaxFaults = 2
  Faults = {"crash", "claim", "transition", "cancel", "persist", "cleanup", "read", "write"}
SYMMETRY ProcessSymmetry
INVARIANTS
  TypeOK
  ExclusiveUnlessLapsed
  RetryIsClaimable
  SucceededKeepsProducts
  NoWorkOnReleasedCredit
PROPERTIES
  TerminalJobSticky
CHECK_DEADLOCK FALSE
