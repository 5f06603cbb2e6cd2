SPECIFICATION Spec
CONSTANTS
  starter = starter
  growth = growth
  Operation = {o1, o2}
  Request = {r1}
  Plan = {starter, growth}
  Included <- PlanCredits
  Limits = {0, 1}
  MaxAmount = 2
  CycleLength = 1
  MaxTime = 1
  MaxChanges = 4
SYMMETRY OperationSymmetry
PROPERTIES
  HardLimit
CHECK_DEADLOCK FALSE
