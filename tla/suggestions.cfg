SPECIFICATION Spec
CONSTANTS
  Request = {r1, r2}
  Rows = 8
  Audits = 1
  Absent = Absent
  Nobody = Nobody
  Shops <- SomeShops
  Proposals <- SomeProposals
  Edited <- SomeEdited
  Budgets <- SomeBudgets
INVARIANTS
  TypeOK
  NoFixLost
  NoFixDoubled
PROPERTIES
  AuditReplaces
  RevertRestores
SYMMETRY Symmetry
CHECK_DEADLOCK FALSE
