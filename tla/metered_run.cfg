SPECIFICATION Spec
CONSTANTS
  Attempts = 2
  Evidence = 3
  Reserved = 2
  Page = 2
  Cases <- SomeCases
INVARIANTS
  TypeOK
  CallsCounted
  ChargeIsEarned
  LossesExplained
  ClientMissesNothing
CHECK_DEADLOCK FALSE
