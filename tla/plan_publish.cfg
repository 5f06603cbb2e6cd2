SPECIFICATION FairSpec
CONSTANTS
  Absent = Absent
  Products = 2
  Plans = 2
  Budgets <- SomeBudgets
INVARIANTS
  TypeOK
  EndShows
  DraftTellsOutcome
PROPERTIES
  KeepsThePromise
  NoSaleUndone
  SubmitSettles
CHECK_DEADLOCK FALSE
