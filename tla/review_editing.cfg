SPECIFICATION Spec
CONSTANTS
  Absent = Absent
  Blank = Blank
  Refused = Refused
  Client = {c1}
  Reviews <- SomeReviews
  Updates <- SomeUpdates
  TakenSkus <- Taken
  EditsOf <- SomeEdits
  ClassOf <- Class
  MaxOptions = 3
  MaxVariants = 4
  MaxQuantity = 5
INVARIANTS
  LiveVariantsKept
  CombinationsUnique
  ValuesStayWithTheirVariant
  InventoryFollowsReview
  HistoryIsAPath
  UndoRestoresDraft
PROPERTIES
  SelectionSurvivesRebuild
  LeftOutStaysOut
  ApplyReachesDraft
  ApplyLeavesNoBlockers
CHECK_DEADLOCK FALSE
