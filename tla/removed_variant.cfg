SPECIFICATION Spec
CONSTANTS
  Absent = Absent
  Blank = Blank
  Refused = Refused
  Client = {c1}
  Reviews <- SomeReviews
  Updates <- SomeUpdates
  TakenSkus <- Taken
  EditsOf <- SomeEdits
  ClassOf <- Class
  MaxOptions = 3
  MaxVariants = 4
  MaxQuantity = 5
PROPERTY
  OmittedVariantsStayOut
CHECK_DEADLOCK FALSE
