CONSTANTS
  MaxTrades = 2
  MaxCrashes = 2
SPECIFICATION Spec
INVARIANTS
  MarksAreLegal
  SpentUnderAVerdict
  BooksAgree
  NoStrandedRow
PROPERTIES
  StopHolds
  ImplementsLifecycle
CHECK_DEADLOCK TRUE
