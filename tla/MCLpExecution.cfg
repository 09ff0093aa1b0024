CONSTANTS
  MaxTrades = 2
  MaxCrashes = 1
SPECIFICATION Spec
INVARIANTS
  ChainIsTheTruth
  BooksAgree
  PositionIsTheWallet
PROPERTY StopHolds
