SPECIFICATION Spec
CONSTANTS
  Keys <- Sorted
  MaxKills = 3
INVARIANTS
  MoneyAddsUp
  LeftInFlightByItsRetry
