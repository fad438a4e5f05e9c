\* Everything that may go wrong does, late writers included, while one of
\* three callers sends another payload.
SPECIFICATION Spec
CONSTANTS
  Callers = {c1, c2, c3}
  Reconcilers = {r1}
  PriceOf <- TwoPrices
  StaleAfter = 1
  Lag = 0
  Grace = 1
  Faults = {"crash", "stall", "refuse", "timeout", "garbled", "mute", "slow", "db", "lost", "posting", "audit"}
  MaxSubmits = 3
  LastSubmit = 2
  MaxNow = 2
INVARIANTS
  CompletedHasSale
  SaleIsBacked
  NoSuspenseOnceSold
  OnlyTheFirstPayload
SYMMETRY SymmetricButOdd
CHECK_DEADLOCK FALSE
