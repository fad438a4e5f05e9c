\* A retry arrives between the FAILED mark of a timeout and its freeze.
SPECIFICATION Spec
CONSTANTS
  Callers = {c1, c2}
  Reconcilers = {}
  PriceOf <- OnePrice
  StaleAfter = 2
  Lag = 1
  Grace = 3
  Faults = {"timeout"}
  MaxSubmits = 3
  LastSubmit = 3
  MaxNow = 5
PROPERTY RetryRefusedWhileUnknown
CHECK_DEADLOCK FALSE
