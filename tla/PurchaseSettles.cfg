\* One caller retries through timeouts; the provider often does not answer
\* the reconciler. LastSubmit leaves the clock room for the grace period.
SPECIFICATION FairSpec
CONSTANTS
  Callers = {c1}
  Reconcilers = {r1}
  PriceOf <- OnePrice
  StaleAfter = 2
  Lag = 1
  Grace = 3
  Faults = {"timeout", "mute"}
  MaxSubmits = 3
  LastSubmit = 6
  MaxNow = 11
INVARIANTS
  AtMostOneCharge
  UnknownIsInSuspense
PROPERTIES
  ChargeIsRecorded
  NoChargeGivesBudgetBack
CHECK_DEADLOCK FALSE
