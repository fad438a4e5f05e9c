\* Callers crash at any step, any write may fail or lose its answer, to the
\* store, the books or the audit log, the provider refuses or does not answer
\* questions; no charge times out, nobody is suspended past the staleness window.
SPECIFICATION Spec
CONSTANTS
  Callers = {c1, c2}
  Reconcilers = {r1}
  PriceOf <- OnePrice
  StaleAfter = 2
  Lag = 1
  Grace = 3
  Faults = {"crash", "refuse", "mute", "audit", "db", "lost", "posting"}
  MaxSubmits = 4
  LastSubmit = 5
  MaxNow = 9
SYMMETRY Symmetric
PROPERTIES
  KeepsPromise
  PendingLeftOnlyByReconciliation
CHECK_DEADLOCK FALSE
