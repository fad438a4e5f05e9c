\* Two keys that share the accounts, two attempts each: every order of the
\* three operations, with sales that disagree about the amount.
SPECIFICATION Spec
CONSTANTS
  Keys = {k1, k2}
  Attempts = {1, 2}
  Amounts = {100, 250}
SYMMETRY Symmetric
INVARIANTS
  OrderIndependent
  IndexesNeverRefuse
  TrialBalanceAgrees
PROPERTIES
  ImplementsPosition
