\* Lists of up to five orders against a reach of two pages of two: shifts
\* within a page and across one, exact multiples, and lists too long.
SPECIFICATION LookupSpec
CONSTANTS
  Orders = {o1, o2, o3, o4, o5}
  Receipts = {mine, other}
  Lookups = {l1}
  PageSize = 2
  MaxPages = 2
INVARIANTS
  AnswerIsComplete
  GivesUpBeyondReach
SYMMETRY Symmetric
