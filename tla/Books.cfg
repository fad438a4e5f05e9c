\* One purchase, its ledger view, and outsiders at the tables.
SPECIFICATION Spec
CONSTANTS
  Keys = {k1}
  NoKey = NoKey
  Ids = {i1, i2, i3}
  Writers = {w1}
  Outsiders = {o1}
  LineCounts = {2}
  MaxLines = 2
  DropSets = {{"ledger_entries_balanced", "ledger_transactions_balanced"}, {"ledger_entries_no_change"}}
SYMMETRY Symmetric
INVARIANTS
  NoFalseAlarm
  MissingSaleIsReal
PROPERTY TriggersKeepPostingsWhole
