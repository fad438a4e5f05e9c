\* Two threads, two kinds of entries, three rows, and somebody who edits two
\* rows and recomputes any hash.
SPECIFICATION Spec
CONSTANTS
  Writers = {w1, w2}
  Entry = {e1, e2}
  None = None
  Drops = {{"UPDATE"}, {"UPDATE", "DELETE", "TRUNCATE"}}
  MaxRows = 3
  MaxEdits = 2
SYMMETRY Symmetric
INVARIANTS
  NeverForks
  EditIsLocated
  AnchorFixesHistory
PROPERTIES
  ImplementsAppendOnly
