SPECIFICATION Spec
CONSTANTS
  Workers = {w1, w2}
  MaxUid = 2
  Unreadable = {}
  MaxRows = 2
SYMMETRY Symmetry
INVARIANT NothingSkipped
