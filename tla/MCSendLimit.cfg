SPECIFICATION Spec
CONSTANTS
  Claims = {m1, m2, k1}
  Clicks = {k1}
  Settable <- MCSettable
  LastDay = 2
  U32Max = 3
  Nobody = Nobody
SYMMETRY Symmetry
INVARIANTS SameDayWithinLimit WarmUpIsExact CeilingDayIsFirst
