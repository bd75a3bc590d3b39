SPECIFICATION MCSpec
CONSTANTS
  DraftIds = {d1, d2}
  Texts = {x1, x2}
  Services = {s1}
  Operators = {o1}
  Keys = {k1}
  LastTime = 2
  MaxFaults = 1
  MaxAsked = 2
  NoKey = NoKey
  NoText = NoText
  NoDraft = NoDraft
CHECK_DEADLOCK FALSE
INVARIANTS TypeOK OneCopyPerSchedule RefusedLeavesNothing
PROPERTIES SentLeadsOn DueIsSettled
