SPECIFICATION Spec
CONSTANTS
  Workers = {w1, w2}
  Flows = {f1}
  Grants = {g1, g2}
  Nothing = Nothing
SYMMETRY MCGmailSymmetry
INVARIANTS TypeOK OneExchange NoWakeupIsLost CurrentCredentialsGovern
PROPERTIES RevokedBeforeDeleted
