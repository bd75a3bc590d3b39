SPECIFICATION Spec
CONSTANTS
  Calls = {c1, c2}
  Processes = {p1, p2}
  Mailboxes = {m1, m2, m3}
  Foreign = {m3}
  ours = ours
  theirs = theirs
  Orgs <- MCOrgs
  OrgOf <- MCOrgOf
  Keys = {k1}
  Addresses = {a1}
  Deletable = {m1}
  Nobody = Nobody
SYMMETRY Symmetry
INVARIANTS AtMostOneCopy StatusIsEvidence SuppressedNeverClaimed
PROPERTIES VerdictIsFinal KeepsPromise
