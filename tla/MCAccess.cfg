SPECIFICATION AccessSpec
CONSTANTS
  Accounts = {"a", "b"}
  Organizations = {"o1", "o2"}
  None = None
  Ids <- MCIds
  KindOf <- MCKindOf
  FirstOwner <- MCFirstOwner
  FirstUnder <- MCFirstUnder
  FirstRoles <- MCFirstRoles
  Offered <- MCOffered
  Sessions = {"a"}
  MayAsk <- MCMayAsk
INVARIANTS
  AccessTypeOK
  ActsForItsOrganization
  AuthorityAllowedIt
  RefusalsAreTrue
