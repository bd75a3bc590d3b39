SPECIFICATION InboxSpec
CONSTANTS
  Messages = {1, 2, 3, 4}
  Late = {4}
  Senders = {"s", "u"}
  MailboxOf <- MCMailboxOf
  SenderOf <- MCSenderOf
  IdentitiesOf <- MCIdentitiesOf
  Entries = {"s", "@d"}
  Covers <- MCCovers
  Tags = {"t", "u"}
  RuleIds = {1, 2}
  Retags <- MCRetags
  RuleBodies <- MCBodies
  FirstRules <- MCFirstRules
  FirstViews <- MCFirstViews
  ViewNames = {"inbox", "other"}
  Filters <- MCFilters
  Operators = {o1, o2}
  Unset = Unset
  PageSize = 2
  LastTime = 1
  MaxAsked = 2
  MaxChurn = 1
SYMMETRY MCSymmetry
CHECK_DEADLOCK FALSE
INVARIANTS InboxTypeOK ThreadIsTheConversation ListingIsWhatIsAsked MutedStaysOut
PROPERTIES StandingRulesTag
