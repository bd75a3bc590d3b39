CONSTANTS
  first = first second = second third = third
  sales = sales office = office
  All = All NoImport = NoImport
  Messages = {first, second, third}
  Inboxes = {sales, office}
  MailboxOf <- MCMailboxOf
  Imports = {one, two}
  Clients = {client}
  MaxFaults = 2
SPECIFICATION WatchSpec
SYMMETRY Alike
INVARIANTS WatchTypeOK MissesAndRepeatsNothing
CHECK_DEADLOCK FALSE
