SPECIFICATION Spec
CONSTANTS
  Mailboxes = {m1}
  DatabaseFails = TRUE
INVARIANTS TypeOK UnwatchedIsDue
PROPERTIES DeclaredIsWatched AnnouncedMailIsRead
