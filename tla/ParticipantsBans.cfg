SPECIFICATION FairSpec
CONSTANTS
  User = {u}
  Owner = o
  Guest = {u}
  NoUser = NoUser
  Joiner = {j1, j2}
  Refresher = {f1}
  Moderator = {m1}
  Closing = FALSE
  Editing = TRUE
  MaxParticipants = 1
  MaxFaults = 1
INVARIANTS TypeOK BannedRowInactive
PROPERTIES BanStops BannedOut
