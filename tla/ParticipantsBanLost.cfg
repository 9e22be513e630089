SPECIFICATION Spec
CONSTANTS
  User = {u}
  Owner = o
  Guest = {}
  NoUser = NoUser
  Joiner = {j1}
  Refresher = {f1}
  Moderator = {m1}
  Closing = FALSE
  Editing = TRUE
  MaxParticipants = 1
  MaxFaults = 0
PROPERTIES BanSticks
