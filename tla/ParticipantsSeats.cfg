SPECIFICATION Spec
CONSTANTS
  User = {u, v, w}
  Owner = o
  Guest = {}
  NoUser = NoUser
  Joiner = {j1, j2}
  Refresher = {}
  Moderator = {}
  Closing = TRUE
  Editing = FALSE
  MaxParticipants = 1
  MaxFaults = 1
SYMMETRY Symmetric
INVARIANTS CapacityHeld
