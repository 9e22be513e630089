CONSTANTS
  Room = {r1, r2}
  Name = {n1}
  User = {u1}
  Admin = {}
  JobId = {j1}
  Kind = {"purge", "user"}
  NoRow = NoRow
  NoRoom = NoRoom
  NoName = NoName
  NoUser = NoUser
  NoJob = NoJob
  Creator = {c1}
  Editor = {e1}
  Worker = {w1}
  MaxAttempts = 3
  Sweeping = TRUE
  MaxRooms = 0
  MaxFaults = 1
SPECIFICATION Spec
SYMMETRY Symmetry
INVARIANTS TypeOK ActiveNameUnique
CHECK_DEADLOCK FALSE
