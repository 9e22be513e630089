CONSTANTS
  Room = {r1, r2}
  Name = {n1, n2}
  User = {u1}
  Admin = {}
  JobId = {}
  Kind = {}
  NoRow = NoRow
  NoRoom = NoRoom
  NoName = NoName
  NoUser = NoUser
  NoJob = NoJob
  Creator = {c1, c2}
  Editor = {}
  Worker = {}
  MaxAttempts = 3
  Sweeping = TRUE
  MaxRooms = 1
  MaxFaults = 0
SPECIFICATION FairSpec
INVARIANTS QuotaOvershoot
PROPERTIES QuietRoomGoesIdle
CHECK_DEADLOCK FALSE
