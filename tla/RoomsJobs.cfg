CONSTANTS
  Room = {r1}
  Name = {n1}
  User = {u1, u2}
  Admin = {}
  JobId = {j1, j2}
  Kind = {"archive", "purge", "suspend", "user"}
  NoRow = NoRow
  NoRoom = NoRoom
  NoName = NoName
  NoUser = NoUser
  NoJob = NoJob
  Creator = {c1}
  Editor = {}
  Worker = {w1, w2}
  MaxAttempts = 3
  Sweeping = FALSE
  MaxRooms = 0
  MaxFaults = 1
SPECIFICATION FairSpec
PROPERTIES DeletedForGood WipedOnlyOnOrder PurgeReached RoomsGoWithOwner
CHECK_DEADLOCK FALSE
