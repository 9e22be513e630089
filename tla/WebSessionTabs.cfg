CONSTANTS
  Tab = {t1, t2}
  Slot = {s1}
  MaxPairs = 3
  Trouble = {"down", "lost", "dberror", "login", "elsewhere", "password"}
  MaxTrouble = 1
SPECIFICATION LiveSpec
INVARIANTS TypeOK RedeemedOnce NoRevival InStep
PROPERTIES CallsSettle
CHECK_DEADLOCK FALSE
