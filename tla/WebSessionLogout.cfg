CONSTANTS
  Tab = {t1}
  Slot = {s1}
  MaxPairs = 3
  Trouble = {}
  MaxTrouble = 0
SPECIFICATION Spec
PROPERTIES LogoutBlocks
CHECK_DEADLOCK FALSE
