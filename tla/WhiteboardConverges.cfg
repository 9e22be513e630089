CONSTANTS
  a = a
  b = b
  e1 = e1
  e2 = e2
  Peer = {a, b}
  Edit = {e1, e2}
  Host = a
  Author <- ByTwo
  Big = {e2}
  Id = {1, 2, 3, 4}
  None = None
  Flaky = {a, b}
  Timers = 1
  Patient = TRUE
  Trouble = {"interrupt", "fail", "close"}
  MaxTrouble = 1
SPECIFICATION Spec
INVARIANTS TypeOK Converged NotStuck
CHECK_DEADLOCK FALSE
