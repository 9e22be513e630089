CONSTANTS
  a = a
  m1 = m1
  Peer = {a, b}
  Msg = {m1}
  Author <- ByA
  Chunks <- Large
  Poll = {m1}
  Emoji = {"like"}
  Option = {"x", "y"}
  None = None
  Trouble = {"interrupt", "close", "fail", "reload"}
  MaxEvents = 2
SPECIFICATION LiveSpec
INVARIANTS TypeOK ShownOnce ShownWhole SentIsShown VotesSettle
CHECK_DEADLOCK FALSE
PROPERTIES RetryDelivers
