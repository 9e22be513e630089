CONSTANTS
  Job = {j1, j2}
  Key = {k1}
  NoKey = NoKey
  NoJob = NoJob
  Producer = {p1, p2}
  Worker = {w1, w2}
  Prio <- MCPrio
  Unhandled = {NoKey}
  MaxDepth = 1
  MaxAttempts = 2
  MaxFaults = 2
SPECIFICATION FairSpec
INVARIANTS TypeOK ExclusiveHolder RetryBudget DepthOvershoot
PROPERTIES SettledIsFinal ImplementsLedger EveryJobSettles CrashedJobSettles
CHECK_DEADLOCK FALSE
