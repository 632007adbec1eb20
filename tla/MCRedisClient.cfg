CONSTANTS
  Clients = {a, b}
  Longest = 8
  Latency = 3
  MaxLost = 1
SPECIFICATION FairSpec
INVARIANTS
  CommandsHaveContext
  ContextsFreed
PROPERTIES
  Reconnects
CHECK_DEADLOCK FALSE
