SPECIFICATION StoreSpec
CONSTANTS
  c1 = c1
  c2 = c2
  c3 = c3
  s1 = s1
  s2 = s2
  Client = {c1, c2, c3}
  Symbol = {s1, s2}
  Frame <- MCFrame
  Period <- MCPeriod
  MaxCalls = 4
CHECK_DEADLOCK FALSE
PROPERTY ImplementsMemory
