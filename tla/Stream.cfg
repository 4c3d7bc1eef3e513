SPECIFICATION FairSpec
CONSTANTS
  s1 = s1
  s2 = s2
  r1 = r1
  Stream = {s1, s2}
  Feed <- MCFeed
  Wanted <- MCWanted
  Request = {r1}
  Workers = 2
  MaxMessages <- MCMaxMessages
  MaxBatch = 2
CHECK_DEADLOCK FALSE
INVARIANTS DeliveredInOrder AttributedToChannel
PROPERTIES RequestAnswered CloseCompletes
