SPECIFICATION Spec
CONSTANTS
  EventType <- MCFillEventType
  Class <- MCClass
  MRO <- MCFillMRO
  Sub <- MCFillSub
  SubClass <- MCFillSubClass
  Reaction <- MCFillReaction
  Publisher = {p1, p2, p3}
  Stopper = {s1, s2}
  MaxStarts = 2
  MaxQueueSize = 1
SYMMETRY PublisherSymmetry
CHECK_DEADLOCK FALSE
INVARIANTS UnfinishedIsOutstanding StopDrains HandledAtMostOnce
