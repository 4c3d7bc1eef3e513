SPECIFICATION FairSpec
CONSTANTS
  EventType <- MCEventType
  Class <- MCClass
  MRO <- MCMRO
  Sub <- MCSub
  SubClass <- MCSubClass
  Reaction <- MCReaction
  Publisher = {p1, p2}
  Stopper = {s1}
  MaxStarts = 1
  MaxQueueSize = 0
CHECK_DEADLOCK FALSE
INVARIANT RunningBusDispatches
PROPERTIES ImplementsLanes PublishedIsDispatched IdleStopReturns
