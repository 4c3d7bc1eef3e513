SPECIFICATION FairSpec
CONSTANTS
  o1 = o1
  o2 = o2
  v1 = v1
  v2 = v2
  Order <- MCOrder
  VenueId <- MCVenueId
  Requested <- MCRequested
  MaxCancels = 1
  MaxConnects = 2
CHECK_DEADLOCK FALSE
INVARIANTS WorkingIsAtVenue PositionsComparable 
PROPERTIES StatusFollowsTable PolledEndIsFinal AcceptanceIsReported
