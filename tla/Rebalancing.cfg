SPECIFICATION Spec
CONSTANTS
  i1 = i1
  i2 = i2
  Instrument <- MCInstrument
  Limit <- MCLimit
  WeightUnit = 2
  Weight <- MCWeight
  Price = {1, 2}
  Value = {3, 5}
  MaxRebalances = 2
  MaxStarts = 2
CHECK_DEADLOCK FALSE
INVARIANTS PositionWithinLimit RebalanceReachesTarget EngineCatchesUp
PROPERTY DrawdownStopsTrading
