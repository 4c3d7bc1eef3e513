SPECIFICATION FairSpec
CONSTANTS
  buy = buy
  sell = sell
  rest = rest
  i1 = i1
  i2 = i2
  Order <- MCOrder
  Instrument <- MCInstrument
  InstrumentOf <- MCInstrumentOf
  SideOf <- MCSideOf
  OrderTypeOf <- MCOrderTypeOf
  QuantityOf <- MCQuantityOf
  MaxCancels = 1
CHECK_DEADLOCK FALSE
INVARIANTS FilledMeansAll PositionsAgreeAtRest
PROPERTIES ImplementsReport MarketOrderIsFilled CancelIsReported
