SPECIFICATION FairSpec
CONSTANTS
  i1 = i1
  i2 = i2
  Instruments <- MCInstruments
  History <- MCHistory
  Quantity <- MCQuantity
  LimitPrice = {3}
  DefaultPrice = 6
  Capital = 10
  CommissionRate = 1
  MaxOrders = 2
  MaxSignals = 2
CHECK_DEADLOCK FALSE
INVARIANT PricedByFedBar
PROPERTIES BarIsSettled EquityIsCash ReplayReturns
