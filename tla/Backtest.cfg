SPECIFICATION BacktestsSpec
CONSTANTS
  Quantity = {1, 2}
  Price = {0, 2, 4}
  MaxFills = 4
  Capital <- MCCapital
  CostRate <- MCCostRate
  Signal <- MCSignal
  SizeUnit = 2
  Params <- MCParams
  Ratio <- MCRatio
  MaxPrices = 5
  SignalFunc <- MCSignalFunc
CHECK_DEADLOCK FALSE
INVARIANTS ProfitIsCash TradesBookLedgerProfit ActsFromNextBar DrawdownIsWorstFall WalkForwardCompounds
