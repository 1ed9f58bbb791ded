SPECIFICATION SweepSpec
CONSTANTS
  o1 = o1
  o2 = o2
  PlanOrders = {o1, o2}
  NoOrder = NoOrder
  PlanOf <- PlanOfMC
  CyclesOf <- CyclesOfMC
  CycleTime = 1
  MaxTime = 2
  MaxContracts = 3
  MaxNumbers = 2
INVARIANTS EveryContractHasItsCommand EarlyEndIsTold
PROPERTIES OverdueEnds
CHECK_DEADLOCK FALSE
