SPECIFICATION FairSpec
CONSTANTS
  Checkouts <- TwoCheckouts
  PlanOf <- TwoPlans
  Handlers <- TwoHandlers
  MaxFaults = 1
  MaxChanges = 2
INVARIANTS
  TypeOK
  PlanWasPaid
  PlanIsBacked
PROPERTY CancellationArrives
\* Every checkout is over and every bound is spent.
CHECK_DEADLOCK FALSE
