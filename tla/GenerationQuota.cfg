SPECIFICATION Spec
CONSTANTS
  Calls <- PairCalls
  Request <- PairRequest
  PlanNames <- FreeOnly
  Plan <- FreeRow
  InitialPlan = "free"
  AsyncThreshold = 3
  MaxInt = 20
  LongMessages = FALSE
  MaxFaults = 0
  MaxCrashes = 0
INVARIANT ServedWithinQuota
