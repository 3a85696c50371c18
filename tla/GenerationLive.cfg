SPECIFICATION FairSpec
CONSTANTS
  Calls <- LiveCalls
  Request <- LiveRequest
  PlanNames <- TwoPlans
  Plan <- TwoPlanRows
  InitialPlan = "free"
  AsyncThreshold = 3
  MaxInt = 5
  LongMessages = FALSE
  MaxFaults = 1
  MaxCrashes = 0
INVARIANT SyncAllOrNothing
PROPERTIES
  HandlerAnswers
  ProcessingEnds
