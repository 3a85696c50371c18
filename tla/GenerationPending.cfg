SPECIFICATION FairSpec
CONSTANTS
  Calls <- OneJobCalls
  Request <- OneJobRequest
  PlanNames <- FreeOnly
  Plan <- FreeRow
  InitialPlan = "free"
  AsyncThreshold = 3
  MaxInt = 20
  LongMessages = FALSE
  MaxFaults = 0
  MaxCrashes = 0
PROPERTY AcceptedJobRuns
