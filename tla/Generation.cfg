SPECIFICATION Spec
CONSTANTS
  Calls <- MixedCalls
  Request <- MixedRequest
  PlanNames <- FinitePlans
  Plan <- FiniteRows
  InitialPlan = "free"
  AsyncThreshold = 3
  MaxInt = 20
  LongMessages = TRUE
  MaxFaults = 1
  MaxCrashes = 1
INVARIANTS
  TypeOK
  NeverOvercharged
  WithinCeiling
  ServedIsLogged
  CompletedHasAudio
  DeadLinksAreFailedJobs
PROPERTIES
  JobNeverReopens
  ImplementsLedger
