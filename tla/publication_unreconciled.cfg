SPECIFICATION Spec
CONSTANTS
  FreshAge = 1
  StaleAge = 2
  UnknownAge = 4
  ClockErrors <- TrueClocks
  GatewayFaults = FALSE
  MaxAttempts = 3
  JobLimit = 1
  MaxRuns = 1
  MaxTime = 2
INVARIANT FailedRunsAreNotServed
