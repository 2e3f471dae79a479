SPECIFICATION Spec
CONSTANTS
  FreshAge = 1
  StaleAge = 2
  UnknownAge = 4
  ClockErrors <- TrueClocks
  GatewayFaults = FALSE
  MaxAttempts = 2
  JobLimit = 1
  MaxRuns = 2
  MaxTime = 4
INVARIANTS
  TypeOK
  ReportIsHonest
  OkIsServed
PROPERTIES
  RunsEnd
  BoardNeverTurnsBack
