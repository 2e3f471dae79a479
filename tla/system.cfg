SPECIFICATION SystemSpec
CONSTANTS
  FreshAge = 0
  StaleAge = 1
  UnknownAge = 2
  ClockErrors <- WrongClocks
  GatewayFaults = TRUE
  MaxAttempts = 1
  JobLimit = 1
  MaxRuns = 2
  MaxTime = 3
  Milli = 1
  DbSkews <- RightClocks
  EdgeSkews <- OneBehind
  MaxBehind = 1
VIEW SystemView
INVARIANTS
  ServedIsWhole
  BuyersNeverGoBack
  DeliveredStateIsRecent
