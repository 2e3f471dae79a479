SPECIFICATION Spec
CONSTANTS
  r1 = r1
  r2 = r2
  a1 = a1
  Requests = {r1}
  Authorizations = {a1}
  NoAuthorization = none
  FreshAge = 2
  StaleAge = 5
  UnknownAge = 7
  CallTimeout = 1
  SettleTimeout = 2
  TimerLag = 1
  ObservationLags <- OneLag
  MaxPublications = 1
  MaxTime = 9
INVARIANT NoChallengeOverOwnSettlement
