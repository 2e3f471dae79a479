SPECIFICATION Spec
CONSTANTS
  FreshAge = 0
  StaleAge = 1
  UnknownAge = 2
  cash = cash
  cap = cap
  Fields <- TheFields
  Critical <- TheCritical
  MaxTime = 2
INVARIANT
  NeverExtended
CHECK_DEADLOCK FALSE
