SPECIFICATION Spec
CONSTANTS
  FreshAge = 0
  StaleAge = 1
  UnknownAge = 2
  cash = cash
  cap = cap
  Fields <- TheFields
  Critical <- TheCritical
  MaxTime = 2
INVARIANTS
  RaisesOnlyForItsInputs
  WorstOfItsWindows
  UsableIsComplete
CHECK_DEADLOCK FALSE
