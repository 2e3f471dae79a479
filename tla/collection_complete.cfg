SPECIFICATION Spec
CONSTANTS
  FreshAge = 1
  StaleAge = 2
  UnknownAge = 3
  BPS = 4
  Ray = 4
  TokenUnit = 1
  Cents = 1
  Chains <- TheChains
  Registry <- TheRegistry
  AdapterAddress = "adapter"
  ProxyAddress = "feed"
  Words = 1000
  MaxFailures = 2
  Failed = Failed
  NoValue = NoValue
INVARIANTS
  CompleteHasItsInputs
CHECK_DEADLOCK FALSE
