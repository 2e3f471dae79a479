SPECIFICATION Spec
CONSTANTS
  FreshAge = 2
  StaleAge = 4
  UnknownAge = 7
  Milli = 3
  DbSkews <- OffByOne
  EdgeSkews <- OffByOne
  MaxBehind = 1
  MaxTime = 14
INVARIANTS
  TypeOK
  DatabaseFollowsPolicy
  WorkerFollowsPolicy
  NothingFromAPartialPublication
  WorkerAcceptsDatabaseResults
  LateUseIsBounded
PROPERTY NeverUpgraded
