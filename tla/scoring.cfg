SPECIFICATION Spec
CONSTANTS
  FreshAge = 1
  StaleAge = 2
  UnknownAge = 3
  BPS = 4
  Ray = 4
  TokenUnit = 1
  Cents = 1
  Snapshots <- TheSnapshots
  Values <- TheValues
  MaxChanges = 2
INVARIANTS
  RaisesOnlyForTheFuture
  RoundedHalfUp
  NoFailureIsAveragedAway
  NothingScoredOfOldState
  TheScaleOfAnAnswerIsNoRisk
PROPERTIES
  WorseNeverScoresLower
  LosingInputsNeverImproves
CHECK_DEADLOCK FALSE
