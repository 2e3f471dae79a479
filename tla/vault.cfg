SPECIFICATION Spec
CONSTANTS
  Word = 44
  BPS = 6
  MIN_LIQUID_BPS = 2
  MAX_AAVE_BPS = 3
  Amounts <- Single
INVARIANTS
  AnswersExactly
  PanicsOnlyOnBacking
