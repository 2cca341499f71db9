SPECIFICATION Spec
CONSTANTS
  DefaultMin = 2
  DefaultMax = 20
  Longest = 64
  Mins <- SomeMins
  Maxs <- SomeMaxs
  Factors <- SomeFactors
  Jitters <- SomeJitters
  MaxAttempt = 6
INVARIANTS
  WithinBounds
  Exponential
CHECK_DEADLOCK FALSE
