SPECIFICATION Spec
CONSTANTS
  Capacity = 3
  NoValue = NoValue
  Scale = 100
  Sizes <- MCSizes
  MaxTime = 8
  MaxMessages = 2
INVARIANTS
  QueryFindsMoment
  AverageWithinObserved
PROPERTIES
  AnswersStand
CHECK_DEADLOCK FALSE
