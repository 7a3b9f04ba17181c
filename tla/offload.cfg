CONSTANTS
  BitrateCount = 2
  RemoteCount = 2
  LocalCount = 2
  numModels = 3
  Floor = 0
  Utilities = {1, 2}
  MAX_VALUE = 10000
  LastPoint = 3
  MaxY = 9
SPECIFICATION MCSpec
INVARIANTS
  DecisionIsBest
  BudgetRespected
  InverseIsExact
CHECK_DEADLOCK FALSE
