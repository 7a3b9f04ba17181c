SPECIFICATION LiveSpec
INVARIANTS
  ForgottenIsClosed
PROPERTIES
  PauseReturns
CHECK_DEADLOCK FALSE
