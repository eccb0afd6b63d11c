CONSTANTS
  o1 = o1
  Operator <- OneOperator
  MaxAttempts = 2
  EarlyCommands = FALSE
SPECIFICATION FairSpec
INVARIANTS
  TypeOK
  RetryMeansGone
PROPERTIES
  AccountFreedAfterProvider
  OperationsSettle
CHECK_DEADLOCK FALSE
