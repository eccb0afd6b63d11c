CONSTANTS
  o1 = o1
  Operator <- OneOperator
  MaxAttempts = 1
  EarlyCommands = TRUE
SPECIFICATION FairSpec
PROPERTY NoTerminalWhileChildSurvives
CHECK_DEADLOCK FALSE
