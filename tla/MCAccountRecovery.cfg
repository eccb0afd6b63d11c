SPECIFICATION FairSpec
CONSTANTS
  a1 = a1
  a2 = a2
  direct = direct
  worker = worker
  other = other
  Account <- MCAccount
  Dispatcher <- MCPair
  Worker <- MCWorker
  Hcom <- MCNoHcom
  NoOne = NoOne
CHECK_DEADLOCK FALSE
PROPERTIES
  OrphansComeBack
