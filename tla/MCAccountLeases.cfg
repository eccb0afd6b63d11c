SPECIFICATION Spec
CONSTANTS
  a1 = a1
  a2 = a2
  direct = direct
  worker = worker
  other = other
  Account <- MCAccount
  Dispatcher <- MCDispatcher
  Worker <- MCWorker
  Hcom <- MCHcom
  NoOne = NoOne
CHECK_DEADLOCK FALSE
INVARIANTS
  TypeOK
  UncleanRunKeepsAccount
  OneRunPerAccount
  EvidenceBeforeEffect
