SPECIFICATION Spec
CONSTANTS
  None = None
  Requests <- MCRequests
  MaxRows = 3
  MaxFaults = 2
CHECK_DEADLOCK FALSE
INVARIANTS
  SingleFaultDetected
  AnchoredHistoryIsAuthentic
