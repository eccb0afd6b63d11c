SPECIFICATION Spec
CONSTANTS
  p1 = p1
  Procs = {p1}
  Requests <- MCSilentRequests
  MaxAttempts = 1
  None = None
INVARIANT
  ChainVerifies
