SPECIFICATION FairSpec
CONSTANTS
  p1 = p1
  p2 = p2
  Procs = {p1, p2}
  Requests <- MCRequests
  MaxAttempts = 2
  None = None
INVARIANTS
  TypeOK
  ChainVerifies
  ChecksHoldAtWrite
  AnswersAreDurable
  OutcomeMatchesEffect
PROPERTIES
  AppendOnly
  ImplementsAbstractLedger
  CallReturns
