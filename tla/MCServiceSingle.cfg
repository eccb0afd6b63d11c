SPECIFICATION Spec
CONSTANTS
  s1 = s1
  Services = {s1}
  Payloads <- MCPayloads
  MaxJobs = 4
  Unreadable = FALSE
  None = None
INVARIANTS
  ReceiptsAreStored
  NoSecondRun
PROPERTY
  StatusSurvivesRestart
