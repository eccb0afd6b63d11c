SPECIFICATION FairSpec
CONSTANTS
  s1 = s1
  s2 = s2
  Services = {s1, s2}
  Payloads <- MCFewPayloads
  MaxJobs = 2
  Unreadable = TRUE
  None = None
INVARIANTS
  TypeOK
  ReportedIsBound
  OneJobPerKey
  DrainSettles
PROPERTIES
  ResultIsFinal
  AcceptedSettles
