SPECIFICATION Spec
CONSTANTS
  seam1 = seam1
  seam2 = seam2
  task = task
  f1 = f1
  f2 = f2
  Actor <- MCActor
  Seam <- MCSeam
  File <- MCFile
  Target <- MCSameTarget
  Companion <- MCNoCompanion
  TTL <- MCMixedTTL
  MaxClock = 3
  NoOne = NoOne
CHECK_DEADLOCK FALSE
INVARIANTS
  WriteIsUnderTheLock
