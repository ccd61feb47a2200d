SPECIFICATION Spec
CONSTANTS
  c1 = c1
  c2 = c2
  b1 = b1
  b2 = b2
  s1 = s1
  s2 = s2
  NULL = NULL
  NoLock = NoLock
  Requests = {c1, c2}
  BackupCodeSet = {b1, b2}
  SmsCodes = {s1, s2}
  MaxAttempts = 2
  LockoutDuration = 2
  CodeLife = 0
  SendWindow = 2
  SendMax = 1
  MaxTime = 2
SYMMETRY Symmetry
INVARIANTS
  GuessesPerLock
  BackupCodesAccountedFor
  NewestCodeStands
PROPERTIES
  LockKeepsItsTime
CHECK_DEADLOCK FALSE
