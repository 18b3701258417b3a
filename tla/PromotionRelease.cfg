SPECIFICATION Spec
CONSTANTS
  Calibration = {c1}
  Promotion = {p1}
  Release = {r1}
  A = A
  B = B
  l = l
  Core = {A, B}
  Lock = {l}
  NoLock = NoLock
  DraftPolicy = DraftPolicy
  None = None
  Grades = {1, 2}
  InitialMain <- MCInitial
  Edits <- MCEdits
  MaxCommits = 4
  MaxAttempts = 3
  MaxReruns = 2
INVARIANTS
  TypeOK
  ReleaseIsItsParentActivated
  EvidenceIsOfOneAttempt
  ReleasedAfterCalibration
  TagIsTheSource
  OneReleaseOfTheTag
CHECK_DEADLOCK FALSE
