SPECIFICATION Spec
CONSTANTS
  Name = {"ours"}
  OurName = "ours"
  Bodies <- MCBodies
  Run = {b1, b2}
  NoLock = NoLock
  NoFile = NoFile
  MaxChanges = 3
INVARIANTS
  TypeOK
  ReadyMeansReviewed
  NoOverlapNoDuplicate
SYMMETRY RunSymmetry
CHECK_DEADLOCK FALSE
