SPECIFICATION Spec
CONSTANTS
  a = a
  b = b
  old = old
  new = new
  Proc = {p1, p2}
  Path = {a, b}
  Content = {old, new}
  InitialFiles <- MCInitialFiles
  Patch <- MCPatches
  Faults = {"crash", "write", "save", "restore", "edit"}
  MaxSnapshots = 1
SYMMETRY ProcSymmetry
INVARIANTS
  TypeOK
  AllOrNothing
  PatchedIsRecorded
PROPERTIES
  RestoresOnlyUndrifted
  RefinesAtomic
CHECK_DEADLOCK FALSE
