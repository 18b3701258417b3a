SPECIFICATION Spec
CONSTANTS
  src = src
  other = other
  original = original
  fixed = fixed
  h1 = h1
  sigA = sigA
  Proc = {p1, p2}
  Cmd = {repro}
  NoCmd = NoCmd
  Sig = {sigA}
  MaxSignatures = 2
  Path = {src}
  Content = {original, fixed}
  Visible = {src}
  Writable = {}
  Commit = {h1}
  NoRepo = NoRepo
  InitialFiles <- MCInitialFiles
  InitialHead = h1
  Runs <- MCRunsStable
  Patch <- MCPatches
  NoPatch = NoPatch
  NHyp = 4
  Draft <- MCDrafts
  Verdict <- MCVerdictsAccept
  MaxSessions = 4
  MaxRoots = 1
  MaxSnapshots = 2
SYMMETRY ProcSymmetry
INVARIANTS
  TypeOK
  RollbackChildIsProposed
  ChildKeepsEvidence
  ConfirmationsArePaidFor
PROPERTIES
  RollbackUndoesApply
CHECK_DEADLOCK FALSE
