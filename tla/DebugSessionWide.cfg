SPECIFICATION Spec
CONSTANTS
  src = src
  other = other
  original = original
  fixed = fixed
  h1 = h1
  sigA = sigA
  Proc = {p1}
  Cmd = {repro, unrelated}
  NoCmd = NoCmd
  Sig = {sigA}
  MaxSignatures = 2
  Path = {src, other}
  Content = {original, fixed}
  Visible = {src, other}
  Writable = {other}
  Commit = {h1}
  NoRepo = NoRepo
  InitialFiles <- MCInitialFiles
  InitialHead = NoRepo
  Runs <- MCRuns
  Patch <- MCPatches
  NoPatch = NoPatch
  NHyp = 4
  Draft <- MCDrafts
  Verdict <- MCVerdicts
  MaxSessions = 2
  MaxRoots = 1
  MaxSnapshots = 1
INVARIANTS
  VerifiedIsBound
  OnlyAuthorizedPatches
CHECK_DEADLOCK FALSE
