SPECIFICATION Spec
CONSTANTS
  src = src
  other = other
  original = original
  fixed = fixed
  h1 = h1
  sigA = sigA
  Proc = {p1}
  Cmd = {repro}
  NoCmd = NoCmd
  Sig = {sigA}
  MaxSignatures = 2
  Path = {src}
  Content = {original, fixed}
  Visible = {src}
  Writable = {}
  Commit = {h1}
  NoRepo = NoRepo
  InitialFiles <- MCInitialFiles
  InitialHead = h1
  Runs <- MCRunsStable
  Patch <- MCPatches
  NoPatch = NoPatch
  NHyp = 4
  Draft <- MCDrafts
  Verdict <- MCVerdictsAccept
  MaxSessions = 2
  MaxRoots = 1
  MaxSnapshots = 2
INVARIANT ConfirmedWasVerifierSupported
CHECK_DEADLOCK FALSE
