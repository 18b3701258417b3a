SPECIFICATION Spec
CONSTANTS
  sigA = sigA
  Cmd = {repro}
  NoCmd = NoCmd
  Sig = {sigA}
  MaxSignatures = 2
  Series <- MCSeries
  MaxCommits = 17
  MaxPath = 18
INVARIANTS
  TypeOK
  ProvenIsTransition
  TestsHalvePath
CHECK_DEADLOCK FALSE
