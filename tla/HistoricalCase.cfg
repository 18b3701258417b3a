SPECIFICATION FairHSpec
CONSTANTS
  c1 = c1
  c2 = c2
  c3 = c3
  b1 = b1
  f1 = f1
  b2 = b2
  f2 = f2
  p1 = p1
  sigA = sigA
  sigB = sigB
  repro = repro
  Cmd = {repro, other}
  NoCmd = NoCmd
  sigC = sigC
  Sig = {sigA, sigB, sigC}
  MaxSignatures = 2
  Requests = {0, 2, 3}
  Case = {c1, c2, c3}
  Commit = {b1, f1, b2, f2}
  Pin = {p1}
  NoCommit = NoCommit
  NoPin = NoPin
  Corpora <- MCCorpora
  Bad <- MCBad
  Fixed <- MCFixed
  Parent <- MCParent
  Reviewed <- MCReviewed
  PinOf <- MCPinOf
  Outcome <- MCOutcome
  WithVariant = {c1}
  Command = repro
  Request = 2
  Uses = {"explicit", "provenance", "qualify", "live"}
  HistoryFaults = {"git", "model", "kill"}
INVARIANTS
  HTypeOK
  ReproducibleAsDocumented
  TransitionMeansWhatItSays
  SeriesStartClean
  NothingLeftBehind
  OutputIsComplete
PROPERTIES
  EveryScriptEnds
CHECK_DEADLOCK FALSE
