SPECIFICATION FairHostSpec
CONSTANTS
  w1 = w1
  w2 = w2
  w3 = w3
  i1 = i1
  i2 = i2
  h1 = h1
  h2 = h2
  Writer = {w1, w2, w3}
  Window = {h1, h2}
  Reader = {h1, w3}
  OnStored = {w3}
  Id = {i1, i2}
  NoWriter = NoWriter
  IdOf <- MCIdOf
  WindowOf <- MCWindowOf
  Faults = {"crash", "write", "unlink"}
  HostFaults = {"start", "throw", "die", "reload"}
INVARIANTS
  HostTypeOK
  LastResultIsStored
  ConfirmedIsApplied
  BusyIsTrue
PROPERTIES
  EveryCallSettles
  NobodyLosesAnId
  RefinesRegistry
CHECK_DEADLOCK FALSE
