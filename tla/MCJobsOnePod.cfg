SPECIFICATION FairSpec
CONSTANTS
  j1 = j1
  j2 = j2
  k1 = k1
  p1 = p1
  p2 = p2
  w0 = w0
  w1 = w1
  Job = {j1, j2}
  Key = {k1}
  NoKey = NoKey
  KeyOf <- MixedKeyOf
  UserJob = {j1}
  Registered = {j1, j2}
  Priority <- MixedPriority
  MaxAttempts <- MixedMaxAttempts
  Pod = {p1}
  Slot = {w0, w1}
  FirstSlot = w0
  NoSlot = NoSlot
  NoJob = NoJob
  CandidateLimit = 2
  Isolated = TRUE
  Timely = TRUE
  Retention = TRUE
  MaxFaults = 3
INVARIANTS ExclusiveExecution AttemptsWithinLimit
PROPERTIES TerminalIsFinal LifecycleSpec EveryJobSettles StoppingEnds
