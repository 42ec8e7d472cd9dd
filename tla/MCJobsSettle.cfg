SPECIFICATION Spec
CONSTANTS
  j1 = j1
  j2 = j2
  k1 = k1
  p1 = p1
  p2 = p2
  w0 = w0
  w1 = w1
  Job = {j1, j2}
  Key = {k1}
  NoKey = NoKey
  KeyOf <- MixedKeyOf
  UserJob = {}
  Registered = {j1, j2}
  Priority <- MixedPriority
  MaxAttempts <- MixedMaxAttempts
  Pod = {p1, p2}
  Slot = {w0}
  FirstSlot = w0
  NoSlot = NoSlot
  NoJob = NoJob
  CandidateLimit = 2
  Isolated = FALSE
  Timely = FALSE
  Retention = FALSE
  MaxFaults = 1
PROPERTY OnlyTheClaimantSettles
