SPECIFICATION Spec
CONSTANTS
  w1 = w1
  w2 = w2
  w3 = w3
  Proposal <- MCProposal
  Chunks <- MCChunks
  ShortTitled = {w3}
  MaxJobs = 2
  Editable = {w1, w2}
  LongInputs <- MCLongInputs
  MaxCrashes = 1
INVARIANTS
  SentAtMostOnce
  StudiedAsAllowed
  StuckOnlyForCause
CHECK_DEADLOCK FALSE
