\* Three settlements of two chapters; two builds of two chapters.
SPECIFICATION RecordsSpec
CONSTANTS
  SettledChapters = {c1, c2}
  Owned = {relationship}
  Expectations = {expectation}
  Owners = {o1, o2}
  Retained = 2
  MaxCandidates = 2
  MaxSettlements = 3
  MaxFaults = 1
  Chapters = {1, 2}
  Keys = {k1, k2}
  MaxAcceptances = 2
  MaxAttempts = 2
  MaxCrashes = 2
SYMMETRY Symmetry
INVARIANTS PublishedIsWhole ResumableUnlessTorn NewestCollectionAnswered
INVARIANTS OpenedStateIsHistory DamageIsRepairable CurrentSourcesAreHeads
CHECK_DEADLOCK FALSE
