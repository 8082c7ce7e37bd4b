\* Three chapters, a window of one: rewriting, racing runs, stale dependents.
SPECIFICATION Spec
CONSTANTS
  Chapters = {1, 2, 3}
  Runs = {r1, r2, r3, r4}
  NoRun = NoRun
  Window = 1
SYMMETRY RunSymmetry
INVARIANTS CanonHistoryLinear ValidHeadsPublishable StaleHeadsInvalidated
PROPERTIES ImplementsSerialCanon
CHECK_DEADLOCK FALSE
