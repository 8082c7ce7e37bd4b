\* Rewriting a settled chapter: can its dependents be written again?
SPECIFICATION Spec
CONSTANTS
  Chapters = {1, 2}
  Runs = {r1, r2, r3}
  NoRun = NoRun
  Window = 1
INVARIANTS InvalidatedIsRepairable
CHECK_DEADLOCK FALSE
