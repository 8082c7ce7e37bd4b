\* Two projects and two services; crashes at every step.
SPECIFICATION InstallationSpec
CONSTANTS
  Projects = {p1, p2}
  Titles = {t1, t2}
  StageNames = {n1, n2}
  MaxCrashes = 3
  NoTitle = NoTitle
  Endpoints = {e1, e2}
  MaxRefs = 3
  MaxVersions = 3
  MaxServiceCrashes = 1
SYMMETRY Symmetry
INVARIANTS RegisteredIsUsable TokensMatchServices CatalogIsCurrent
CHECK_DEADLOCK FALSE
