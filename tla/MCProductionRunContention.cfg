\* Contending requests, two different answers, crashes and a changing project.
SPECIFICATION Spec
CONSTANTS
  Executors = {e1, e2}
  Stages <- ShortStages
  First = "context_greenlight"
  Route <- ShortRoute
  Verdicts <- Verdict
  Variants = {"a", "b"}
  Answers <- ShortAnswers
  AlwaysDerived <- ShortDerived
  PoolStages <- ShortPools
  FreezeBefore = "surface_scene_0001"
  Unfrozen = {"context_greenlight"}
  ExternalGate = "independent_semantic_gate"
  SceneStages <- DraftScenes
  ReusedStages = {}
  Materials = {m1, m2}
  EmptyPools = {m2}
  NoBudget = NoBudget
  Budget = NoBudget
  CancelKeys = {k1}
  MaxExecutions = 3
INVARIANTS ConsumedOnlyConfirmed SentAtMostOnce ReleaseUsesFrozenContext CancelledNeverReleases
PROPERTIES CancelClosesJournal
CHECK_DEADLOCK FALSE
