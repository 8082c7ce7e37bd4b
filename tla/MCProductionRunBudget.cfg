\* A budget of two model calls, with fairness.
SPECIFICATION FairSpec
CONSTANTS
  Executors = {e1}
  Stages <- ShortStages
  First = "context_greenlight"
  Route <- ShortRoute
  Verdicts <- Verdict
  Variants = {"a"}
  Answers <- ShortAnswers
  AlwaysDerived <- ShortDerived
  PoolStages <- ShortPools
  FreezeBefore = "surface_scene_0001"
  Unfrozen = {"context_greenlight"}
  ExternalGate = "independent_semantic_gate"
  SceneStages <- DraftScenes
  ReusedStages = {}
  Materials = {m1, m2}
  EmptyPools = {m2}
  NoBudget = NoBudget
  Budget = 2
  CancelKeys = {k1}
  MaxExecutions = 3
INVARIANTS WithinBudget
PROPERTIES ExecutionEnds
CHECK_DEADLOCK FALSE
