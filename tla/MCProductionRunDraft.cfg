\* The whole DRAFT pipeline: crashes, a changing project and a cancellation.
SPECIFICATION Spec
CONSTANTS
  Executors = {e1}
  Stages <- DraftStages
  First = "context_query_plan"
  Route <- DraftRoute
  Verdicts <- Verdict
  Variants = {"a"}
  Answers <- DraftAnswers
  AlwaysDerived <- DraftDerived
  PoolStages <- DraftPools
  FreezeBefore = "corpus_greenlight"
  Unfrozen = {"context_query_plan", "context_greenlight"}
  ExternalGate = "independent_semantic_gate"
  SceneStages <- DraftScenes
  ReusedStages <- DraftReused
  Materials = {m1, m2}
  EmptyPools = {}
  NoBudget = NoBudget
  Budget = NoBudget
  CancelKeys = {k1}
  MaxExecutions = 2
INVARIANTS TypeOK ReleaseBackedByGates ReleasedPassedGates
CHECK_DEADLOCK FALSE
