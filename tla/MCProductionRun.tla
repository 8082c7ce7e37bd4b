--------------------------- MODULE MCProductionRun ---------------------------
(***************************************************************************)
(* Instances of ProductionRun: the whole DRAFT pipeline for requests that  *)
(* may crash and come back, and a short pipeline with one stage of each    *)
(* kind for contending requests, a changing project and a budget.          *)
(***************************************************************************)
EXTENDS ProductionRun, DraftPipeline

\* One stage of each kind: a pool stage, a scene, the derived surface and the
\* independent gate.
ShortRoute ==
  [context_greenlight        |-> Plain("surface_scene_0001"),
   surface_scene_0001        |-> Plain("surface_realization"),
   surface_realization       |-> Plain("independent_semantic_gate"),
   independent_semantic_gate |-> Gate("release")]
ShortStages == DOMAIN ShortRoute
ShortDerived == {"surface_realization"}
ShortPools == {"context_greenlight"}
ShortAnswers ==
  [s \in ShortStages |->
     IF s = "independent_semantic_gate" THEN {"accept", "reject"} ELSE {"accept"}]

\* A released DRAFT chapter was accepted by every gate on its prose, by the
\* last tracking audit it reached and by the independent review, and its
\* length gate never fired.  The Surface audit accepted it, or its evidence was
\* inexact and the one repair of that answer accepts (author_run_execute).
ReleasedPassedGates ==
  releases > 0 =>
    /\ LET audit == candidate["surface_hard_rule_audit"]
           repair == candidate["surface_hard_rule_audit_contract_repair"]
       IN  /\ audit # NoResult
           /\ \/ audit[1] = "accept" /\ repair = NoResult
              \/ audit[1] = "inexact" /\ repair # NoResult /\ repair[1] = "accept"
    /\ \A g \in DraftGates : candidate[g] # NoResult /\ candidate[g][1] = "accept"
    /\ candidate["chapter_length_gate"] = NoResult
    /\ \E a \in DraftAudits :
         /\ candidate[a] # NoResult /\ candidate[a][1] = "accept"
         /\ \A b \in DraftAudits \ {a} : candidate[b] # NoResult => candidate[b][1] = "reject"
=============================================================================
