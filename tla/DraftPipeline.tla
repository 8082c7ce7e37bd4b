---------------------------- MODULE DraftPipeline ----------------------------
(***************************************************************************)
(* The pipeline author_run_execute drives a DRAFT run through, as the      *)
(* route table of ProductionRun: which stage, gate or outcome follows each *)
(* verdict.  Repair stages exist only on the routes that need them.        *)
(***************************************************************************)

Verdict == {"accept", "reject", "malformed", "inexact", "short"}

\* A stage whose answer only has to be well formed.
Plain(next) == [v \in Verdict |-> IF v = "malformed" THEN "error" ELSE next]

\* A gate: it accepts, rejects, or its answer does not parse.
Gate(next) == [v \in Verdict |-> CASE v = "malformed" -> "error"
                                   [] v = "reject" -> "failed_gate"
                                   [] OTHER -> next]

\* A tracking projection: an answer that does not parse goes to repair.
Projection(next, repair) ==
  [v \in Verdict |-> IF v = "malformed" THEN repair ELSE next]

\* A tracking audit: a rejection goes to the next bounded repair round.
Audit(next, repair) ==
  [v \in Verdict |-> CASE v = "malformed" -> "error"
                       [] v = "reject" -> repair
                       [] OTHER -> next]

\* The context, corpus and preference selections.
SelectionRoute ==
  [context_query_plan    |-> Plain("context_greenlight"),
   context_greenlight    |-> Plain("corpus_greenlight"),
   corpus_greenlight     |-> Plain("preference_greenlight"),
   preference_greenlight |-> Plain("character_simulation")]

\* realize_fresh_scenes with one scene, and the assembled chapter.
SurfaceRoute ==
  [character_simulation |-> Plain("scene_resolution"),
   scene_resolution     |-> Plain("surface_scene_0001"),
   surface_scene_0001   |-> Plain("surface_realization"),
   surface_realization  |-> [v \in Verdict |-> IF v = "short" THEN "chapter_length_gate"
                                               ELSE "surface_hard_rule_audit"],
   chapter_length_gate  |-> [v \in Verdict |-> "failed_gate"]]

\* Mutant: the decision of a repaired Surface audit is not read again.
ProseGateRouteUnread ==
  [surface_hard_rule_audit |->
     [Gate("reader_engagement") EXCEPT
        !["inexact"] = "surface_hard_rule_audit_contract_repair"],
   surface_hard_rule_audit_contract_repair |->
     [Plain("reader_engagement") EXCEPT !["inexact"] = "error"],
   reader_engagement     |-> Gate("continuity_rule_audit"),
   continuity_rule_audit |-> Gate("candidate_self_audit"),
   candidate_self_audit  |-> Gate("settlement_tracking_projection")]

\* The gates on the prose.  An audit with inexact evidence is repaired once;
\* the repair keeps the audit's judgment, which is read from the repaired answer.
ProseGateRoute ==
  [surface_hard_rule_audit |->
     [Gate("reader_engagement") EXCEPT
        !["inexact"] = "surface_hard_rule_audit_contract_repair"],
   surface_hard_rule_audit_contract_repair |->
     [Gate("reader_engagement") EXCEPT !["inexact"] = "error"],
   reader_engagement     |-> Gate("continuity_rule_audit"),
   continuity_rule_audit |-> Gate("candidate_self_audit"),
   candidate_self_audit  |-> Gate("settlement_tracking_projection")]

\* The tracking projection with its two parse repairs.
ProjectionRoute ==
  [settlement_tracking_projection |->
     Projection("settlement_tracking_audit", "settlement_tracking_projection_schema_repair"),
   settlement_tracking_projection_schema_repair |->
     Projection("settlement_tracking_audit", "settlement_tracking_projection_semantic_repair"),
   settlement_tracking_projection_semantic_repair |-> Plain("settlement_tracking_audit")]

\* The tracking audit with its three bounded repair rounds.
AuditRoute ==
  [settlement_tracking_audit |->
     Audit("independent_semantic_gate", "settlement_tracking_projection_audit_repair"),
   settlement_tracking_projection_audit_repair |-> Plain("settlement_tracking_audit_repair"),
   settlement_tracking_audit_repair |->
     Audit("independent_semantic_gate", "settlement_tracking_projection_audit_repair_2"),
   settlement_tracking_projection_audit_repair_2 |-> Plain("settlement_tracking_audit_repair_2"),
   settlement_tracking_audit_repair_2 |->
     Audit("independent_semantic_gate", "settlement_tracking_projection_audit_repair_3"),
   settlement_tracking_projection_audit_repair_3 |-> Plain("settlement_tracking_audit_repair_3"),
   settlement_tracking_audit_repair_3 |-> Gate("independent_semantic_gate")]

\* The independent review.
ReleaseRoute == [independent_semantic_gate |-> Gate("release")]

Merge(f, g) == [s \in DOMAIN f \cup DOMAIN g |-> IF s \in DOMAIN f THEN f[s] ELSE g[s]]

DraftRoute ==
  Merge(SelectionRoute, Merge(SurfaceRoute, Merge(ProseGateRoute,
    Merge(ProjectionRoute, Merge(AuditRoute, ReleaseRoute)))))

DraftStages == DOMAIN DraftRoute
DraftDerived == {"surface_realization", "chapter_length_gate"}
DraftPools == {"context_greenlight", "corpus_greenlight", "preference_greenlight"}
DraftScenes == {"surface_scene_0001"}
DraftReused == {"settlement_tracking_projection",
                "settlement_tracking_projection_schema_repair"}

\* The gates every DRAFT passes with one answer, and the tracking audits of
\* which it passes one.  The Surface audit and its repair pass together.
DraftGates == {"reader_engagement", "continuity_rule_audit", "candidate_self_audit",
               "independent_semantic_gate"}
DraftAudits == {"settlement_tracking_audit", "settlement_tracking_audit_repair",
                "settlement_tracking_audit_repair_2", "settlement_tracking_audit_repair_3"}

\* Verdicts that lead a stage somewhere different.
DraftAnswers ==
  [s \in DraftStages |->
     CASE s = "surface_scene_0001" -> {"accept", "short", "malformed"}
       [] s = "surface_hard_rule_audit" -> {"accept", "reject", "inexact", "malformed"}
       [] s = "surface_hard_rule_audit_contract_repair" -> {"accept", "reject", "inexact"}
       [] s \in {"settlement_tracking_projection",
                 "settlement_tracking_projection_schema_repair",
                 "settlement_tracking_projection_semantic_repair"} -> {"accept", "malformed"}
       [] s \in DraftGates \cup DraftAudits -> {"accept", "reject"}
       [] OTHER -> {"accept"}]
=============================================================================
