---------------------------- MODULE MCSettlement ----------------------------
(***************************************************************************)
(* Instances of Settlement: a few chapters and runs, with a continuity     *)
(* window small enough that chapters fall out of it.                       *)
(***************************************************************************)
EXTENDS Settlement, TLC

\* Runs are interchangeable.
RunSymmetry == Permutations(Runs)
=============================================================================
