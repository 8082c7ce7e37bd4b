--------------------------- MODULE MCStoryRecords ---------------------------
(***************************************************************************)
(* What a project keeps of its settled chapters: the published packages    *)
(* (Publication) and the events, projections and snapshots of the story    *)
(* (StoryHistory).  A publication reads the settled heads, which           *)
(* Publication moves itself, and writes nothing a settlement reads, so     *)
(* that TLC explores the parts one at a time.                              *)
(***************************************************************************)
EXTENDS Publication, TLC

CONSTANTS SettledChapters, Owned, Expectations, Owners, Retained, MaxCandidates, MaxSettlements, MaxFaults

ASSUME StoryAssumption ==
  Retained \in Nat \ {0} /\ MaxCandidates \in Nat /\ MaxSettlements \in Nat /\ MaxFaults \in Nat

VARIABLES
  canon, ledger, sources, tracking, anchors, events, stateHead, snapshots, faults,
  subject   \* the part that is explored

storyVars == <<canon, ledger, sources, tracking, anchors, events, stateHead, snapshots, faults>>

Story == INSTANCE StoryHistory WITH Chapters <- SettledChapters, head <- stateHead

RecordsInit == Init /\ Story!Init /\ subject \in {"history", "publication"}

RecordsNext ==
  /\ UNCHANGED subject
  /\ \/ subject = "history" /\ Story!Next /\ UNCHANGED vars
     \/ subject = "publication" /\ Next /\ UNCHANGED storyVars

RecordsSpec == RecordsInit /\ [][RecordsNext]_<<vars, storyVars, subject>>

\* An opened project shows what its events say (StoryHistory).
OpenedStateIsHistory == Story!OpenedStateIsHistory

\* Damage of one row can be repaired from a kept snapshot (StoryHistory).
DamageIsRepairable == Story!DamageIsRepairable

\* Nothing of a replaced chapter is shown to the Writer (StoryHistory).
CurrentSourcesAreHeads == Story!CurrentSourcesAreHeads

Symmetry == Permutations(SettledChapters) \cup Permutations(Owners) \cup Permutations(Keys)
=============================================================================
