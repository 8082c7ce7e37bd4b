----------------------------- MODULE MCAuthoring -----------------------------
(***************************************************************************)
(* What an author prepares in a project: its plans and Book Setup          *)
(* (PlanLedger) and its volumes, units and chapters (StoryTopology).       *)
(* Requests exclude each other and the parts share no state but the table  *)
(* of receipts, whose foreign rows StoryTopology models itself, so that    *)
(* TLC explores the parts one at a time.                                   *)
(***************************************************************************)
EXTENDS PlanLedger, TLC

CONSTANTS Titles, MaxCreations

ASSUME TopologyAssumption == MaxCreations \in Nat

VARIABLES
  nodes, documents, chapterReceipts, receipts, refused, asked,
  subject   \* the part that is explored

topologyVars == <<nodes, documents, chapterReceipts, receipts, refused, asked>>

Topology == INSTANCE StoryTopology

AuthoringInit == Init /\ Topology!Init /\ subject \in {"plans", "topology"}

AuthoringNext ==
  /\ UNCHANGED subject
  /\ \/ subject = "plans" /\ Next /\ UNCHANGED topologyVars
     \/ subject = "topology" /\ Topology!Next /\ UNCHANGED vars

AuthoringSpec == AuthoringInit /\ [][AuthoringNext]_<<vars, topologyVars, subject>>

\* No creation is refused by the validation of the tree (StoryTopology).
CreationsAreValid == Topology!CreationsAreValid

\* A repeated creation names the node the first one made (StoryTopology).
RetriesNameOneNode == Topology!RetriesNameOneNode

\* Setups with the same book plan, which the resumption must tell apart.
MCBodyOf == [s \in Setups |-> CHOOSE b \in Bodies : TRUE]

Symmetry == Permutations(Keys) \cup Permutations(Setups) \cup Permutations(Authors)
            \cup Permutations(Titles)
=============================================================================
