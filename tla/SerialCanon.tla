----------------------------- MODULE SerialCanon -----------------------------
(***************************************************************************)
(* What settlement promises: Canon is a sequence of versions, each made by *)
(* one run from the version right before it.  A run draws on the whole     *)
(* Canon when it starts; it may replace one chapter, once, and only if     *)
(* Canon is still what it has drawn on.                                    *)
(***************************************************************************)
CONSTANTS Chapters, Runs, NoRun

VARIABLES
  canon,  \* the run behind each chapter
  drawn   \* the Canon each run has drawn on, if it has started

vars == <<canon, drawn>>

EmptyCanon == [c \in Chapters |-> NoRun]

Init == canon = EmptyCanon /\ drawn = [r \in Runs |-> {}]

Draft(r) ==
  /\ drawn[r] = {}
  /\ drawn' = [drawn EXCEPT ![r] = {canon}]
  /\ UNCHANGED canon

Settle(r) ==
  /\ canon \in drawn[r]
  /\ \E c \in Chapters : canon' = [canon EXCEPT ![c] = r]
  /\ UNCHANGED drawn

Next == \E r \in Runs : Draft(r) \/ Settle(r)

Spec == Init /\ [][Next]_vars
=============================================================================
