-------------------------- MODULE AuthoringProofs --------------------------
(***************************************************************************)
(* Proofs about what an author prepares (MCAuthoring): plans and the Book  *)
(* Setup (PlanLedger), for any number of layers, setups, keys, authors,    *)
(* activations and crashes, and the book tree (StoryTopology), for any     *)
(* number of titles, keys and creations.                                   *)
(***************************************************************************)
EXTENDS MCAuthoring, FiniteSetTheorems, WellFoundedInduction, TLAPS

(***************************************************************************)
(* Numbers                                                                 *)
(***************************************************************************)

\* A set of numbers that is not empty has a least element.
LEMMA LeastElement ==
  ASSUME NEW S \in SUBSET Nat, S # {}
  PROVE  \E x \in S : \A y \in S : x <= y
<1> DEFINE less == {ss \in Nat \X Nat : ss[1] < ss[2]}
<1>1. IsWellFoundedOn(less, Nat) BY NatLessThanWellFounded, Zenon DEF OpToRel
<1>2. PICK x \in S : \A y \in S : ~ (<<y, x>> \in less)
  <2> HIDE DEF less
  <2> QED BY <1>1, WFMin
<1>3. ASSUME NEW y \in S PROVE x <= y
  <2>1. y \in Nat /\ x \in Nat /\ <<y, x>> \in Nat \X Nat OBVIOUS
  <2>2. <<y, x>>[1] = y /\ <<y, x>>[2] = x OBVIOUS
  <2>3. ~ (<<y, x>>[1] < <<y, x>>[2]) BY <1>2, <2>1, Zenon
  <2> QED BY <2>1, <2>2, <2>3
<1> QED BY <1>3

\* A bounded set of numbers with 0 has a greatest element: its least bound.
LEMMA GreatestElement ==
  ASSUME NEW n \in Nat, NEW S \in SUBSET (0..n), 0 \in S
  PROVE  \E x \in S : \A y \in S : x >= y
<1> DEFINE bounds == {b \in Nat : \A y \in S : b >= y}
<1>1. bounds \in SUBSET Nat /\ n \in bounds OBVIOUS
<1>2. PICK b \in bounds : \A c \in bounds : b <= c
  <2> HIDE DEF bounds
  <2> QED BY <1>1, LeastElement
<1>3. ASSUME b \notin S PROVE FALSE
  <2>1. b # 0 /\ b \in Nat BY <1>3
  <2>2. b - 1 \in Nat /\ ~(b <= b - 1) BY <2>1
  <2>3. \A y \in S : y \in Nat /\ y <= b /\ y # b BY <1>2, <1>3
  <2>4. \A y \in S : b - 1 >= y BY <2>1, <2>3
  <2>5. b - 1 \in bounds BY <2>2, <2>4
  <2> QED BY <1>2, <2>2, <2>5
<1> QED BY <1>2, <1>3

(***************************************************************************)
(* Plans and the Book Setup                                                *)
(***************************************************************************)

\* The versions of a target count the plans that were activated.
VersionsCounted ==
  /\ IsFiniteSet(plans) /\ Cardinality(plans) <= MaxActivations
  /\ \A p \in plans : p.version <= Cardinality(plans)

\* A plan of an approval is the book plan of its setup, in the version that
\* follows the one the setup was proposed under.
DecidedPlans ==
  \A p \in plans : p.decided # NoSetup =>
    /\ p.target = Book /\ p.body = BodyOf[p.decided]
    /\ proposals[p.decided].status # "none"
    /\ p.version = proposals[p.decided].planVersion + 1

\* A proposal was made under a head and a book plan that were current then.
ProposedBefore ==
  \A s \in Setups : proposals[s].status # "none" =>
    proposals[s].setupVersion <= head.version /\ proposals[s].planVersion <= ActiveVersion(Book)

\* An approval is that of a setup that was approved once.
ApprovedSetups == \A a \in approvals : proposals[a.setup].status \in {"approved", "superseded"}

\* The head is the approved setup and bound to the plan of its approval.
HeadBound ==
  \/ head = NoHead
  \/ /\ head.setup \in Setups /\ head.version <= head.plan /\ head.plan <= ActiveVersion(Book)
     /\ proposals[head.setup].status = "approved"
     /\ \E p \in plans : p.target = Book /\ p.version = head.plan /\ p.decided = head.setup

\* Between its transactions a request may be approved, and the active book
\* plan is its own.
ActivatedOwn ==
  pc = "activated" =>
    request \in Approvals /\ Approvable(request) /\ ResumesInterrupted(request)

\* An approval that was cut off left its plan, and its key is not used for
\* another setup before the head moves on.
InterruptedKept ==
  \A r \in interrupted :
    /\ proposals[r.setup].status # "none" /\ proposals[r.setup].setupVersion = r.version
    /\ \E p \in plans : p.decided = r.setup /\ p.author = r.author /\ p.key = r.key
    /\ (\E a \in approvals : a.key = r.key) => r.version < head.version

\* Without a crash every plan of an approval but that of the request in
\* progress belongs to a setup that was approved, and a proposal that
\* the head has passed is refused by its version of the book plan.
WithoutCrash ==
  crashes = 0 =>
    /\ incomplete = {}
    /\ \A p \in plans : p.decided # NoSetup =>
         \/ proposals[p.decided].status \in {"approved", "superseded"}
         \/ pc = "activated" /\ p.decided = request.setup
    /\ pc = "activated" =>
         /\ head.version = request.version
         /\ \A s \in Setups : proposals[s].status # "none" =>
              proposals[s].planVersion < ActiveVersion(Book)
    /\ \A s \in Setups : proposals[s].status # "none" =>
         proposals[s].setupVersion = head.version \/ proposals[s].planVersion < ActiveVersion(Book)

\* The inductive invariant of the ledger.
LedgerInv ==
  /\ TypeOK /\ VersionsCounted /\ DecidedPlans /\ ProposedBefore /\ ApprovedSetups
  /\ HeadBound /\ ActivatedOwn /\ InterruptedKept /\ WithoutCrash

\* What the proofs use of a version that is active.
ActiveFacts(t) ==
  /\ ActiveVersion(t) \in 0..Cardinality(plans)
  /\ \A p \in plans : p.target = t => p.version <= ActiveVersion(t)
  /\ HasActive(t) =>
       Active(t) \in plans /\ Active(t).target = t /\ Active(t).version = ActiveVersion(t)

\* The active version is the greatest one, and the active plan has it.
LEMMA ActiveIsGreatest ==
  ASSUME LedgerInv, NEW t \in Targets
  PROVE  ActiveFacts(t)
<1> DEFINE vs == Versions(t) \cup {0}
           n == Cardinality(plans)
<1>1. n \in Nat BY FS_CardinalityType DEF LedgerInv, VersionsCounted
<1>2. \A p \in plans : p.version \in Nat /\ p.version # 0 /\ p.version <= n
  BY DEF LedgerInv, TypeOK, VersionsCounted, Plans
<1>3. \A v \in Versions(t) : \E p \in plans : p.target = t /\ p.version = v BY DEF Versions
<1>4. \A p \in plans : p.target = t => p.version \in Versions(t) BY DEF Versions
<1>5. vs \in SUBSET (0..n) /\ 0 \in vs
  <2> HIDE DEF n
  <2> QED BY <1>1, <1>2, <1>3
<1>6. ActiveVersion(t) \in vs /\ \A y \in vs : ActiveVersion(t) >= y
  <2>1. ActiveVersion(t) = CHOOSE x \in vs : \A y \in vs : x >= y BY DEF ActiveVersion, Max
  <2> HIDE DEF vs, n
  <2>2. \E x \in vs : \A y \in vs : x >= y BY <1>1, <1>5, GreatestElement
  <2> QED BY <2>1, <2>2
<1>7. ActiveVersion(t) \in 0..n BY <1>5, <1>6
<1>8. \A p \in plans : p.target = t => p.version <= ActiveVersion(t)
  BY <1>1, <1>2, <1>4, <1>6, <1>7
<1>9. ASSUME HasActive(t)
      PROVE  Active(t) \in plans /\ Active(t).target = t /\ Active(t).version = ActiveVersion(t)
  <2>1. ActiveVersion(t) \in Versions(t) BY <1>6, <1>9 DEF HasActive
  <2> QED BY <1>3, <2>1 DEF Active
<1> QED BY <1>7, <1>8, <1>9 DEF ActiveFacts

\* Plans are determined by their target and version.
LEMMA ActiveIs ==
  ASSUME LedgerInv, NEW p \in plans, p.version = ActiveVersion(p.target)
  PROVE  HasActive(p.target) /\ Active(p.target) = p
<1>1. p.target \in Targets /\ p.version # 0 BY DEF LedgerInv, TypeOK, Plans, Targets
<1>2. HasActive(p.target) BY <1>1 DEF HasActive
<1>3. ActiveFacts(p.target) BY <1>1, ActiveIsGreatest
<1> QED BY <1>2, <1>3 DEF ActiveFacts, LedgerInv, TypeOK

\* A save gives its target the next version, and leaves the others.
LEMMA SavedIsActive ==
  ASSUME LedgerInv, NEW t \in Targets, NEW expected, NEW body, NEW key, NEW author, NEW decided,
         SaveAndActivateEditorPlan(t, expected, body, key, author, decided)
  PROVE  /\ ActiveVersion(t)' = ActiveVersion(t) + 1
         /\ \A u \in Targets \ {t} : ActiveVersion(u)' = ActiveVersion(u) /\ HasActive(u)' = HasActive(u)
         /\ Versions(t)' = Versions(t) \cup {expected + 1}
<1> DEFINE new == [target |-> t, version |-> expected + 1, body |-> body, deps |-> ActiveAncestors(t),
                   key |-> key, author |-> author, decided |-> decided]
<1>1. plans' = plans \cup {new} /\ ActiveVersion(t) = expected BY DEF SaveAndActivateEditorPlan
<1>2. new.target = t /\ new.version = expected + 1 OBVIOUS
<1> HIDE DEF new
<1>3. Versions(t)' = Versions(t) \cup {expected + 1} BY <1>1, <1>2 DEF Versions
<1>4. ASSUME NEW u \in Targets \ {t} PROVE ActiveVersion(u)' = ActiveVersion(u)
  <2>1. Versions(u)' = Versions(u) BY <1>1, <1>2 DEF Versions
  <2> QED BY <2>1 DEF ActiveVersion
<1>5. ActiveVersion(t)' = expected + 1
  <2> DEFINE vs == Versions(t) \cup {0}
             ws == Versions(t)' \cup {0}
  <2>1. ActiveFacts(t) /\ expected \in Nat
    <3>1. ActiveFacts(t) BY ActiveIsGreatest
    <3>2. Cardinality(plans) \in Nat BY FS_CardinalityType DEF LedgerInv, VersionsCounted
    <3> QED BY <1>1, <3>1, <3>2 DEF ActiveFacts
  <2>2. \A v \in vs : v \in Nat /\ v <= expected
    <3>1. \A p \in plans : p.version \in Nat BY DEF LedgerInv, TypeOK, Plans
    <3> QED BY <1>1, <2>1, <3>1 DEF ActiveFacts, Versions
  <2>3. ws = vs \cup {expected + 1} BY <1>3
  <2>4. ActiveVersion(t)' = CHOOSE x \in ws : \A y \in ws : x >= y BY DEF ActiveVersion, Max
  <2> HIDE DEF vs, ws
  <2>5. \A y \in ws : y \in Nat /\ expected + 1 >= y BY <2>1, <2>2, <2>3
  <2>6. expected + 1 \in ws BY <2>3
  <2>7. PICK x \in ws : x = ActiveVersion(t)' /\ \A y \in ws : x >= y BY <2>4, <2>5, <2>6
  <2> QED BY <2>5, <2>6, <2>7
<1> QED BY <1>1, <1>3, <1>4, <1>5 DEF HasActive

\* What a save leaves: the plans before and the new one, which is active.
SavedAs(t, new, body, key, author, decided) ==
  /\ plans' = plans \cup {new} /\ new \notin plans /\ new \in Plans
  /\ new.target = t /\ new.version = ActiveVersion(t) + 1
  /\ new.body = body /\ new.key = key /\ new.author = author /\ new.decided = decided
  /\ Active(t)' = new

\* The plans stay well typed and counted.
LEMMA SavedPlan ==
  ASSUME LedgerInv, NEW t \in Targets, NEW expected, NEW body \in Bodies, NEW key \in Keys,
         NEW author \in Authors \cup {Studio}, NEW decided \in Setups \cup {NoSetup},
         SaveAndActivateEditorPlan(t, expected, body, key, author, decided)
  PROVE  /\ \E new : SavedAs(t, new, body, key, author, decided)
         /\ (plans \subseteq Plans)'
         /\ (\A p, q \in plans : p.target = q.target /\ p.version = q.version => p = q)'
         /\ VersionsCounted'
<1> DEFINE new == [target |-> t, version |-> expected + 1, body |-> body, deps |-> ActiveAncestors(t),
                   key |-> key, author |-> author, decided |-> decided]
<1>1. /\ plans' = plans \cup {new} /\ ActiveVersion(t) = expected
      /\ Cardinality(plans) < MaxActivations /\ AncestorsActive(t)
  BY DEF SaveAndActivateEditorPlan
<1>2. IsFiniteSet(plans) /\ Cardinality(plans) \in Nat /\ MaxActivations \in Nat
  BY FS_CardinalityType, LedgerAssumption DEF LedgerInv, VersionsCounted
<1>3. ActiveFacts(t) /\ expected \in 0..Cardinality(plans) BY <1>1, ActiveIsGreatest DEF ActiveFacts
<1>4. new \in Plans
  <2>1. t \in Nat /\ \A a \in 1..t - 1 : a \in Targets BY LedgerAssumption DEF Targets
  <2>2. ASSUME NEW a \in 1..t - 1 PROVE ActiveVersion(a) \in 1..MaxActivations
    <3>1. a \in Targets BY <2>1
    <3>2. ActiveVersion(a) \in 0..Cardinality(plans) BY <3>1, ActiveIsGreatest DEF ActiveFacts
    <3>3. ActiveVersion(a) # 0 BY <1>1 DEF AncestorsActive, HasActive
    <3> QED BY <1>1, <1>2, <3>2, <3>3
  <2>3. ActiveAncestors(t) \in [1..t - 1 -> 1..MaxActivations] BY <2>2 DEF ActiveAncestors
  <2>4. expected + 1 \in 1..MaxActivations BY <1>1, <1>2, <1>3
  <2> HIDE <1>1
  <2> QED BY <2>3, <2>4 DEF Plans
<1>5. /\ new.target = t /\ new.version = expected + 1 /\ new.body = body /\ new.key = key
      /\ new.author = author /\ new.decided = decided
  OBVIOUS
<1> HIDE DEF new
<1>6. \A p \in plans : p.target = t => p.version \in Nat /\ p.version <= expected
  BY <1>1, <1>3 DEF ActiveFacts, LedgerInv, TypeOK, Plans
<1>7. new \notin plans BY <1>3, <1>2, <1>5, <1>6
<1>8. (\A p, q \in plans : p.target = q.target /\ p.version = q.version => p = q)'
  BY <1>1, <1>2, <1>3, <1>5, <1>6 DEF LedgerInv, TypeOK
<1>9. Active(t)' = new
  <2>1. ActiveVersion(t)' = expected + 1 BY <1>1, SavedIsActive
  <2> QED BY <1>1, <1>5, <1>8, <2>1 DEF Active
<1>10. IsFiniteSet(plans') /\ Cardinality(plans') = Cardinality(plans) + 1
  BY <1>1, <1>2, <1>7, FS_AddElement
<1>11. VersionsCounted'
  <2>1. \A p \in plans : p.version \in Nat /\ p.version <= Cardinality(plans)
    BY DEF LedgerInv, VersionsCounted, TypeOK, Plans
  <2> QED BY <1>1, <1>2, <1>3, <1>5, <1>10, <2>1 DEF VersionsCounted
<1>12. SavedAs(t, new, body, key, author, decided) BY <1>1, <1>4, <1>5, <1>7, <1>9 DEF SavedAs
<1>13. plans' \subseteq Plans BY <1>1, <1>4 DEF LedgerInv, TypeOK
<1> QED BY <1>8, <1>11, <1>12, <1>13

\* An empty ledger satisfies the invariant.
LEMMA LedgerInit == Init => LedgerInv
<1> SUFFICES ASSUME Init PROVE LedgerInv OBVIOUS
<1>1. IsFiniteSet(plans) /\ Cardinality(plans) = 0 BY FS_EmptySet DEF Init
<1>2. TypeOK /\ VersionsCounted
  BY <1>1, LedgerAssumption DEF Init, TypeOK, VersionsCounted, NoProposal, NoHead, NoRequest
<1> QED BY <1>2 DEF Init, LedgerInv, DecidedPlans, ProposedBefore, ApprovedSetups, HeadBound, ActivatedOwn,
             InterruptedKept, WithoutCrash, NoProposal

\* Plans that are saved by an author: a new book plan takes no setup's place.
LEMMA PlanSavePreserves ==
  ASSUME LedgerInv, NEW t \in Targets, NEW v \in 0..MaxActivations, NEW b \in Bodies, NEW k \in Keys,
         PlanSave(t, v, b, k)
  PROVE  LedgerInv'
<1>1. /\ SaveAndActivateEditorPlan(t, v, b, k, Studio, NoSetup) /\ pc = "idle"
      /\ UNCHANGED <<proposals, approvals, head, pc, request, incomplete, interrupted, crashes>>
  BY DEF PlanSave, LockFree, setupVars, requestVars
<1>2. PICK new : SavedAs(t, new, b, k, Studio, NoSetup) BY <1>1, SavedPlan
<1>3. TypeOK' /\ VersionsCounted'
  <2>1. /\ (plans \subseteq Plans)' /\ VersionsCounted'
        /\ (\A p, q \in plans : p.target = q.target /\ p.version = q.version => p = q)'
    BY <1>1, SavedPlan
  <2> QED BY <1>1, <2>1 DEF LedgerInv, TypeOK, Approvals
<1>4. plans' = plans \cup {new} /\ new.decided = NoSetup BY <1>2 DEF SavedAs
<1>5. ActiveVersion(Book) \in Nat /\ ActiveVersion(Book)' \in Nat /\ ActiveVersion(Book) <= ActiveVersion(Book)'
  <2>1. Book \in Targets BY LedgerAssumption DEF Targets, Book
  <2>2. ActiveVersion(Book) \in Nat
    BY <2>1, ActiveIsGreatest, FS_CardinalityType DEF ActiveFacts, LedgerInv, VersionsCounted
  <2>3. ActiveVersion(Book)' \in {ActiveVersion(Book), ActiveVersion(Book) + 1}
    BY <1>1, <2>1, SavedIsActive
  <2> QED BY <2>2, <2>3
<1>6. DecidedPlans' BY <1>1, <1>4 DEF LedgerInv, DecidedPlans
<1>7. ProposedBefore' BY <1>1, <1>5 DEF LedgerInv, ProposedBefore, TypeOK
<1>8. ApprovedSetups' BY <1>1 DEF LedgerInv, ApprovedSetups
<1>9. HeadBound' BY <1>1, <1>4, <1>5 DEF LedgerInv, HeadBound, TypeOK
<1>10. ActivatedOwn' BY <1>1 DEF ActivatedOwn
<1>11. InterruptedKept' BY <1>1, <1>4 DEF LedgerInv, InterruptedKept
<1>12. WithoutCrash' BY <1>1, <1>4, <1>5 DEF LedgerInv, WithoutCrash, TypeOK
<1> QED BY <1>3, <1>6, <1>7, <1>8, <1>9, <1>10, <1>11, <1>12 DEF LedgerInv

\* The active plan depends on the plans only.
LEMMA SamePlans ==
  ASSUME UNCHANGED plans
  PROVE  UNCHANGED <<ActiveVersion(Book), Active(Book)>>
<1>1. Versions(Book)' = Versions(Book) BY DEF Versions
<1>2. ActiveVersion(Book)' = ActiveVersion(Book) BY <1>1 DEF ActiveVersion
<1> QED BY <1>2 DEF Active

\* The active version of the book is a number.
LEMMA BookVersion ==
  ASSUME LedgerInv
  PROVE  ActiveVersion(Book) \in 0..MaxActivations
<1>1. Book \in Targets BY LedgerAssumption DEF Targets, Book
<1>2. ActiveVersion(Book) \in 0..Cardinality(plans) BY <1>1, ActiveIsGreatest DEF ActiveFacts
<1>3. Cardinality(plans) \in Nat /\ Cardinality(plans) <= MaxActivations
  BY FS_CardinalityType DEF LedgerInv, VersionsCounted
<1> QED BY <1>2, <1>3, LedgerAssumption

\* A proposal is made under the current head and book plan.
LEMMA ProposePreserves ==
  ASSUME LedgerInv, NEW s \in Setups, NEW v \in 0..MaxActivations, NEW k \in Keys,
         BookSetupPropose(s, v, k)
  PROVE  LedgerInv'
<1> DEFINE row == [status |-> "proposal_ready", setupVersion |-> v, planVersion |-> ActiveVersion(Book),
                   key |-> k]
<1>1. /\ UNCHANGED <<plans, approvals, head, pc, request, incomplete, interrupted, crashes>>
      /\ pc = "idle" /\ v = head.version /\ proposals[s] = NoProposal
      /\ proposals' = [proposals EXCEPT ![s] = row]
  BY DEF BookSetupPropose, LockFree, requestVars
<1>2. UNCHANGED <<ActiveVersion(Book), Active(Book)>> BY <1>1, SamePlans
<1>3. ActiveVersion(Book) \in 0..MaxActivations BY BookVersion
<1>4. /\ row.status = "proposal_ready" /\ row.setupVersion = v /\ row.planVersion = ActiveVersion(Book)
      /\ row \in [status : {"none", "proposal_ready", "approved", "superseded"},
                  setupVersion : 0..MaxActivations, planVersion : 0..MaxActivations,
                  key : Keys \cup {NoKey}]
  BY <1>3
<1> HIDE DEF row
<1>5. proposals[s].status = "none" BY <1>1 DEF NoProposal
<1>6. /\ proposals'[s] = row /\ \A r \in Setups \ {s} : proposals'[r] = proposals[r]
  BY <1>1 DEF LedgerInv, TypeOK
<1>7. TypeOK' BY <1>1, <1>4 DEF LedgerInv, TypeOK, Approvals
<1>8. VersionsCounted' BY <1>1 DEF LedgerInv, VersionsCounted
<1>9. \A p \in plans : p.decided # NoSetup => p.decided \in Setups \ {s}
  BY <1>5 DEF LedgerInv, DecidedPlans, TypeOK, Plans
<1>10. DecidedPlans' BY <1>1, <1>6, <1>9 DEF LedgerInv, DecidedPlans
<1>11. ProposedBefore' BY <1>1, <1>2, <1>3, <1>4, <1>6 DEF LedgerInv, ProposedBefore, TypeOK
<1>12. ApprovedSetups' BY <1>1, <1>5, <1>6 DEF LedgerInv, ApprovedSetups, TypeOK
<1>13. HeadBound' BY <1>1, <1>2, <1>5, <1>6 DEF LedgerInv, HeadBound
<1>14. ActivatedOwn' BY <1>1 DEF ActivatedOwn
<1>15. InterruptedKept' BY <1>1, <1>5, <1>6 DEF LedgerInv, InterruptedKept, TypeOK, Approvals
<1>16. WithoutCrash' BY <1>1, <1>2, <1>4, <1>6, <1>9 DEF LedgerInv, WithoutCrash, TypeOK
<1> QED BY <1>7, <1>8, <1>10, <1>11, <1>12, <1>13, <1>14, <1>15, <1>16 DEF LedgerInv

\* The first transaction of an approval: its plan is the active one.
LEMMA ActivatePreserves ==
  ASSUME LedgerInv, NEW r \in Approvals, ActivateBookSetupPlan(r)
  PROVE  LedgerInv'
<1> DEFINE s == r.setup
           v == proposals[r.setup].planVersion
<1>1. /\ UNCHANGED <<proposals, approvals, head, incomplete, interrupted, crashes>>
      /\ pc = "idle" /\ pc' = "activated" /\ request' = r
      /\ Approvable(r) /\ ActiveVersion(Book) = v
      /\ SaveAndActivateEditorPlan(Book, v, BodyOf[s], r.key, r.author, s)
  BY DEF ActivateBookSetupPlan, LockFree, setupVars
<1>2. /\ s \in Setups /\ r.key \in Keys /\ r.author \in Authors /\ BodyOf[s] \in Bodies
      /\ r.version \in 0..MaxActivations /\ Book \in Targets /\ s # NoSetup
  BY LedgerAssumption DEF Approvals, Targets, Book, NoSetup
<1>3. /\ \E new : SavedAs(Book, new, BodyOf[s], r.key, r.author, s)
      /\ (plans \subseteq Plans)' /\ VersionsCounted'
      /\ (\A p, q \in plans : p.target = q.target /\ p.version = q.version => p = q)'
  BY <1>1, <1>2, SavedPlan
<1>4. PICK new : SavedAs(Book, new, BodyOf[s], r.key, r.author, s) BY <1>3
<1>5. ActiveVersion(Book)' = v + 1 /\ v \in 0..MaxActivations
  <2>1. ActiveVersion(Book)' = ActiveVersion(Book) + 1 BY <1>1, <1>2, SavedIsActive
  <2> QED BY <1>1, <2>1, BookVersion
<1>6. /\ plans' = plans \cup {new} /\ new.target = Book /\ new.version = v + 1
      /\ new.body = BodyOf[s] /\ new.key = r.key /\ new.author = r.author /\ new.decided = s
      /\ Active(Book)' = new
  BY <1>1, <1>4 DEF SavedAs
<1>7. proposals[s].status = "proposal_ready" /\ proposals[s].setupVersion = r.version
  BY <1>1 DEF Approvable
<1>8. TypeOK' BY <1>1, <1>3 DEF LedgerInv, TypeOK, Approvals
<1>9. DecidedPlans' BY <1>1, <1>6, <1>7 DEF LedgerInv, DecidedPlans
<1>10. ProposedBefore' BY <1>1, <1>5 DEF LedgerInv, ProposedBefore, TypeOK
<1>11. ApprovedSetups' BY <1>1 DEF LedgerInv, ApprovedSetups
<1>12. HeadBound' BY <1>1, <1>5, <1>6 DEF LedgerInv, HeadBound, TypeOK
<1>13. ActivatedOwn'
  BY <1>1, <1>5, <1>6 DEF ActivatedOwn, Approvable, ResumesInterrupted, Approvals
<1>14. InterruptedKept' BY <1>1, <1>6 DEF LedgerInv, InterruptedKept
<1>15. WithoutCrash'
  <2>1. SUFFICES ASSUME crashes = 0 PROVE WithoutCrash' BY <1>1 DEF WithoutCrash
  <2>2. \A q \in Setups : proposals[q].status # "none" => proposals[q].planVersion < ActiveVersion(Book)'
    BY <1>1, <1>5 DEF LedgerInv, ProposedBefore, TypeOK
  <2>3. head.version = r.version
    BY <2>1, <1>1, <1>2, <1>5, <1>7 DEF LedgerInv, WithoutCrash, TypeOK
  <2> QED BY <1>1, <1>6, <2>1, <2>2, <2>3 DEF LedgerInv, WithoutCrash
<1> QED BY <1>3, <1>8, <1>9, <1>10, <1>11, <1>12, <1>13, <1>14, <1>15 DEF LedgerInv

\* The request comes again: without a crash there is nothing to resume.
LEMMA ResumePreserves ==
  ASSUME LedgerInv, NEW r \in Approvals, ResumeApproval(r)
  PROVE  LedgerInv'
<1>1. /\ UNCHANGED <<plans, proposals, approvals, head, incomplete, interrupted, crashes>>
      /\ pc = "idle" /\ pc' = "activated" /\ request' = r /\ Approvable(r) /\ ResumesInterrupted(r)
  BY DEF ResumeApproval, LockFree, setupVars
<1>2. UNCHANGED <<ActiveVersion(Book), Active(Book)>> BY <1>1, SamePlans
<1>3. TypeOK' BY <1>1 DEF LedgerInv, TypeOK, Approvals
<1>4. ActivatedOwn' BY <1>1, <1>2 DEF ActivatedOwn, Approvable, ResumesInterrupted, Approvals
<1>5. crashes # 0
  <2>1. SUFFICES ASSUME crashes = 0 PROVE FALSE OBVIOUS
  <2>2. r.setup \in Setups /\ r.setup # NoSetup BY LedgerAssumption DEF Approvals, NoSetup
  <2>3. Book \in Targets BY LedgerAssumption DEF Targets, Book
  <2>4. HasActive(Book) BY <1>1, <2>2 DEF HasActive, ResumesInterrupted, LedgerInv, TypeOK
  <2>5. Active(Book) \in plans BY <2>3, <2>4, ActiveIsGreatest DEF ActiveFacts
  <2>6. proposals[r.setup].status \in {"approved", "superseded"}
    BY <1>1, <2>1, <2>2, <2>5 DEF LedgerInv, WithoutCrash, ResumesInterrupted
  <2> QED BY <1>1, <2>6 DEF Approvable
<1> QED BY <1>1, <1>2, <1>3, <1>4, <1>5 DEF LedgerInv, VersionsCounted, DecidedPlans, ProposedBefore,
         ApprovedSetups, HeadBound, InterruptedKept, WithoutCrash

\* Between the transactions no approval has the key of the request, and the
\* plan of the request is newer than that of the head.
LEMMA ActivatedFacts ==
  ASSUME LedgerInv, pc = "activated"
  PROVE  /\ request \in Approvals /\ request.setup \in Setups /\ request.setup # NoSetup
         /\ proposals[request.setup].status = "proposal_ready"
         /\ proposals[request.setup].setupVersion = request.version
         /\ \A a \in approvals : a.key # request.key
         /\ Active(Book) \in plans /\ Active(Book).target = Book
         /\ Active(Book).version = ActiveVersion(Book)
         /\ Active(Book).decided = request.setup /\ Active(Book).author = request.author
         /\ Active(Book).key = request.key /\ Active(Book).body = BodyOf[request.setup]
         /\ ActiveVersion(Book) \in 1..MaxActivations /\ head.version < ActiveVersion(Book)
<1> DEFINE s == request.setup
<1>1. request \in Approvals /\ Approvable(request) /\ ResumesInterrupted(request)
  BY DEF LedgerInv, ActivatedOwn
<1>2. s \in Setups /\ s # NoSetup BY <1>1, LedgerAssumption DEF Approvals, NoSetup
<1>3. proposals[s].status = "proposal_ready" /\ proposals[s].setupVersion = request.version
  BY <1>1 DEF Approvable
<1>4. \A a \in approvals : a.key # request.key
  BY <1>1, <1>3 DEF Approvable, LedgerInv, ApprovedSetups
<1>5. ActiveVersion(Book) \in 1..MaxActivations
  BY <1>1, <1>2, BookVersion DEF ResumesInterrupted, LedgerInv, TypeOK
<1>6. Book \in Targets BY LedgerAssumption DEF Targets, Book
<1>7. HasActive(Book) BY <1>5 DEF HasActive
<1>8. Active(Book) \in plans /\ Active(Book).target = Book /\ Active(Book).version = ActiveVersion(Book)
  BY <1>6, <1>7, ActiveIsGreatest DEF ActiveFacts
<1>9. head.version < ActiveVersion(Book)
  <2>1. CASE head = NoHead BY <2>1, <1>5 DEF NoHead
  <2>2. CASE head # NoHead
    <3>1. PICK p \in plans : p.target = Book /\ p.version = head.plan /\ p.decided = head.setup
      BY <2>2 DEF LedgerInv, HeadBound
    <3>2. /\ proposals[head.setup].status = "approved" /\ head.plan <= ActiveVersion(Book)
          /\ head.version <= head.plan /\ head.version \in Nat /\ head.plan \in Nat
      BY <2>2 DEF LedgerInv, HeadBound, TypeOK
    <3>3. head.plan # ActiveVersion(Book)
      BY <3>1, <3>2, <1>1, <1>3, <1>8 DEF ResumesInterrupted, LedgerInv, TypeOK
    <3> QED BY <3>2, <3>3, <1>5
  <2> QED BY <2>1, <2>2
<1> QED BY <1>1, <1>2, <1>3, <1>4, <1>5, <1>8, <1>9 DEF ResumesInterrupted

\* The second transaction: only the status of proposals changes.
LEMMA ApprovePreserves ==
  ASSUME LedgerInv, ApproveBookSetup
  PROVE  LedgerInv'
<1> DEFINE s == request.setup
<1>1. /\ UNCHANGED <<plans, incomplete, interrupted, crashes>>
      /\ pc = "activated" /\ pc' = "idle" /\ request' = NoRequest /\ SetupApprovable(request)
      /\ proposals' = [q \in Setups |->
           IF q = s THEN [proposals[q] EXCEPT !.status = "approved"]
           ELSE IF proposals[q].status = "approved" THEN [proposals[q] EXCEPT !.status = "superseded"]
           ELSE proposals[q]]
      /\ approvals' = approvals \cup {[setup |-> s, key |-> request.key,
                                       author |-> request.author, plan |-> ActiveVersion(Book)]}
      /\ head' = [setup |-> s, version |-> request.version + 1, plan |-> ActiveVersion(Book)]
  BY DEF ApproveBookSetup
<1>2. UNCHANGED <<ActiveVersion(Book), Active(Book)>> BY <1>1, SamePlans
<1>3. /\ request \in Approvals /\ s \in Setups /\ s # NoSetup
      /\ proposals[s].status = "proposal_ready" /\ proposals[s].setupVersion = request.version
      /\ Active(Book) \in plans /\ Active(Book).target = Book
      /\ Active(Book).version = ActiveVersion(Book) /\ Active(Book).decided = s
      /\ ActiveVersion(Book) \in 1..MaxActivations /\ head.version < ActiveVersion(Book)
      /\ head.version = request.version /\ head.version \in Nat
      /\ request.key \in Keys /\ request.author \in Authors
  BY <1>1, ActivatedFacts DEF SetupApprovable, LedgerInv, TypeOK, Approvals
<1>4. ASSUME NEW q \in Setups
      PROVE  /\ proposals'[q] \in [status : {"none", "proposal_ready", "approved", "superseded"},
                                   setupVersion : 0..MaxActivations, planVersion : 0..MaxActivations,
                                   key : Keys \cup {NoKey}]
             /\ proposals'[q].setupVersion = proposals[q].setupVersion
             /\ proposals'[q].planVersion = proposals[q].planVersion
             /\ proposals'[q].status =
                  IF q = s THEN "approved"
                  ELSE IF proposals[q].status = "approved" THEN "superseded" ELSE proposals[q].status
  <2>1. proposals[q] \in [status : {"none", "proposal_ready", "approved", "superseded"},
                          setupVersion : 0..MaxActivations, planVersion : 0..MaxActivations,
                          key : Keys \cup {NoKey}]
    BY DEF LedgerInv, TypeOK
  <2>2. proposals'[q] =
          IF q = s THEN [proposals[q] EXCEPT !.status = "approved"]
          ELSE IF proposals[q].status = "approved" THEN [proposals[q] EXCEPT !.status = "superseded"]
          ELSE proposals[q]
    BY <1>1
  <2> QED BY <2>1, <2>2
<1>5. /\ head'.setup = s /\ head'.version = head.version + 1 /\ head'.plan = ActiveVersion(Book)
      /\ head' \in [setup : Setups \cup {NoSetup}, version : 0..MaxActivations, plan : 0..MaxActivations]
  <2>1. head.version + 1 \in 0..MaxActivations /\ ActiveVersion(Book) \in 0..MaxActivations
    BY <1>3, LedgerAssumption
  <2>2. head' = [setup |-> s, version |-> head.version + 1, plan |-> ActiveVersion(Book)] BY <1>1, <1>3
  <2> HIDE DEF s
  <2> QED BY <1>3, <2>1, <2>2
<1>6. /\ \A a \in approvals' : a \in approvals \/ a.setup = s
      /\ approvals' \subseteq [setup : Setups, key : Keys, author : Authors, plan : 1..MaxActivations]
  BY <1>1, <1>3 DEF LedgerInv, TypeOK
<1>7. proposals' \in [Setups -> [status : {"none", "proposal_ready", "approved", "superseded"},
                                setupVersion : 0..MaxActivations, planVersion : 0..MaxActivations,
                                key : Keys \cup {NoKey}]]
  <2>1. \E f : proposals' = [q \in Setups |-> f[q]]
    <3> DEFINE f == [q \in Setups |->
                       IF q = s THEN [proposals[q] EXCEPT !.status = "approved"]
                       ELSE IF proposals[q].status = "approved" THEN [proposals[q] EXCEPT !.status = "superseded"]
                       ELSE proposals[q]]
    <3>1. proposals' = f BY <1>1
    <3> QED BY <3>1
  <2> QED BY <1>4, <2>1
<1>8. TypeOK' BY <1>1, <1>5, <1>6, <1>7 DEF LedgerInv, TypeOK, Approvals
<1>9. VersionsCounted' BY <1>1 DEF LedgerInv, VersionsCounted
<1>10. \A p \in plans : p.decided \in Setups \cup {NoSetup} BY DEF LedgerInv, TypeOK, Plans
<1>11. DecidedPlans' BY <1>1, <1>4, <1>10 DEF LedgerInv, DecidedPlans
<1>12. ProposedBefore' BY <1>2, <1>3, <1>4, <1>5 DEF LedgerInv, ProposedBefore, TypeOK
<1>13. ApprovedSetups' BY <1>3, <1>4, <1>6 DEF LedgerInv, ApprovedSetups, TypeOK
<1>14. HeadBound' BY <1>1, <1>2, <1>3, <1>4, <1>5 DEF HeadBound
<1>15. ActivatedOwn' BY <1>1 DEF ActivatedOwn
<1>16. InterruptedKept'
  <2>1. SUFFICES ASSUME NEW r \in interrupted
        PROVE  /\ proposals'[r.setup].status # "none" /\ proposals'[r.setup].setupVersion = r.version
               /\ \E p \in plans : p.decided = r.setup /\ p.author = r.author /\ p.key = r.key
               /\ r.version < head'.version
    BY <1>1 DEF InterruptedKept
  <2>2. r.setup \in Setups BY DEF LedgerInv, TypeOK, Approvals
  <2>3. /\ proposals[r.setup].status # "none" /\ proposals[r.setup].setupVersion = r.version
        /\ \E p \in plans : p.decided = r.setup /\ p.author = r.author /\ p.key = r.key
    BY DEF LedgerInv, InterruptedKept
  <2>4. r.version <= head.version /\ r.version \in Nat
    BY <2>2, <2>3 DEF LedgerInv, ProposedBefore, TypeOK
  <2> QED BY <1>3, <1>4, <1>5, <2>2, <2>3, <2>4
<1>17. WithoutCrash'
  <2>1. SUFFICES ASSUME crashes = 0 PROVE WithoutCrash' BY <1>1 DEF WithoutCrash
  <2>2. \A q \in Setups : proposals[q].status # "none" => proposals[q].planVersion < ActiveVersion(Book)
    BY <1>1, <2>1 DEF LedgerInv, WithoutCrash
  <2>3. \A q \in Setups : proposals'[q].status # "none" => proposals'[q].planVersion < ActiveVersion(Book)'
    BY <1>2, <1>3, <1>4, <2>2
  <2>4. ASSUME NEW p \in plans, p.decided # NoSetup
        PROVE  proposals'[p.decided].status \in {"approved", "superseded"}
    BY <1>1, <1>4, <1>10, <2>1, <2>4 DEF LedgerInv, WithoutCrash
  <2> QED BY <1>1, <2>1, <2>3, <2>4 DEF LedgerInv, WithoutCrash
<1> QED BY <1>8, <1>9, <1>11, <1>12, <1>13, <1>14, <1>15, <1>16, <1>17 DEF LedgerInv

\* The ends of a request without its second transaction.
LEMMA UnapprovedPreserves ==
  ASSUME LedgerInv, AnswerIncomplete \/ Crash \/ UNCHANGED vars
  PROVE  LedgerInv'
<1>1. /\ UNCHANGED <<plans, proposals, approvals, head>>
      /\ UNCHANGED <<ActiveVersion(Book), Active(Book)>>
  BY SamePlans DEF AnswerIncomplete, Crash, vars, setupVars
<1>2. /\ VersionsCounted' /\ DecidedPlans' /\ ProposedBefore' /\ ApprovedSetups' /\ HeadBound'
  BY <1>1 DEF LedgerInv, VersionsCounted, DecidedPlans, ProposedBefore, ApprovedSetups, HeadBound
<1>3. CASE AnswerIncomplete
  <2>1. /\ pc = "activated" /\ pc' = "idle" /\ request' = NoRequest /\ ~SetupApprovable(request)
        /\ incomplete' = incomplete \cup {request} /\ UNCHANGED <<interrupted, crashes>>
    BY <1>3 DEF AnswerIncomplete
  <2>2. TypeOK' BY <1>1, <2>1, ActivatedFacts DEF LedgerInv, TypeOK
  <2>3. ActivatedOwn' /\ InterruptedKept'
    BY <1>1, <2>1 DEF LedgerInv, ActivatedOwn, InterruptedKept
  <2>4. crashes # 0
    BY <2>1, ActivatedFacts DEF LedgerInv, WithoutCrash, SetupApprovable
  <2> QED BY <1>2, <2>1, <2>2, <2>3, <2>4 DEF LedgerInv, WithoutCrash
<1>4. CASE Crash
  <2>1. /\ pc = "activated" /\ pc' = "idle" /\ request' = NoRequest /\ crashes < MaxCrashes
        /\ crashes' = crashes + 1 /\ interrupted' = interrupted \cup {request} /\ UNCHANGED incomplete
    BY <1>4 DEF Crash
  <2>2. TypeOK' BY <1>1, <2>1, ActivatedFacts, LedgerAssumption DEF LedgerInv, TypeOK
  <2>3. ActivatedOwn' BY <2>1 DEF ActivatedOwn
  <2>4. InterruptedKept' BY <1>1, <2>1, ActivatedFacts DEF LedgerInv, InterruptedKept
  <2>5. crashes' # 0 BY <2>1 DEF LedgerInv, TypeOK
  <2> QED BY <1>2, <2>2, <2>3, <2>4, <2>5 DEF LedgerInv, WithoutCrash
<1>5. CASE UNCHANGED vars
  BY <1>1, <1>2, <1>5 DEF LedgerInv, TypeOK, Approvals, ActivatedOwn, Approvable, ResumesInterrupted,
     InterruptedKept, WithoutCrash, vars, setupVars, requestVars
<1> QED BY <1>3, <1>4, <1>5

\* The invariant is inductive.
LEMMA LedgerStep ==
  ASSUME LedgerInv, [Next]_vars
  PROVE  LedgerInv'
BY PlanSavePreserves, ProposePreserves, ActivatePreserves, ResumePreserves, ApprovePreserves,
   UnapprovedPreserves
DEF Next

\* The creation of nodes leaves the ledger as it is.
THEOREM LedgerInvariant == AuthoringSpec => []LedgerInv
<1>1. AuthoringInit => LedgerInv BY LedgerInit DEF AuthoringInit
<1>2. LedgerInv /\ [AuthoringNext]_<<vars, topologyVars, subject>> => LedgerInv'
  BY LedgerStep DEF AuthoringNext
<1> QED BY <1>1, <1>2, PTL DEF AuthoringSpec

\* Plans, setups and the request in progress are well typed: no version
\* passes the number of activations (plan tables).
THEOREM LedgerTyped == AuthoringSpec => []TypeOK
<1>1. LedgerInv => TypeOK BY DEF LedgerInv
<1> QED BY LedgerInvariant, <1>1, PTL

\* Whatever is ready or can be written belongs to the one book that was
\* approved, also when approvals were cut off, resumed and overtaken
\* (book_setup_approve, require_book_setup_ready, active_plan_chain_for_chapter).
THEOREM BooksAreOne == AuthoringSpec => []OneBook
<1>1. LedgerInv => OneBook
  <2> SUFFICES ASSUME LedgerInv PROVE OneBook OBVIOUS
  <2>1. ASSUME BookSetupReady PROVE Active(Book).decided = head.setup /\ Active(Book).body = BodyOf[head.setup]
    <3>1. head # NoHead /\ head.plan = ActiveVersion(Book) BY <2>1 DEF BookSetupReady, HasHorizon
    <3>2. PICK p \in plans : p.target = Book /\ p.version = head.plan /\ p.decided = head.setup
      BY <3>1 DEF LedgerInv, HeadBound
    <3>3. head.setup \in Setups /\ head.setup # NoSetup
      BY <3>1, LedgerAssumption DEF LedgerInv, HeadBound, NoSetup
    <3>4. Active(Book) = p BY <3>1, <3>2, ActiveIs
    <3> QED BY <3>2, <3>3, <3>4 DEF LedgerInv, DecidedPlans
  <2>2. ASSUME Writable
        PROVE  /\ \A t \in Targets \ {Book} : Active(t).deps[Book] = head.plan
               /\ Active(Book).decided = head.setup
    <3>1. BookSetupReady /\ head.plan = ActiveVersion(Book) BY <2>2 DEF Writable, BookSetupReady
    <3>2. ASSUME NEW t \in Targets \ {Book} PROVE Active(t).deps[Book] = head.plan
      <4>1. Active(t).deps = ActiveAncestors(t) BY <2>2 DEF Writable, CurrentPlan
      <4>2. Book \in 1..t - 1 BY LedgerAssumption DEF Targets, Book
      <4> QED BY <3>1, <4>1, <4>2 DEF ActiveAncestors
    <3> QED BY <2>1, <3>1, <3>2
  <2> QED BY <2>1, <2>2 DEF OneBook, ReadyPlanIsSetups, WrittenUnderOneBook
<1> QED BY LedgerInvariant, <1>1, PTL

\* A save that is repeated never brings its plan back after another one has
\* replaced it (plan_save).
THEOREM SavesActivateOnce == AuthoringSpec => []KeysActivateOnce
<1>1. AuthoringInit => KeysActivateOnce BY DEF AuthoringInit, Init, KeysActivateOnce
<1>2. ASSUME LedgerInv, KeysActivateOnce, Next PROVE KeysActivateOnce'
  <2>1. ASSUME NEW t \in Targets, NEW v \in 0..MaxActivations, NEW b \in Bodies, NEW k \in Keys,
               PlanSave(t, v, b, k)
        PROVE  KeysActivateOnce'
    <3>1. PICK new : SavedAs(t, new, b, k, Studio, NoSetup) BY <1>2, <2>1, SavedPlan DEF PlanSave
    <3> QED BY <1>2, <2>1, <3>1 DEF SavedAs, KeysActivateOnce, PlanSave, KeyUnused
  <2>2. ASSUME NEW r \in Approvals, ActivateBookSetupPlan(r) PROVE KeysActivateOnce'
    <3>1. /\ r.setup \in Setups /\ r.key \in Keys /\ r.author \in Authors /\ BodyOf[r.setup] \in Bodies
          /\ Book \in Targets /\ r.setup # NoSetup
      BY LedgerAssumption DEF Approvals, Targets, Book, NoSetup
    <3>2. PICK new : SavedAs(Book, new, BodyOf[r.setup], r.key, r.author, r.setup)
      BY <1>2, <2>2, <3>1, SavedPlan DEF ActivateBookSetupPlan
    <3> QED BY <1>2, <3>1, <3>2 DEF SavedAs, KeysActivateOnce
  <2>3. ASSUME UNCHANGED plans PROVE KeysActivateOnce' BY <1>2, <2>3 DEF KeysActivateOnce
  <2> QED BY <1>2, <2>1, <2>2, <2>3
       DEF Next, BookSetupPropose, ResumeApproval, ApproveBookSetup, AnswerIncomplete, Crash
<1>3. LedgerInv /\ KeysActivateOnce /\ [AuthoringNext]_<<vars, topologyVars, subject>> => KeysActivateOnce'
  <2>1. KeysActivateOnce /\ UNCHANGED plans => KeysActivateOnce' BY DEF KeysActivateOnce
  <2> QED BY <1>2, <2>1 DEF AuthoringNext, vars
<1> QED BY <1>1, <1>3, LedgerInvariant, PTL DEF AuthoringSpec

\* The two transactions of an approval are one, up to a crash, and one that
\* the same request completes after it (book_setup_approve).
THEOREM ApprovalsAreWhole == AuthoringSpec => []ApprovalIsWhole
<1>1. LedgerInv => ApprovalIsWhole
  <2> SUFFICES ASSUME LedgerInv PROVE ApprovalIsWhole OBVIOUS
  <2>1. ASSUME NEW r \in interrupted,
               HasActive(Book), Active(Book).decided = r.setup, Active(Book).key = r.key,
               proposals[r.setup].status = "proposal_ready", head.version = r.version
        PROVE  Approvable(r) /\ ResumesInterrupted(r) /\ SetupApprovable(r)
    <3>1. /\ proposals[r.setup].setupVersion = r.version
          /\ (\E a \in approvals : a.key = r.key) => r.version < head.version
      BY <2>1 DEF LedgerInv, InterruptedKept
    <3>2. \A a \in approvals : a.key # r.key BY <2>1, <3>1 DEF LedgerInv, TypeOK
    <3>3. PICK p \in plans : p.decided = r.setup /\ p.author = r.author /\ p.key = r.key
      BY DEF LedgerInv, InterruptedKept
    <3>4. Book \in Targets BY LedgerAssumption DEF Targets, Book
    <3>5. Active(Book) \in plans /\ Active(Book).target = Book /\ Active(Book).version = ActiveVersion(Book)
      BY <2>1, <3>4, ActiveIsGreatest DEF ActiveFacts
    <3>6. r.setup # NoSetup BY LedgerAssumption DEF LedgerInv, TypeOK, Approvals, NoSetup
    <3>7. /\ ActiveVersion(Book) = proposals[r.setup].planVersion + 1
          /\ Active(Book).body = BodyOf[r.setup] /\ p.target = Book
          /\ p.version = proposals[r.setup].planVersion + 1
      BY <2>1, <3>3, <3>5, <3>6 DEF LedgerInv, DecidedPlans
    <3>8. Active(Book) = p BY <3>5, <3>7 DEF LedgerInv, TypeOK
    <3> QED BY <2>1, <3>1, <3>2, <3>3, <3>7, <3>8 DEF Approvable, ResumesInterrupted, SetupApprovable
  <2>2. IncompleteOnlyAfterCrash BY DEF LedgerInv, WithoutCrash, TypeOK, IncompleteOnlyAfterCrash
  <2> QED BY <2>1, <2>2 DEF ApprovalIsWhole, InterruptedIsResumable
<1> QED BY LedgerInvariant, <1>1, PTL

(***************************************************************************)
(* The book tree                                                           *)
(***************************************************************************)

\* Numbers and places count the nodes that were created.
NodesCounted ==
  /\ IsFiniteSet(asked) /\ Cardinality(asked) <= MaxCreations
  /\ \A i \in DOMAIN nodes :
       i.n <= Cardinality(asked) + 1 /\ nodes[i].ordinal <= Cardinality(asked) + 1
  /\ \A a \in asked : a.node \in DOMAIN nodes

\* A receipt says what its node is.
Names(receipt) ==
  /\ receipt.node \in DOMAIN nodes /\ receipt.node.kind = receipt.kind
  /\ nodes[receipt.node].title = receipt.title /\ nodes[receipt.node].parent = receipt.parent

\* Every receipt of a creation names its node.
ReceiptsTrue ==
  \A k \in Keys :
    /\ chapterReceipts[k] # Topology!NoReceipt => Names(chapterReceipts[k])
    /\ receipts[k] \notin {Topology!NoReceipt, Topology!OtherReceipt} => Names(receipts[k])

\* What was answered is in the receipt of its key.
AskedAnswered ==
  \A a \in asked :
    /\ Topology!SameRequest(a.request) /\ Topology!ReceiptOf(a.request).node = a.node
    /\ Topology!ReceiptOf(a.request) # Topology!NoReceipt

\* The inductive invariant of the tree.
TopologyInv ==
  /\ Topology!TypeOK /\ Topology!ValidateNovelTopology(nodes, documents) /\ ~refused
  /\ NodesCounted /\ ReceiptsTrue /\ AskedAnswered

\* Cardinality is the same in StoryTopology.
LEMMA SameCardinality == ASSUME NEW S PROVE Topology!Cardinality(S) = Cardinality(S)
BY Zenon DEF Topology!Cardinality, Cardinality

\* The kinds that are created, and the kinds above them.
LEMMA Expected ==
  /\ DOMAIN Topology!ExpectedParent = {"volume", "unit", "chapter"}
  /\ Topology!ExpectedParent["volume"] = "book" /\ Topology!ExpectedParent["unit"] = "volume"
  /\ Topology!ExpectedParent["chapter"] = "unit"
BY DEF Topology!ExpectedParent

\* The number after the greatest one is greater than all.
LEMMA AfterGreatest ==
  ASSUME NEW n \in Nat, NEW S \in SUBSET (1..n)
  PROVE  /\ Topology!Max(S \cup {0}) + 1 \in 1..(n + 1)
         /\ \A y \in S : y < Topology!Max(S \cup {0}) + 1
<1> DEFINE T == S \cup {0}
<1>1. T \in SUBSET (0..n) /\ 0 \in T OBVIOUS
<1>2. Topology!Max(T) = CHOOSE x \in T : \A y \in T : x >= y BY DEF Topology!Max
<1>3. S \subseteq T OBVIOUS
<1> HIDE DEF T
<1>4. \E x \in T : \A y \in T : x >= y BY <1>1, GreatestElement
<1>5. Topology!Max(T) \in T /\ \A y \in T : Topology!Max(T) >= y BY <1>2, <1>4
<1>6. Topology!Max(T) \in 0..n BY <1>1, <1>5
<1>7. \A y \in S : y \in Nat /\ Topology!Max(T) >= y BY <1>3, <1>5
<1>8. Topology!Max(T) + 1 \in 1..(n + 1) /\ \A y \in S : y < Topology!Max(T) + 1 BY <1>6, <1>7
<1> QED BY <1>8 DEF T

\* A new project satisfies the invariant.
LEMMA TopologyInit == Topology!Init => TopologyInv
<1> SUFFICES ASSUME Topology!Init PROVE TopologyInv OBVIOUS
<1> DEFINE first == {[kind |-> k, n |-> 1] : k \in Topology!Kinds}
<1>1. PICK t \in Titles :
        nodes = [i \in first |->
                  [parent |-> IF i.kind = "book" THEN Topology!NoNode
                              ELSE [kind |-> Topology!ExpectedParent[i.kind], n |-> 1],
                   ordinal |-> 1, title |-> t]]
  BY DEF Topology!Init
<1>2. DOMAIN nodes = first BY <1>1
<1>3. \A i \in first : i.n = 1 /\ i.kind \in Topology!Kinds /\ i = [kind |-> i.kind, n |-> 1] OBVIOUS
<1>4. \A k \in Topology!Kinds : [kind |-> k, n |-> 1] \in first /\ [kind |-> k, n |-> 1].kind = k OBVIOUS
<1>5. ASSUME NEW i \in DOMAIN nodes
      PROVE  /\ nodes[i].ordinal = 1 /\ nodes[i].title = t
             /\ nodes[i].parent = IF i.kind = "book" THEN Topology!NoNode
                                  ELSE [kind |-> Topology!ExpectedParent[i.kind], n |-> 1]
  BY <1>1, <1>2
<1>6. ASSUME NEW i \in DOMAIN nodes, nodes[i].parent \in Topology!Ids \cup {Topology!NoNode}
       PROVE  nodes[i] \in Topology!Nodes
  <2> DEFINE parent == nodes[i].parent
  <2>1. nodes[i] = [parent |-> parent, ordinal |-> 1, title |-> t] BY <1>1, <1>2
  <2> HIDE DEF parent
  <2>2. parent \in Topology!Ids \cup {Topology!NoNode} BY <1>6 DEF parent
  <2> QED BY <2>1, <2>2, TopologyAssumption DEF Topology!Nodes
<1> HIDE DEF first
<1>7. DOMAIN nodes \subseteq Topology!Ids
  BY <1>2, <1>3, TopologyAssumption DEF Topology!Ids
<1>8. \A k \in Topology!Kinds : Topology!OfKind(nodes, k) = {[kind |-> k, n |-> 1]}
  BY <1>2, <1>3, <1>4 DEF Topology!OfKind
<1>9. \A i \in DOMAIN nodes : IF i.kind = "book" THEN nodes[i].parent = Topology!NoNode
        ELSE nodes[i].parent \in Topology!OfKind(nodes, Topology!ExpectedParent[i.kind])
  <2> SUFFICES ASSUME NEW i \in DOMAIN nodes, i.kind # "book"
      PROVE  nodes[i].parent \in Topology!OfKind(nodes, Topology!ExpectedParent[i.kind])
    BY <1>5
  <2>1. i.kind \in {"volume", "unit", "chapter"} BY <1>2, <1>3 DEF Topology!Kinds
  <2>2. Topology!ExpectedParent[i.kind] \in Topology!Kinds BY <2>1, Expected DEF Topology!Kinds
  <2>3. nodes[i].parent = [kind |-> Topology!ExpectedParent[i.kind], n |-> 1] BY <1>5
  <2> QED BY <1>8, <2>2, <2>3
<1>10. Topology!WellFormed(nodes)
  <2>1. \A i, j \in DOMAIN nodes : i.kind = j.kind => i = j BY <1>2, <1>3
  <2>2. ASSUME NEW i \in DOMAIN nodes PROVE nodes[i].ordinal > 0
    <3>1. nodes[i].ordinal = 1 BY <1>5
    <3> QED BY <3>1
  <2> QED BY <1>9, <2>1, <2>2 DEF Topology!WellFormed
<1>11. Topology!Cardinality(Topology!OfKind(nodes, "book")) = 1
  BY <1>8, SameCardinality, FS_Singleton DEF Topology!Kinds
<1>12. Topology!ValidateNovelTopology(nodes, documents)
  BY <1>8, <1>10, <1>11 DEF Topology!ValidateNovelTopology, Topology!Init, Topology!Kinds
<1>13. asked = {} /\ IsFiniteSet(asked) /\ Cardinality(asked) = 0 BY FS_EmptySet DEF Topology!Init
<1>14. NodesCounted
  <2>1. \A i \in DOMAIN nodes : i.n = 1 /\ nodes[i].ordinal = 1 BY <1>2, <1>3, <1>5
  <2> QED BY <1>13, <2>1, TopologyAssumption DEF NodesCounted
<1>15. ASSUME NEW i \in DOMAIN nodes PROVE nodes[i] \in Topology!Nodes
  <2>1. nodes[i].parent \in Topology!Ids \cup {Topology!NoNode}
    BY <1>7, <1>9 DEF Topology!OfKind
  <2> QED BY <1>6, <2>1
<1>16. documents \subseteq Topology!Ids
  BY TopologyAssumption DEF Topology!Init, Topology!Ids, Topology!Kinds
<1>17. Topology!TypeOK BY <1>7, <1>13, <1>15, <1>16 DEF Topology!TypeOK, Topology!Init
<1> QED BY <1>12, <1>13, <1>14, <1>17 DEF TopologyInv, ReceiptsTrue, AskedAnswered, Topology!Init

\* The number and the place of a new node are after all the others'.
LEMMA NextIsNew ==
  ASSUME TopologyInv, NEW kind, NEW parent
  PROVE  LET id == Topology!NextId(kind)
             ordinal == Topology!NextOrdinal(parent, kind)
         IN /\ id.kind = kind /\ id = [kind |-> kind, n |-> id.n] /\ id \notin DOMAIN nodes
            /\ id.n \in 1..(Cardinality(asked) + 2) /\ ordinal \in 1..(Cardinality(asked) + 2)
            /\ \A i \in Topology!Children(nodes, parent, kind) : nodes[i].ordinal < ordinal
<1> DEFINE id == Topology!NextId(kind)
           ordinal == Topology!NextOrdinal(parent, kind)
           numbers == {i.n : i \in Topology!OfKind(nodes, kind)}
           places == {nodes[i].ordinal : i \in Topology!Children(nodes, parent, kind)}
           c == Cardinality(asked) + 1
<1>1. c \in Nat /\ c + 1 = Cardinality(asked) + 2
  BY FS_CardinalityType DEF TopologyInv, NodesCounted
<1>2. \A i \in DOMAIN nodes : i.n \in 1..c /\ nodes[i].ordinal \in 1..c
  <2> SUFFICES ASSUME NEW i \in DOMAIN nodes PROVE i.n \in 1..c /\ nodes[i].ordinal \in 1..c OBVIOUS
  <2>1. i.n \in Nat \ {0} /\ nodes[i].ordinal \in Nat \ {0}
    BY TopologyAssumption DEF TopologyInv, Topology!TypeOK, Topology!Ids, Topology!Nodes
  <2>2. i.n <= c /\ nodes[i].ordinal <= c BY DEF TopologyInv, NodesCounted
  <2> HIDE DEF c
  <2> QED BY <1>1, <2>1, <2>2
<1> HIDE DEF c
<1>3. numbers \in SUBSET (1..c) BY <1>2 DEF Topology!OfKind
<1>4. places \in SUBSET (1..c) BY <1>2 DEF Topology!Children, Topology!OfKind
<1>5. id = [kind |-> kind, n |-> Topology!Max(numbers \cup {0}) + 1] BY DEF Topology!NextId
<1>6. ordinal = Topology!Max(places \cup {0}) + 1 BY DEF Topology!NextOrdinal
<1>7. \A i \in Topology!OfKind(nodes, kind) : i.n \in numbers OBVIOUS
<1>8. \A i \in Topology!Children(nodes, parent, kind) : nodes[i].ordinal \in places OBVIOUS
<1> HIDE DEF numbers, places, id, ordinal
<1>9. id.n \in 1..(c + 1) /\ \A y \in numbers : y < id.n BY <1>1, <1>3, <1>5, AfterGreatest
<1>10. ordinal \in 1..(c + 1) /\ \A y \in places : y < ordinal BY <1>1, <1>4, <1>6, AfterGreatest
<1>11. id.kind = kind /\ id = [kind |-> kind, n |-> id.n] BY <1>5
<1>12. id \notin DOMAIN nodes
  <2> SUFFICES ASSUME id \in DOMAIN nodes PROVE FALSE OBVIOUS
  <2>1. id.n \in numbers BY <1>7, <1>11 DEF Topology!OfKind
  <2>2. id.n < id.n /\ id.n \in Nat BY <1>9, <2>1
  <2> QED BY <2>2
<1> QED BY <1>1, <1>8, <1>9, <1>10, <1>11, <1>12 DEF id, ordinal

\* What a creation inserts is a valid tree.
LEMMA GrownIsValid ==
  ASSUME TopologyInv, NEW kind \in {"volume", "unit", "chapter"}, NEW parent, NEW id, NEW node, NEW tree, NEW docs,
         parent \in Topology!OfKind(nodes, Topology!ExpectedParent[kind]),
         id = Topology!NextId(kind),
         node.parent = parent, node.ordinal = Topology!NextOrdinal(parent, kind),
         tree = [i \in DOMAIN nodes \cup {id} |-> IF i = id THEN node ELSE nodes[i]],
         docs = IF kind = "chapter" THEN documents \cup {id} ELSE documents
  PROVE  Topology!ValidateNovelTopology(tree, docs)
<1>1. /\ id.kind = kind /\ id \notin DOMAIN nodes /\ node.ordinal \in Nat /\ node.ordinal > 0
      /\ \A i \in DOMAIN nodes : i.kind = kind /\ nodes[i].parent = parent => nodes[i].ordinal < node.ordinal
  BY NextIsNew, FS_CardinalityType DEF Topology!Children, Topology!OfKind, TopologyInv, NodesCounted
<1>2. /\ DOMAIN tree = DOMAIN nodes \cup {id} /\ tree[id] = node
      /\ \A i \in DOMAIN nodes : tree[i] = nodes[i]
  BY <1>1
<1>3. Topology!WellFormed(nodes) /\ Topology!Cardinality(Topology!OfKind(nodes, "book")) = 1
      /\ Topology!OfKind(nodes, "chapter") # {} /\ documents = Topology!OfKind(nodes, "chapter")
  BY DEF TopologyInv, Topology!ValidateNovelTopology
<1>4. \A k : Topology!OfKind(tree, k) = Topology!OfKind(nodes, k) \cup (IF k = kind THEN {id} ELSE {})
  BY <1>1, <1>2 DEF Topology!OfKind
<1>5. ASSUME NEW i \in DOMAIN tree, NEW j \in DOMAIN tree, i.kind = j.kind,
             tree[i].parent = tree[j].parent, tree[i].ordinal = tree[j].ordinal
      PROVE  i = j
  <2>1. \A k \in DOMAIN nodes : nodes[k].ordinal \in Nat
    BY TopologyAssumption DEF TopologyInv, Topology!TypeOK, Topology!Nodes
  <2>2. CASE i \in DOMAIN nodes /\ j \in DOMAIN nodes BY <1>2, <1>3, <1>5, <2>2 DEF Topology!WellFormed
  <2>3. CASE i \in DOMAIN nodes /\ j = id BY <1>1, <1>2, <1>5, <2>1, <2>3
  <2>4. CASE i = id /\ j \in DOMAIN nodes BY <1>1, <1>2, <1>5, <2>1, <2>4
  <2> QED BY <1>2, <2>2, <2>3, <2>4
<1>6. ASSUME NEW i \in DOMAIN tree
      PROVE  /\ tree[i].ordinal > 0
             /\ IF i.kind = "book" THEN tree[i].parent = Topology!NoNode
                ELSE tree[i].parent \in Topology!OfKind(tree, Topology!ExpectedParent[i.kind])
  <2>1. CASE i = id BY <1>1, <1>2, <1>4, <2>1
  <2>2. CASE i \in DOMAIN nodes BY <1>2, <1>3, <1>4, <2>2 DEF Topology!WellFormed
  <2> QED BY <1>2, <2>1, <2>2
<1>7. Topology!WellFormed(tree) BY <1>5, <1>6 DEF Topology!WellFormed
<1>8. Topology!OfKind(tree, "book") = Topology!OfKind(nodes, "book") BY <1>4
<1>9. Topology!OfKind(tree, "chapter") # {} /\ docs = Topology!OfKind(tree, "chapter") BY <1>3, <1>4
<1> QED BY <1>3, <1>7, <1>8, <1>9 DEF Topology!ValidateNovelTopology

\* A creation is never refused: it inserts its node and its receipt.
LEMMA CreateEffects ==
  ASSUME TopologyInv, NEW r \in Topology!PossibleRequests, Topology!Create(r)
  PROVE  \E id, parent, ordinal :
           LET receipt == [kind |-> r.kind, node |-> id, parent |-> parent, ordinal |-> ordinal,
                           title |-> r.title]
           IN /\ id.kind = r.kind /\ id = [kind |-> r.kind, n |-> id.n] /\ id \notin DOMAIN nodes
              /\ id.n \in 1..(Cardinality(asked) + 2) /\ ordinal \in 1..(Cardinality(asked) + 2)
              /\ parent \in DOMAIN nodes /\ r.parent \in {Topology!NoNode, parent}
              /\ Cardinality(asked) < MaxCreations
              /\ Topology!ReceiptOf(r) = Topology!NoReceipt
              /\ nodes' = [i \in DOMAIN nodes \cup {id} |->
                             IF i = id THEN [parent |-> parent, ordinal |-> ordinal, title |-> r.title]
                             ELSE nodes[i]]
              /\ documents' = IF r.kind = "chapter" THEN documents \cup {id} ELSE documents
              /\ IF r.kind = "chapter"
                 THEN chapterReceipts' = [chapterReceipts EXCEPT ![r.key] = receipt] /\ UNCHANGED receipts
                 ELSE receipts' = [receipts EXCEPT ![r.key] = receipt] /\ UNCHANGED chapterReceipts
              /\ asked' = asked \cup {[request |-> r, node |-> id]} /\ UNCHANGED refused
              /\ Topology!ValidateNovelTopology(nodes', documents')
<1> DEFINE parent == Topology!ParentOf(r)
           id == Topology!NextId(r.kind)
           ordinal == Topology!NextOrdinal(parent, r.kind)
           node == [parent |-> parent, ordinal |-> ordinal, title |-> r.title]
           tree == [i \in DOMAIN nodes \cup {id} |-> IF i = id THEN node ELSE nodes[i]]
           docs == IF r.kind = "chapter" THEN documents \cup {id} ELSE documents
           receipt == [kind |-> r.kind, node |-> id, parent |-> parent, ordinal |-> ordinal,
                       title |-> r.title]
<1>1. /\ Topology!ReceiptOf(r) = Topology!NoReceipt /\ Topology!Cardinality(asked) < MaxCreations
      /\ parent \in Topology!OfKind(nodes, Topology!ExpectedParent[r.kind])
      /\ IF Topology!ValidateNovelTopology(tree, docs)
         THEN /\ nodes' = tree /\ documents' = docs
              /\ IF r.kind = "chapter"
                 THEN chapterReceipts' = [chapterReceipts EXCEPT ![r.key] = receipt] /\ UNCHANGED receipts
                 ELSE receipts' = [receipts EXCEPT ![r.key] = receipt] /\ UNCHANGED chapterReceipts
              /\ asked' = asked \cup {[request |-> r, node |-> id]} /\ UNCHANGED refused
         ELSE refused' = TRUE
  <2>1. node.ordinal = ordinal OBVIOUS
  <2> QED BY <2>1, Zenon DEF Topology!Create
<1>2. r.kind \in {"volume", "unit", "chapter"} BY Expected DEF Topology!PossibleRequests
<1>3. Topology!ValidateNovelTopology(tree, docs)
  <2>1. node.parent = parent /\ node.ordinal = ordinal OBVIOUS
  <2> HIDE DEF parent, node
  <2> QED BY <1>1, <1>2, <2>1, GrownIsValid
<1>4. /\ id.kind = r.kind /\ id = [kind |-> r.kind, n |-> id.n] /\ id \notin DOMAIN nodes
      /\ id.n \in 1..(Cardinality(asked) + 2) /\ ordinal \in 1..(Cardinality(asked) + 2)
  BY NextIsNew
<1>5. /\ parent \in DOMAIN nodes /\ r.parent \in {Topology!NoNode, parent}
      /\ Cardinality(asked) < MaxCreations
  BY <1>1, SameCardinality DEF Topology!OfKind, Topology!ParentOf
<1> WITNESS id, parent, ordinal
<1> QED BY <1>1, <1>3, <1>4, <1>5

\* Creations keep the invariant: a receipt that was written stays, and its
\* node does not change.
LEMMA CreatePreserves ==
  ASSUME TopologyInv, NEW r \in Topology!PossibleRequests, Topology!Create(r)
  PROVE  TopologyInv'
<1>1. PICK id, parent, ordinal :
        /\ id.kind = r.kind /\ id = [kind |-> r.kind, n |-> id.n] /\ id \notin DOMAIN nodes
        /\ id.n \in 1..(Cardinality(asked) + 2) /\ ordinal \in 1..(Cardinality(asked) + 2)
        /\ parent \in DOMAIN nodes /\ r.parent \in {Topology!NoNode, parent}
        /\ Cardinality(asked) < MaxCreations
        /\ Topology!ReceiptOf(r) = Topology!NoReceipt
        /\ nodes' = [i \in DOMAIN nodes \cup {id} |->
                       IF i = id THEN [parent |-> parent, ordinal |-> ordinal, title |-> r.title]
                       ELSE nodes[i]]
        /\ documents' = IF r.kind = "chapter" THEN documents \cup {id} ELSE documents
        /\ IF r.kind = "chapter"
           THEN chapterReceipts' = [chapterReceipts EXCEPT ![r.key] =
                  [kind |-> r.kind, node |-> id, parent |-> parent, ordinal |-> ordinal, title |-> r.title]]
                /\ UNCHANGED receipts
           ELSE receipts' = [receipts EXCEPT ![r.key] =
                  [kind |-> r.kind, node |-> id, parent |-> parent, ordinal |-> ordinal, title |-> r.title]]
                /\ UNCHANGED chapterReceipts
        /\ asked' = asked \cup {[request |-> r, node |-> id]} /\ UNCHANGED refused
        /\ Topology!ValidateNovelTopology(nodes', documents')
  BY CreateEffects
<1> DEFINE receipt == [kind |-> r.kind, node |-> id, parent |-> parent, ordinal |-> ordinal, title |-> r.title]
           node == [parent |-> parent, ordinal |-> ordinal, title |-> r.title]
           answer == [request |-> r, node |-> id]
<1>2. /\ r.kind \in {"volume", "unit", "chapter"} /\ r.title \in Titles /\ r.key \in Keys
      /\ r.parent \in DOMAIN nodes \cup {Topology!NoNode}
      /\ r.kind \in Topology!Kinds /\ r.kind \in DOMAIN Topology!ExpectedParent
  BY Expected DEF Topology!PossibleRequests, Topology!Kinds
<1>3. IsFiniteSet(asked) /\ Cardinality(asked) \in Nat /\ MaxCreations \in Nat
  BY FS_CardinalityType, TopologyAssumption DEF TopologyInv, NodesCounted
<1>4. id.n \in 1..(MaxCreations + 1) /\ ordinal \in 1..(MaxCreations + 1) BY <1>1, <1>3
<1>5. DOMAIN nodes \subseteq Topology!Ids BY DEF TopologyInv, Topology!TypeOK
<1>6. id \in Topology!Ids
  <2>1. [kind |-> r.kind, n |-> id.n] \in Topology!Ids BY <1>2, <1>4 DEF Topology!Ids
  <2> QED BY <1>1, <2>1
<1>7. node \in Topology!Nodes /\ node.parent = parent /\ node.ordinal = ordinal /\ node.title = r.title
  BY <1>1, <1>2, <1>4, <1>5 DEF Topology!Nodes
<1>8. /\ receipt \in Topology!Receipts /\ receipt.kind = r.kind /\ receipt.node = id
      /\ receipt.parent = parent /\ receipt.title = r.title
  BY <1>1, <1>2, <1>4, <1>5, <1>6 DEF Topology!Receipts
<1>9. receipt # Topology!NoReceipt /\ receipt # Topology!OtherReceipt
  <2>1. Topology!NoReceipt.kind = "none" /\ Topology!OtherReceipt.kind = "other"
    BY DEF Topology!NoReceipt, Topology!OtherReceipt
  <2> HIDE DEF receipt
  <2> QED BY <1>2, <1>8, <2>1
<1>10. /\ DOMAIN nodes' = DOMAIN nodes \cup {id} /\ nodes'[id] = node
       /\ \A i \in DOMAIN nodes : nodes'[i] = nodes[i]
  BY <1>1
<1>11. answer \in [request : Topology!Requests, node : Topology!Ids] /\ answer.request = r /\ answer.node = id
  <2>1. r \in Topology!Requests BY <1>5, <1>2 DEF Topology!PossibleRequests, Topology!Requests
  <2> QED BY <1>6, <2>1
<1>12. asked' = asked \cup {answer} /\ answer \notin asked
  BY <1>1, <1>11 DEF TopologyInv, NodesCounted
<1>13. \/ r.kind = "chapter" /\ chapterReceipts' = [chapterReceipts EXCEPT ![r.key] = receipt]
          /\ UNCHANGED receipts /\ chapterReceipts[r.key] = Topology!NoReceipt
       \/ r.kind # "chapter" /\ receipts' = [receipts EXCEPT ![r.key] = receipt]
          /\ UNCHANGED chapterReceipts /\ receipts[r.key] = Topology!NoReceipt
  BY <1>1 DEF Topology!ReceiptOf
<1> HIDE DEF receipt, node, answer
<1>14. Topology!TypeOK'
  <2>1. \A i \in DOMAIN nodes' : i \in Topology!Ids /\ nodes'[i] \in Topology!Nodes
    BY <1>5, <1>6, <1>7, <1>10 DEF TopologyInv, Topology!TypeOK
  <2>2. documents' \subseteq Topology!Ids BY <1>1, <1>6 DEF TopologyInv, Topology!TypeOK
  <2>3. /\ chapterReceipts' \in [Keys -> Topology!Receipts \cup {Topology!NoReceipt}]
        /\ receipts' \in [Keys -> Topology!Receipts \cup {Topology!NoReceipt, Topology!OtherReceipt}]
    BY <1>2, <1>8, <1>13 DEF TopologyInv, Topology!TypeOK
  <2>4. asked' \subseteq [request : Topology!Requests, node : Topology!Ids]
    BY <1>11, <1>12 DEF TopologyInv, Topology!TypeOK
  <2>5. refused' \in BOOLEAN BY <1>1 DEF TopologyInv, Topology!TypeOK
  <2> QED BY <2>1, <2>2, <2>3, <2>4, <2>5 DEF Topology!TypeOK
<1>15. NodesCounted'
  <2>1. IsFiniteSet(asked') /\ Cardinality(asked') = Cardinality(asked) + 1
    BY <1>3, <1>12, FS_AddElement
  <2>2. \A i \in DOMAIN nodes : i.n \in Nat /\ nodes[i].ordinal \in Nat
    BY <1>3 DEF TopologyInv, Topology!TypeOK, Topology!Ids, Topology!Nodes
  <2>3. \A i \in DOMAIN nodes' : i.n <= Cardinality(asked) + 2 /\ nodes'[i].ordinal <= Cardinality(asked) + 2
    BY <1>1, <1>3, <1>7, <1>10, <2>2 DEF TopologyInv, NodesCounted
  <2>4. \A a \in asked' : a.node \in DOMAIN nodes'
    BY <1>10, <1>11, <1>12 DEF TopologyInv, NodesCounted
  <2>5. Cardinality(asked') + 1 = Cardinality(asked) + 2 /\ Cardinality(asked') <= MaxCreations
    BY <1>1, <1>3, <2>1
  <2> QED BY <2>1, <2>3, <2>4, <2>5 DEF NodesCounted
<1> DEFINE NamesNow(x) == /\ x.node \in DOMAIN nodes' /\ x.node.kind = x.kind
                           /\ nodes'[x.node].title = x.title /\ nodes'[x.node].parent = x.parent
<1>16. (\A x : Names(x) => NamesNow(x)) /\ NamesNow(receipt)
  BY <1>1, <1>7, <1>8, <1>10 DEF Names
<1>17. ReceiptsTrue'
  <2>1. SUFFICES ASSUME NEW k \in Keys
        PROVE  /\ chapterReceipts'[k] # Topology!NoReceipt => NamesNow(chapterReceipts'[k])
               /\ receipts'[k] \notin {Topology!NoReceipt, Topology!OtherReceipt} => NamesNow(receipts'[k])
    BY DEF ReceiptsTrue, Names, Topology!NoReceipt, Topology!OtherReceipt, Topology!NoNode
  <2>2. chapterReceipts'[k] \in {chapterReceipts[k], receipt} /\ receipts'[k] \in {receipts[k], receipt}
    BY <1>13 DEF TopologyInv, Topology!TypeOK
  <2>3. /\ chapterReceipts[k] # Topology!NoReceipt => Names(chapterReceipts[k])
        /\ receipts[k] \notin {Topology!NoReceipt, Topology!OtherReceipt} => Names(receipts[k])
    BY DEF TopologyInv, ReceiptsTrue
  <2> HIDE DEF NamesNow
  <2> QED BY <1>16, <2>2, <2>3
<1>18. AskedAnswered'
  <2>1. SUFFICES ASSUME NEW a \in asked'
        PROVE  (/\ Topology!SameRequest(a.request) /\ Topology!ReceiptOf(a.request).node = a.node
                /\ Topology!ReceiptOf(a.request) # Topology!NoReceipt)'
    BY DEF AskedAnswered
  <2>2. CASE a = answer
    <3>1. Topology!ReceiptOf(a.request)' = receipt
      BY <1>2, <1>11, <1>13, <2>2 DEF Topology!ReceiptOf, TopologyInv, Topology!TypeOK
    <3> QED BY <1>1, <1>8, <1>9, <1>11, <2>2, <3>1
         DEF Topology!SameRequest, Topology!NoReceipt, Topology!NoNode
  <2>3. CASE a \in asked
    <3>1. /\ Topology!SameRequest(a.request) /\ Topology!ReceiptOf(a.request).node = a.node
          /\ Topology!ReceiptOf(a.request) # Topology!NoReceipt
      BY <2>3 DEF TopologyInv, AskedAnswered
    <3>2. a.request.key \in Keys BY <2>3 DEF TopologyInv, Topology!TypeOK, Topology!Requests
    <3>3. Topology!ReceiptOf(a.request)' = Topology!ReceiptOf(a.request)
      BY <1>2, <1>13, <3>1, <3>2 DEF Topology!ReceiptOf, TopologyInv, Topology!TypeOK
    <3> QED BY <3>1, <3>3 DEF Topology!SameRequest, Topology!NoReceipt, Topology!NoNode
  <2> QED BY <1>12, <2>2, <2>3
<1> QED BY <1>1, <1>14, <1>15, <1>17, <1>18 DEF TopologyInv

\* Validation depends on the tree and its documents only.
LEMMA SameTree ==
  ASSUME Topology!ValidateNovelTopology(nodes, documents), UNCHANGED <<nodes, documents>>
  PROVE  Topology!ValidateNovelTopology(nodes, documents)'
<1>1. Topology!OfKind(nodes, "book")' = Topology!OfKind(nodes, "book") BY DEF Topology!OfKind
<1>2. Topology!Cardinality(Topology!OfKind(nodes, "book"))' = Topology!Cardinality(Topology!OfKind(nodes, "book"))
  BY <1>1, SameCardinality
<1> QED BY <1>2 DEF Topology!ValidateNovelTopology, Topology!WellFormed, Topology!OfKind, Topology!ExpectedParent,
           Topology!NoNode

\* Other operations bind keys that no creation has used.
LEMMA BindPreserves ==
  ASSUME TopologyInv, NEW k \in Keys, Topology!BindOtherReceipt(k)
  PROVE  TopologyInv'
<1>1. /\ receipts[k] = Topology!NoReceipt
      /\ receipts' = [receipts EXCEPT ![k] = Topology!OtherReceipt]
      /\ UNCHANGED <<nodes, documents, chapterReceipts, refused, asked>>
  BY DEF Topology!BindOtherReceipt
<1>2. Topology!TypeOK' BY <1>1 DEF TopologyInv, Topology!TypeOK
<1>3. \A j \in Keys : receipts'[j] = receipts[j] \/ (j = k /\ receipts'[j] = Topology!OtherReceipt)
  BY <1>1 DEF TopologyInv, Topology!TypeOK
<1>4. ReceiptsTrue'
  BY <1>1, <1>3 DEF TopologyInv, ReceiptsTrue, Names, Topology!NoReceipt, Topology!OtherReceipt, Topology!NoNode
<1>5. AskedAnswered'
  <2> SUFFICES ASSUME NEW a \in asked
      PROVE  (/\ Topology!SameRequest(a.request) /\ Topology!ReceiptOf(a.request).node = a.node
              /\ Topology!ReceiptOf(a.request) # Topology!NoReceipt)'
    BY <1>1 DEF AskedAnswered
  <2>1. /\ Topology!SameRequest(a.request) /\ Topology!ReceiptOf(a.request).node = a.node
        /\ Topology!ReceiptOf(a.request) # Topology!NoReceipt
    BY DEF TopologyInv, AskedAnswered
  <2>2. a.request.key \in Keys BY DEF TopologyInv, Topology!TypeOK, Topology!Requests
  <2>3. Topology!ReceiptOf(a.request)' = Topology!ReceiptOf(a.request)
    BY <1>1, <1>3, <2>1, <2>2 DEF Topology!ReceiptOf
  <2> QED BY <2>1, <2>3 DEF Topology!SameRequest, Topology!NoReceipt, Topology!NoNode
<1>6. NodesCounted' BY <1>1 DEF TopologyInv, NodesCounted
<1>7. Topology!ValidateNovelTopology(nodes, documents)' BY <1>1, SameTree DEF TopologyInv
<1> QED BY <1>1, <1>2, <1>4, <1>5, <1>6, <1>7 DEF TopologyInv

\* The invariant is inductive.
LEMMA TopologyStep ==
  ASSUME TopologyInv, Topology!Next \/ UNCHANGED topologyVars
  PROVE  TopologyInv'
<1>1. CASE UNCHANGED topologyVars
  <2>1. UNCHANGED <<nodes, documents, chapterReceipts, receipts, refused, asked>>
    BY <1>1 DEF topologyVars
  <2>2. Topology!ValidateNovelTopology(nodes, documents)' BY <2>1, SameTree DEF TopologyInv
  <2> QED BY <2>1, <2>2 DEF TopologyInv, Topology!TypeOK, NodesCounted, ReceiptsTrue, AskedAnswered, Names,
       Topology!SameRequest, Topology!ReceiptOf, Topology!NoReceipt, Topology!OtherReceipt, Topology!NoNode
<1>2. ASSUME NEW r \in Topology!PossibleRequests, Topology!CreateChapter(r) \/ Topology!CreateStoryContainer(r)
      PROVE  TopologyInv'
  BY <1>2, CreatePreserves DEF Topology!CreateChapter, Topology!CreateStoryContainer
<1>3. ASSUME NEW k \in Keys, Topology!Replay(k) PROVE TopologyInv'
  BY <1>1, <1>3 DEF Topology!Replay, Topology!vars, topologyVars
<1> QED BY <1>1, <1>2, <1>3, BindPreserves DEF Topology!Next

\* Plans leave the tree as it is.
THEOREM TopologyInvariant == AuthoringSpec => []TopologyInv
<1>1. AuthoringInit => TopologyInv BY TopologyInit DEF AuthoringInit
<1>2. TopologyInv /\ [AuthoringNext]_<<vars, topologyVars, subject>> => TopologyInv'
  BY TopologyStep DEF AuthoringNext
<1> QED BY <1>1, <1>2, PTL DEF AuthoringSpec

\* The tree, its documents and the receipts are well typed (story_nodes).
THEOREM TopologyTyped == AuthoringSpec => []Topology!TypeOK
<1>1. TopologyInv => Topology!TypeOK BY DEF TopologyInv
<1> QED BY TopologyInvariant, <1>1, PTL

\* What a creation inserts is always a valid tree: no sequence of creations
\* leads to a book whose growth validate_novel_topology refuses.
THEOREM BookGrows == AuthoringSpec => []CreationsAreValid
<1>1. TopologyInv => CreationsAreValid BY DEF TopologyInv, CreationsAreValid, Topology!CreationsAreValid
<1> QED BY TopologyInvariant, <1>1, PTL

\* A request that was answered is answered with the same node whenever it is
\* repeated, and no request with a node it did not ask for (create_chapter,
\* create_story_container).
THEOREM RetriesAreAnswered == AuthoringSpec => []RetriesNameOneNode
<1>1. TopologyInv => RetriesNameOneNode
  <2> SUFFICES ASSUME TopologyInv PROVE RetriesNameOneNode OBVIOUS
  <2>1. \A a \in asked : Topology!ReplayedNode(a.request) = a.node
    BY DEF TopologyInv, AskedAnswered, Topology!ReplayedNode
  <2>2. ASSUME NEW r \in Topology!PossibleRequests, Topology!ReplayedNode(r) # Topology!NoNode
        PROVE  /\ Topology!ReplayedNode(r).kind = r.kind
               /\ nodes[Topology!ReplayedNode(r)].title = r.title
               /\ r.parent \in {Topology!NoNode, nodes[Topology!ReplayedNode(r)].parent}
    <3> DEFINE receipt == Topology!ReceiptOf(r)
    <3>1. Topology!SameRequest(r) /\ Topology!ReplayedNode(r) = receipt.node
      BY <2>2 DEF Topology!ReplayedNode
    <3>2. receipt.kind = r.kind /\ receipt.title = r.title /\ r.parent \in {Topology!NoNode, receipt.parent}
      BY <3>1 DEF Topology!SameRequest
    <3>3. r.kind \in {"volume", "unit", "chapter"} /\ r.key \in Keys
      BY Expected DEF Topology!PossibleRequests
    <3>4. Topology!NoReceipt.kind = "none" /\ Topology!OtherReceipt.kind = "other"
      BY DEF Topology!NoReceipt, Topology!OtherReceipt
    <3>5. receipt # Topology!NoReceipt /\ receipt # Topology!OtherReceipt BY <3>2, <3>3, <3>4
    <3>6. Names(receipt) BY <3>3, <3>5 DEF TopologyInv, ReceiptsTrue, Topology!ReceiptOf
    <3> QED BY <3>1, <3>2, <3>6 DEF Names
  <2> QED BY <2>1, <2>2 DEF RetriesNameOneNode, Topology!RetriesNameOneNode
<1> QED BY TopologyInvariant, <1>1, PTL
=============================================================================
