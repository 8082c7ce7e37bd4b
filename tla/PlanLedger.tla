----------------------------- MODULE PlanLedger -----------------------------
(***************************************************************************)
(* Plans and the Book Setup (plan_save, book_setup_propose and             *)
(* book_setup_approve in core/bridge.rs, their transactions in             *)
(* core/store.rs, core/planning.rs).                                       *)
(*                                                                         *)
(* A chapter is written under a chain of active plans: the book's, the     *)
(* volume's, the unit's and its own, each bound to the ones above it.  The *)
(* plan of the book comes from a Book Setup the author approved.  An       *)
(* approval is two transactions: the plan is activated, then the setup is  *)
(* approved; the process may die between them.  A request holds the        *)
(* project lock from its beginning to its end.                             *)
(***************************************************************************)
EXTENDS Naturals, FiniteSets, FiniteSetsExt

CONSTANTS
  Layers,          \* the layers of the chain, the book is the first (4 in the code)
  Setups,          \* Book Setup artifacts
  Bodies,          \* bodies of plans
  BodyOf,          \* the book plan of each artifact
  Keys,            \* idempotency keys
  Authors,
  MaxActivations,  \* bound: plans that are activated
  MaxCrashes       \* bound: crashes of the process

ASSUME LedgerAssumption ==
  Layers \in Nat \ {0} /\ BodyOf \in [Setups -> Bodies] /\ "none" \notin Setups
  /\ MaxActivations \in Nat /\ MaxCrashes \in Nat

VARIABLES
  plans,      \* plans, plan_versions, plan_editor_views and plan_activations
  proposals,  \* book_setup_proposals; an artifact is proposed at most once
  approvals,  \* book_setup_approvals
  head,       \* book_setup_heads
  pc, request,  \* the approval in progress, between its two transactions
  incomplete,   \* the approvals that were answered approval_incomplete
  interrupted,  \* the approvals a crash cut off between the transactions
  crashes

setupVars == <<proposals, approvals, head>>
requestVars == <<pc, request, incomplete, interrupted>>
vars == <<plans, setupVars, requestVars, crashes>>

Targets == 1..Layers
Book == 1

NoSetup == "none"
NoKey == "none"
Studio == "author:studio"
NoHead == [setup |-> NoSetup, version |-> 0, plan |-> 0]
NoProposal == [status |-> "none", setupVersion |-> 0, planVersion |-> 0, key |-> NoKey]

\* A request to approve a setup.
Approvals == [setup : Setups, version : 0..MaxActivations, key : Keys, author : Authors]
NoRequest == [setup |-> NoSetup, version |-> 0, key |-> NoKey, author |-> NoKey]

\* An activated plan: the activations of its ancestors it is bound to, and
\* the authorization it was activated with (PlanProposal, AuthorActivation).
\* An approval authorizes at the time of the proposal of its setup, and its
\* key is marked as that of an approval: decided names the setup for both.
Plans ==
  UNION {[target : {t}, version : 1..MaxActivations, body : Bodies, deps : [1..t - 1 -> 1..MaxActivations],
          key : Keys, author : Authors \cup {Studio}, decided : Setups \cup {NoSetup}] : t \in Targets}

\* Plans of a target, the version of the active one, and the active one.  A
\* new activation supersedes the active one and takes the next version.
Versions(t) == {p.version : p \in {q \in plans : q.target = t}}
ActiveVersion(t) == Max(Versions(t) \cup {0})
Active(t) == CHOOSE p \in plans : p.target = t /\ p.version = ActiveVersion(t)
HasActive(t) == ActiveVersion(t) # 0

\* Plans, setups and the request in progress are well typed (plan tables).
TypeOK ==
  /\ plans \subseteq Plans
  /\ \A p, q \in plans : p.target = q.target /\ p.version = q.version => p = q
  /\ proposals \in [Setups -> [status : {"none", "proposal_ready", "approved", "superseded"},
                               setupVersion : 0..MaxActivations, planVersion : 0..MaxActivations,
                               key : Keys \cup {NoKey}]]
  /\ approvals \subseteq [setup : Setups, key : Keys, author : Authors, plan : 1..MaxActivations]
  /\ head \in [setup : Setups \cup {NoSetup}, version : 0..MaxActivations, plan : 0..MaxActivations]
  /\ pc \in {"idle", "activated"}
  /\ request \in Approvals \cup {NoRequest}
  /\ incomplete \subseteq Approvals /\ interrupted \subseteq Approvals
  /\ crashes \in 0..MaxCrashes

Init ==
  /\ plans = {}
  /\ proposals = [s \in Setups |-> NoProposal]
  /\ approvals = {}
  /\ head = NoHead
  /\ pc = "idle" /\ request = NoRequest
  /\ incomplete = {} /\ interrupted = {}
  /\ crashes = 0

LockFree == pc = "idle"

(***************************************************************************)
(* Plans                                                                   *)
(***************************************************************************)

\* active_ancestor_fingerprints: every plan above t is active.
AncestorsActive(t) == \A a \in 1..t - 1 : HasActive(a)
ActiveAncestors(t) == [a \in 1..t - 1 |-> ActiveVersion(a)]

\* validate_plan_dependencies_in_transaction, and what the chain of a
\* chapter asks of each of its layers.
CurrentPlan(t) == HasActive(t) /\ AncestorsActive(t) /\ Active(t).deps = ActiveAncestors(t)

\* save_and_activate_editor_plan: one transaction.  The authorization is new
\* (it holds the identity of a new proposal), so it is never found already
\* activated.
SaveAndActivateEditorPlan(t, expected, body, key, author, decided) ==
  /\ Cardinality(plans) < MaxActivations
  /\ AncestorsActive(t)
  /\ ActiveVersion(t) = expected
  /\ plans' = plans \cup {[target |-> t, version |-> expected + 1, body |-> body,
                           deps |-> ActiveAncestors(t), key |-> key, author |-> author,
                           decided |-> decided]}

\* approved_book_setup_horizon: a setup is approved.
HasHorizon == head # NoHead /\ proposals[head.setup].status = "approved"

\* require_book_setup_ready: its book plan is still the active one.
BookSetupReady == HasHorizon /\ HasActive(Book) /\ head.plan = ActiveVersion(Book)

\* Mutant: only active plans are looked up.
KeyUnusedActive(key) ==
  \A p \in plans : p.decided = NoSetup /\ p.key = key => p.version # ActiveVersion(p.target)

\* No plan was saved with this key, approvals apart.  If one was, it is
\* answered as long as it is active and the same, and refused otherwise:
\* nothing changes.
KeyUnused(key) == \A p \in plans : ~(p.decided = NoSetup /\ p.key = key)

\* project.plan.save.  The book is planned here only before it has a setup.
PlanSave(t, expected, body, key) ==
  /\ LockFree
  /\ IF t = Book THEN ~HasHorizon ELSE BookSetupReady
  /\ KeyUnused(key)
  /\ SaveAndActivateEditorPlan(t, expected, body, key, Studio, NoSetup)
  /\ UNCHANGED <<setupVars, requestVars, crashes>>

\* active_plan_chain_for_chapter and load_ready_book_setup_for_plan: a
\* chapter can be written.
Writable == BookSetupReady /\ \A t \in Targets : CurrentPlan(t)

(***************************************************************************)
(* Book Setup                                                              *)
(***************************************************************************)

\* project.book_setup.propose, on the setup version the author has seen.  A
\* key that was used is answered again or refused; an artifact that was
\* proposed cannot be proposed again (UNIQUE setup_fingerprint).
BookSetupPropose(s, expected, key) ==
  /\ LockFree
  /\ \A r \in Setups : proposals[r].key # key
  /\ expected = head.version
  /\ proposals[s] = NoProposal
  /\ proposals' = [proposals EXCEPT ![s] =
       [status |-> "proposal_ready", setupVersion |-> expected, planVersion |-> ActiveVersion(Book),
        key |-> key]]
  /\ UNCHANGED <<plans, approvals, head, requestVars, crashes>>

\* What book_setup_approve asks of the proposal before it touches the plans.
\* An approved one is answered again for the same request, or refused.
Approvable(r) ==
  /\ proposals[r.setup].status = "proposal_ready"
  /\ proposals[r.setup].setupVersion = r.version
  /\ \A a \in approvals : a.key = r.key => a.setup = r.setup

\* Mutant: the active plan is taken for that of the interrupted approval.
ResumesInterruptedAny(r) == ActiveVersion(Book) = proposals[r.setup].planVersion + 1

\* Mutant: the version is that of the proposal, not the next one.
ResumesInterruptedSame(r) ==
  /\ HasActive(Book) /\ ActiveVersion(Book) = proposals[r.setup].planVersion
  /\ Active(Book).body = BodyOf[r.setup]
  /\ Active(Book).author = r.author /\ Active(Book).decided = r.setup
  /\ Active(Book).key = r.key

\* The active book plan is what the first transaction of this very request
\* left behind: its body, its author, its time and its key.
ResumesInterrupted(r) ==
  /\ ActiveVersion(Book) = proposals[r.setup].planVersion + 1
  /\ Active(Book).body = BodyOf[r.setup]
  /\ Active(Book).author = r.author /\ Active(Book).decided = r.setup
  /\ Active(Book).key = r.key

\* activate_book_setup_plan: the first transaction.
ActivateBookSetupPlan(r) ==
  /\ LockFree /\ Approvable(r)
  /\ ActiveVersion(Book) = proposals[r.setup].planVersion
  /\ SaveAndActivateEditorPlan(Book, proposals[r.setup].planVersion, BodyOf[r.setup], r.key,
                               r.author, r.setup)
  /\ pc' = "activated" /\ request' = r
  /\ UNCHANGED <<setupVars, incomplete, interrupted, crashes>>

\* The request comes again after it was cut off: the first transaction is not
\* repeated.
ResumeApproval(r) ==
  /\ LockFree /\ Approvable(r)
  /\ ResumesInterrupted(r)
  /\ pc' = "activated" /\ request' = r
  /\ UNCHANGED <<plans, setupVars, incomplete, interrupted, crashes>>

\* What approve_book_setup asks in the second transaction; the plan in the
\* request is the one that was activated or found active.
SetupApprovable(r) ==
  /\ \A a \in approvals : a.key # r.key
  /\ proposals[r.setup].status = "proposal_ready"
  /\ proposals[r.setup].setupVersion = r.version
  /\ head.version = r.version

\* approve_book_setup: the setup before is superseded, the head is this one
\* and is bound to the active book plan.  The titles it gives the first volume,
\* unit and chapter are left out: nothing compares them.
ApproveBookSetup ==
  /\ pc = "activated" /\ SetupApprovable(request)
  /\ proposals' = [s \in Setups |->
       IF s = request.setup THEN [proposals[s] EXCEPT !.status = "approved"]
       ELSE IF proposals[s].status = "approved" THEN [proposals[s] EXCEPT !.status = "superseded"]
       ELSE proposals[s]]
  /\ approvals' = approvals \cup {[setup |-> request.setup, key |-> request.key,
                                   author |-> request.author, plan |-> ActiveVersion(Book)]}
  /\ head' = [setup |-> request.setup, version |-> request.version + 1, plan |-> ActiveVersion(Book)]
  /\ pc' = "idle" /\ request' = NoRequest
  /\ UNCHANGED <<plans, incomplete, interrupted, crashes>>

\* The second transaction is refused: the answer is approval_incomplete, and
\* asks for the same request again.
AnswerIncomplete ==
  /\ pc = "activated" /\ ~SetupApprovable(request)
  /\ incomplete' = incomplete \cup {request}
  /\ pc' = "idle" /\ request' = NoRequest
  /\ UNCHANGED <<plans, setupVars, interrupted, crashes>>

\* The process dies between the transactions.
Crash ==
  /\ pc = "activated" /\ crashes < MaxCrashes
  /\ crashes' = crashes + 1
  /\ interrupted' = interrupted \cup {request}
  /\ pc' = "idle" /\ request' = NoRequest
  /\ UNCHANGED <<plans, setupVars, incomplete>>

Next ==
  \/ \E t \in Targets, v \in 0..MaxActivations, b \in Bodies, k \in Keys : PlanSave(t, v, b, k)
  \/ \E s \in Setups, v \in 0..MaxActivations, k \in Keys : BookSetupPropose(s, v, k)
  \/ \E r \in Approvals : ActivateBookSetupPlan(r) \/ ResumeApproval(r)
  \/ ApproveBookSetup
  \/ AnswerIncomplete
  \/ Crash

Spec == Init /\ [][Next]_vars

(***************************************************************************)
(* Properties                                                              *)
(***************************************************************************)

\* A ready setup is bound to its own plan: the book plan that is active is
\* the one its approval activated, also when the approval was cut off and
\* resumed, and other setups and plans came in between
\* (require_book_setup_ready).
ReadyPlanIsSetups ==
  BookSetupReady => Active(Book).decided = head.setup /\ Active(Book).body = BodyOf[head.setup]

\* A chapter is never written under plans that were made for another book
\* plan: when it can be written, every layer was saved under the book plan
\* that is active, which is the approved setup's (active_plan_chain_for_chapter).
WrittenUnderOneBook ==
  Writable =>
    /\ \A t \in Targets \ {Book} : Active(t).deps[Book] = head.plan
    /\ Active(Book).decided = head.setup

\* Whatever is ready or can be written belongs to the one book that was
\* approved (book_setup_approve, active_plan_chain_for_chapter).
OneBook == ReadyPlanIsSetups /\ WrittenUnderOneBook

\* A save that is repeated never brings its plan back after another one has
\* replaced it: a key activates one plan (plan_save).
KeysActivateOnce ==
  \A p, q \in plans : p.decided = NoSetup /\ q.decided = NoSetup /\ p.key = q.key => p = q

\* Nothing that was cut off is lost: an approval that died between its
\* transactions can be resumed by the same request, as long as its plan is
\* the active one and no other setup was approved.
InterruptedIsResumable ==
  LockFree =>
    \A r \in interrupted :
      /\ HasActive(Book) /\ Active(Book).decided = r.setup /\ Active(Book).key = r.key
      /\ proposals[r.setup].status = "proposal_ready" /\ head.version = r.version
      => Approvable(r) /\ ResumesInterrupted(r) /\ SetupApprovable(r)

\* Without an interruption the second transaction is never refused after the
\* first has changed the plans (book_setup_approve).
IncompleteOnlyAfterCrash == incomplete # {} => crashes > 0

\* The two transactions of an approval are one, up to a crash, and one that the
\* same request completes after it (book_setup_approve).
ApprovalIsWhole == InterruptedIsResumable /\ IncompleteOnlyAfterCrash

\* Does not hold: an approval that was answered approval_incomplete is completed
\* by the same request, as the answer says, unless the book plan has changed
\* since.  Another setup's interrupted approval, resumed meanwhile, blocks it
\* for ever (book_setup_approve, approve_book_setup).
IncompleteIsRetryable ==
  LockFree =>
    \A r \in incomplete :
      proposals[r.setup].status = "proposal_ready" /\ Active(Book).decided = r.setup
      => Approvable(r) /\ ResumesInterrupted(r) /\ SetupApprovable(r)
=============================================================================
