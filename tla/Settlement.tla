------------------------------ MODULE Settlement ------------------------------
(***************************************************************************)
(* From released candidates to settled Canon: acceptance and revision of a *)
(* candidate, the settlement that makes it the head of its chapter, the    *)
(* dependencies between chapters and the tracking authority of the project *)
(* (store.rs, tracking.rs), and what publication may export                *)
(* (publication.rs).                                                       *)
(*                                                                         *)
(* A run has one candidate, one acceptance and at most one settlement, so  *)
(* the run names them all: head[c] = r says the head of chapter c is the   *)
(* Canon state of r's acceptance.  A fingerprint of the tracking authority *)
(* covers its version, so the version stands for it.  Requests are         *)
(* serialised by the lock of the global state and each is one transaction  *)
(* here; what matters is the order of the author's requests.  A request    *)
(* repeated with its idempotency key is answered from its receipt and      *)
(* changes nothing.                                                        *)
(*                                                                         *)
(* The chapters are numbered by their places in the book it grows into.    *)
(* Volumes and units can be created ahead, so a chapter may be added       *)
(* anywhere after the first (StoryTopology); its place among the chapters  *)
(* that exist is its reading order, which a settlement writes down.        *)
(***************************************************************************)
EXTENDS Integers, FiniteSets, Sequences, SequencesExt

CONSTANTS
  Chapters,  \* the chapters, as their places in the finished book
  Runs,      \* run ids
  NoRun,
  Window     \* continuity entries of a Writer Pack (12 in the code)

ASSUME SettlementAssumption ==
  /\ Chapters \subseteq Nat
  /\ IsFiniteSet(Chapters)
  /\ NoRun \notin Runs
  /\ Window \in Nat

VARIABLES
  book,        \* story_nodes: the chapters that exist, in the order of their ids
  order,       \* canon_state and tracking authority: the reading order of each chapter
               \* when it was settled
  head,        \* canon_state: the settled head of each chapter
  records,     \* tracking authority: the source candidate of each chapter
  version,     \* tracking authority: its version
  invalidated, \* tracking authority: invalidated_chapters
  phase,       \* where each run is between start and acceptance
  target,      \* the chapter of each run
  pack,        \* tracking version frozen in each run's Writer Pack
  deps,        \* chapter_dependencies: the source heads each run depends on
  stale,       \* chapter_dependencies of status 'stale', by run
  revision,    \* runs whose candidate has a requested revision
  preflight,   \* the head each settlement preflight showed the author
  accepted,    \* acceptance_evidence, oldest first
  settlements, \* settlements: the run and the head it replaced
  read         \* history: the whole Canon when each run was started

authorityVars == <<book, order, head, records, version, invalidated>>
runVars == <<phase, target, pack, deps, stale>>
decisionVars == <<revision, preflight, accepted>>
vars == <<authorityVars, runVars, decisionVars, settlements, read>>

Heads == Runs \cup {NoRun}
Phases == {"absent", "ready", "frozen", "stale_conflict", "review", "accepted"}
Rows == [run : Runs, before : Heads]
Canons == [Chapters -> Heads]
EmptyCanon == [c \in Chapters |-> NoRun]

\* Types of the variables.
TypeOK ==
  /\ book \in Seq(Chapters)
  /\ order \in [Chapters -> Nat]
  /\ head \in Canons
  /\ records \in Canons
  /\ version \in Nat
  /\ invalidated \subseteq Chapters
  /\ phase \in [Runs -> Phases]
  /\ target \in [Runs -> Chapters]
  /\ pack \in [Runs -> Nat]
  /\ deps \in [Runs -> Canons]
  /\ stale \in [Runs -> SUBSET Chapters]
  /\ revision \subseteq Runs
  /\ preflight \in [Runs -> Heads \cup {"unseen"}]
  /\ accepted \in Seq(Runs)
  /\ settlements \subseteq Rows
  /\ read \in [Runs -> Canons]

Init ==
  /\ \E c \in Chapters : (\A d \in Chapters : c <= d) /\ book = <<c>>
  /\ order = [c \in Chapters |-> 0]
  /\ head = EmptyCanon
  /\ records = EmptyCanon
  /\ version = 0
  /\ invalidated = {}
  /\ phase = [r \in Runs |-> "absent"]
  /\ target \in [Runs -> Chapters]
  /\ pack = [r \in Runs |-> 0]
  /\ deps = [r \in Runs |-> EmptyCanon]
  /\ stale = [r \in Runs |-> {}]
  /\ revision = {}
  /\ preflight = [r \in Runs |-> "unseen"]
  /\ accepted = <<>>
  /\ settlements = {}
  /\ read = [r \in Runs |-> EmptyCanon]

(***************************************************************************)
(* Production, as far as Canon is concerned                                *)
(***************************************************************************)

\* create_chapter.
CreateChapter(c) ==
  /\ c \notin ToSet(book)
  /\ book' = Append(book, c)
  /\ UNCHANGED <<order, head, records, version, invalidated, runVars, decisionVars, settlements, read>>

\* The place of c among the chapters that exist.
ReadingOrder(c) == Cardinality({d \in ToSet(book) : d <= c})

\* The records are sorted by the reading order written down in them, the last
\* first; of two that have the same the older chapter comes first.
Created(c) == CHOOSE i \in DOMAIN book : book[i] = c
SortedBefore(c, d) == order[c] > order[d] \/ (order[c] = order[d] /\ Created(c) < Created(d))

\* The chapters with a tracking record, and those at the front of that order.
Recorded == {c \in Chapters : records[c] # NoRun}
Recent == {c \in Recorded : Cardinality({d \in Recorded : SortedBefore(d, c)}) < Window}

\* freeze_writer_pack_for_chapter and WriterPack::freeze: the continuity of a
\* pack is the recent chapters, whatever the chapter to be written.
CanFreeze(c) ==
  /\ Recent \cap invalidated = {}
  /\ \A d \in Recent : head[d] = records[d]
  /\ c \notin Recent

\* author_run_start: the Writer Pack is frozen and the run depends on the
\* heads in it.
StartRun(r) ==
  /\ phase[r] = "absent"
  /\ target[r] \in ToSet(book) /\ CanFreeze(target[r])
  /\ phase' = [phase EXCEPT ![r] = "ready"]
  /\ pack' = [pack EXCEPT ![r] = version]
  /\ deps' = [deps EXCEPT ![r] = [c \in Chapters |-> IF c \in Recent THEN head[c] ELSE NoRun]]
  /\ read' = [read EXCEPT ![r] = head]
  /\ UNCHANGED <<authorityVars, target, stale, decisionVars, settlements>>

\* author_run_execute refuses a run whose tracking authority has moved on.
Executable(r) == pack[r] = version

\* persist_writer_context_freeze: the selected chapters S become dependencies.
PersistContextFreeze(r, S) ==
  /\ phase[r] = "ready"
  /\ Executable(r)
  /\ phase' = [phase EXCEPT ![r] = "frozen"]
  /\ deps' = [deps EXCEPT ![r] = [c \in Chapters |-> IF c \in S THEN head[c] ELSE deps[r][c]]]
  /\ stale' = [stale EXCEPT ![r] = @ \ S]
  /\ UNCHANGED <<authorityVars, target, pack, decisionVars, settlements, read>>

\* What the context selection may pick: settled chapters other than the target.
Selectable(r) == {c \in Chapters \ {target[r]} : head[c] # NoRun}

\* commit_released_candidate, in the same or a later execution.
ReleaseCandidate(r) ==
  /\ phase[r] = "frozen"
  /\ Executable(r)
  /\ phase' = [phase EXCEPT ![r] = "review"]
  /\ UNCHANGED <<authorityVars, target, pack, deps, stale, decisionVars, settlements, read>>

(***************************************************************************)
(* The author's decisions                                                  *)
(***************************************************************************)

\* request_candidate_revision: only for a candidate still under review.
RequestRevision(r) ==
  /\ phase[r] = "review"
  /\ r \notin revision
  /\ revision' = revision \cup {r}
  /\ UNCHANGED <<authorityVars, runVars, preflight, accepted, settlements, read>>

\* accept_candidate: under review and without a requested revision.
AcceptCandidate(r) ==
  /\ phase[r] = "review"
  /\ r \notin revision
  /\ phase' = [phase EXCEPT ![r] = "accepted"]
  /\ accepted' = Append(accepted, r)
  /\ UNCHANGED <<authorityVars, target, pack, deps, stale, revision, preflight,
                 settlements, read>>

\* settlement_preflight: the author is shown the head to be replaced.
SettlementPreflight(r) ==
  /\ phase[r] = "accepted"
  /\ preflight[r] # head[target[r]]
  /\ preflight' = [preflight EXCEPT ![r] = head[target[r]]]
  /\ UNCHANGED <<authorityVars, runVars, revision, accepted, settlements, read>>

\* The dependencies of r are current and their heads are still the same.
DependenciesCurrent(r) ==
  \A c \in Chapters : deps[r][c] # NoRun => c \notin stale[r] /\ deps[r][c] = head[c]

\* Mutant: only runs without a released candidate are looked for.
AffectedInFlight(r) ==
  LET c == target[r]
  IN {q \in Runs : head[c] # NoRun /\ deps[q][c] = head[c] /\ phase[q] \in {"ready", "frozen"}}

\* The runs with a current dependency on the head r is about to replace.
Affected(r) ==
  LET c == target[r]
  IN {q \in Runs : head[c] # NoRun /\ deps[q][c] = head[c] /\ c \notin stale[q]}

\* Mutant: the tracking authority of the release is not compared.
SettleableOnAnyAuthority(r) ==
  /\ phase[r] = "accepted"
  /\ preflight[r] = head[target[r]]
  /\ DependenciesCurrent(r)

\* Mutant: that the run is not settled yet takes the place of that comparison.
SettleableUnsettled(r) ==
  /\ phase[r] = "accepted"
  /\ preflight[r] = head[target[r]]
  /\ DependenciesCurrent(r)
  /\ \A a \in settlements : a.run # r

\* What apply_settlement checks before it writes anything.
Settleable(r) ==
  /\ phase[r] = "accepted"
  /\ preflight[r] = head[target[r]]
  /\ DependenciesCurrent(r)
  /\ pack[r] = version

\* Mutant: dependent chapters are invalidated, their dependencies stay current.
ApplySettlementUnmarked(r) ==
  LET c == target[r]
  IN /\ Settleable(r)
     /\ head' = [head EXCEPT ![c] = r]
     /\ order' = [order EXCEPT ![c] = ReadingOrder(c)]
     /\ records' = [records EXCEPT ![c] = r]
     /\ settlements' = settlements \cup {[run |-> r, before |-> head[c]]}
     /\ phase' = [q \in Runs |-> IF q \in Affected(r) /\ phase[q] = "frozen"
                                 THEN "stale_conflict" ELSE phase[q]]
     /\ invalidated' = (invalidated \ {c}) \cup {target[q] : q \in Affected(r)}
     /\ version' = version + IF Affected(r) = {} THEN 1 ELSE 2
     /\ UNCHANGED <<book, target, pack, deps, stale, decisionVars, read>>

\* apply_settlement: the candidate becomes the head of its chapter; whatever
\* was written on the replaced head goes stale and is invalidated.
ApplySettlement(r) ==
  LET c == target[r]
  IN /\ Settleable(r)
     /\ head' = [head EXCEPT ![c] = r]
     /\ order' = [order EXCEPT ![c] = ReadingOrder(c)]
     /\ records' = [records EXCEPT ![c] = r]
     /\ settlements' = settlements \cup {[run |-> r, before |-> head[c]]}
     /\ stale' = [q \in Runs |-> IF q \in Affected(r) THEN stale[q] \cup {c} ELSE stale[q]]
     /\ phase' = [q \in Runs |-> IF q \in Affected(r) /\ phase[q] = "frozen"
                                 THEN "stale_conflict" ELSE phase[q]]
     /\ invalidated' = (invalidated \ {c}) \cup {target[q] : q \in Affected(r)}
     /\ version' = version + IF Affected(r) = {} THEN 1 ELSE 2
     /\ UNCHANGED <<book, target, pack, deps, decisionVars, read>>

RunStep(r) ==
  \/ StartRun(r)
  \/ \E S \in SUBSET Selectable(r) : PersistContextFreeze(r, S)
  \/ ReleaseCandidate(r)
  \/ RequestRevision(r)
  \/ AcceptCandidate(r)
  \/ SettlementPreflight(r)
  \/ ApplySettlement(r)

Next == (\E c \in Chapters : CreateChapter(c)) \/ \E r \in Runs : RunStep(r)

Spec == Init /\ [][Next]_vars

(***************************************************************************)
(* Publication                                                             *)
(***************************************************************************)

\* load_current_source: what build_publication_collection exports for r.
Publishable(r) ==
  /\ head[target[r]] = r
  /\ DependenciesCurrent(r)
  /\ ReadingOrder(target[r]) = order[target[r]]

(***************************************************************************)
(* Properties                                                              *)
(***************************************************************************)

\* Every behaviour of the project is one of SerialCanon: a chapter is settled
\* only if it was written on exactly the Canon it is added to, whatever the
\* order of starts, executions, acceptances, preflights and settlements of
\* racing runs (author_run_start, author_run_execute, apply_settlement).
Serial == INSTANCE SerialCanon
  WITH canon <- head,
       drawn <- [r \in Runs |-> IF phase[r] = "absent" THEN {} ELSE {read[r]}]
ImplementsSerialCanon == Serial!Spec

\* The history of a chapter is linear: no run is settled twice, however often
\* its settlement is repeated with a new key, and no head is replaced twice
\* (apply_settlement).
CanonHistoryLinear ==
  \A a, b \in settlements :
    a.run = b.run \/ (target[a.run] = target[b.run] /\ a.before = b.before) => a = b

\* Staleness is complete: a chapter whose head was written on a head that has
\* been replaced since is invalidated and its dependency is stale
\* (apply_settlement).
StaleHeadsInvalidated ==
  \A c, s \in Chapters :
    LET r == head[c]
    IN r # NoRun /\ deps[r][s] \notin {NoRun, head[s]} =>
         c \in invalidated /\ s \in stale[r]

\* Publication and the tracking authority agree: the head of a chapter that
\* is not invalidated can be exported, unless the book has grown before it
\* since it was settled (load_current_source, apply_settlement).
ValidHeadsPublishable ==
  \A c \in Chapters : head[c] # NoRun /\ c \notin invalidated =>
    Publishable(head[c]) \/ order[c] < ReadingOrder(c)

\* An accepted candidate has no requested revision, whichever request was
\* first (request_candidate_revision, accept_candidate).
AcceptedNotUnderRevision == \A r \in revision : phase[r] # "accepted"

\* Does not hold: what was invalidated can be written again.  A chapter that is
\* settled again after it left the window stops every later run
\* (freeze_writer_pack_for_chapter).
InvalidatedIsRepairable ==
  invalidated # {} => \E c \in invalidated : CanFreeze(c)

\* Does not hold: the head of a chapter that is not invalidated can be exported.
\* A chapter created before it moves it, and no settlement takes notice
\* (create_chapter, load_current_source).
ValidHeadsStayPublishable ==
  \A c \in Chapters : head[c] # NoRun /\ c \notin invalidated => Publishable(head[c])

\* Does not hold: the last chapters of the tracking authority are in reading
\* order.  One that was settled before the book grew keeps its old number
\* (freeze_writer_pack_for_chapter).
RecordsInReadingOrder == \A c, d \in Recorded : c < d => order[c] < order[d]

\* Does not hold: the continuity of a Writer Pack is chapters before the one to
\* be written (freeze_writer_pack_for_chapter).
ContinuityIsPrior ==
  \A r \in Runs : phase[r] = "ready" =>
    \A c \in Chapters : deps[r][c] # NoRun => c < target[r]

\* Does not hold: a settled head is not exported while a newer acceptance of
\* its chapter awaits settlement (load_current_source).
NewerAcceptanceBlocksExport ==
  \A i, j \in 1..Len(accepted) :
    /\ i < j
    /\ target[accepted[i]] = target[accepted[j]]
    /\ \A a \in settlements : a.run # accepted[j]
    => ~Publishable(accepted[i])
=============================================================================
