----------------------------- MODULE StoryHistory -----------------------------
(***************************************************************************)
(* The story history of a project: the append-only event log, the tables   *)
(* projected from it, the snapshots and their restoration (core/store.rs,  *)
(* core/events.rs).                                                        *)
(*                                                                         *)
(* A settlement applies the chapter's narrative deltas, replaces the Canon *)
(* head, appends one event and snapshots the projection, in a transaction. *)
(* Every opening of the project verifies the log, the head, the latest     *)
(* snapshot and the projection against each other; what a fault damages is *)
(* refused there and repaired, where it can be, from the snapshot.         *)
(*                                                                         *)
(* A fingerprint is the value it identifies.  Candidates of a chapter are  *)
(* numbered as they are settled; document_revisions has each content of a  *)
(* chapter only once.                                                      *)
(***************************************************************************)
EXTENDS Naturals, Sequences, FiniteSets

CONSTANTS
  Chapters,
  Owned,            \* relationships and knowledge: rows with a fixed owner
  Expectations,     \* rows of the expectation ledger
  Owners,           \* participants of a relationship, characters of a knowledge
  Retained,         \* snapshots that are kept (4 in the code)
  MaxCandidates,    \* bound: candidates of a chapter
  MaxSettlements,   \* bound: settlements
  MaxFaults         \* bound: damaged rows

VARIABLES
  canon,      \* canon_state: the candidate each chapter's head names, 0 if none
  ledger,     \* the rows of the narrative tables
  sources,    \* narrative_state_sources
  tracking,   \* story_tracking_authority: its version and the invalidated chapters
  anchors,    \* document_revisions whose authority_class is 'accepted'
  events,     \* story_events
  head,       \* project_state_heads
  snapshots,  \* story_state_snapshots
  faults      \* number of faults so far

projectionVars == <<canon, ledger, sources, tracking, anchors>>
historyVars == <<events, head, snapshots>>
vars == <<projectionVars, historyVars, faults>>

Entities == Owned \cup Expectations

NoOwner == "none"
NoRow == [chapter |-> "none", n |-> 0, owner |-> NoOwner, status |-> "none", version |-> 0]
NoSource == [chapter |-> "none", n |-> 0, state |-> "none"]

\* The status an action of a chapter gives an expectation
\* (ExpectationDeltaAction, apply_narrative_deltas).
StatusOf ==
  [open |-> "open", defer |-> "open", advance |-> "partial", payoff |-> "paid",
   abandon |-> "abandoned"]

\* The deltas of a chapter: the rows it touches, with the owner or the action
\* each delta names (ChapterTrackingProposal).
Deltas ==
  UNION {[T -> Owners \cup DOMAIN StatusOf] : T \in SUBSET Entities}

\* The deltas that name an owner for an owned row and an action for an
\* expectation.
ValidDeltas ==
  {d \in Deltas : \A e \in DOMAIN d : IF e \in Owned THEN d[e] \in Owners ELSE d[e] \in DOMAIN StatusOf}

(***************************************************************************)
(* The tables a settlement writes                                          *)
(***************************************************************************)

\* A row never changes its owner.
OwnersAgree(rows, deltas) ==
  \A e \in DOMAIN deltas \cap Owned : rows[e] = NoRow \/ rows[e].owner = deltas[e]

\* apply_narrative_deltas for candidate n of chapter c: rows are inserted or
\* overwritten, the version of an expectation is counted.
ApplyNarrativeDeltas(rows, deltas, c, n) ==
  [e \in Entities |->
     IF e \notin DOMAIN deltas THEN rows[e]
     ELSE IF e \in Owned
     THEN [chapter |-> c, n |-> n, owner |-> deltas[e], status |-> "none", version |-> 0]
     ELSE [chapter |-> c, n |-> n, owner |-> NoOwner, status |-> StatusOf[deltas[e]],
           version |-> rows[e].version + 1]]

\* upsert_narrative_source: each touched row has the candidate as its source.
UpsertNarrativeSources(srcs, deltas, c, n) ==
  [e \in Entities |->
     IF e \in DOMAIN deltas THEN [chapter |-> c, n |-> n, state |-> "current"] ELSE srcs[e]]

\* Mutant: the sources of a replaced head are left as they are.
StaleSourcesKept(srcs, c, prior) == srcs

\* The rows whose source is the replaced head of chapter c are stale.
StaleSources(srcs, c, prior) ==
  [e \in Entities |->
     IF prior # 0 /\ srcs[e].chapter = c /\ srcs[e].n = prior /\ srcs[e].state = "current"
     THEN [srcs[e] EXCEPT !.state = "stale"] ELSE srcs[e]]

\* story_projection.
StoryProjection ==
  [canon |-> canon, ledger |-> ledger, sources |-> sources, tracking |-> tracking,
   anchors |-> anchors]

\* active_ledger_context_rows: the rows the Writer is offered.
ActiveLedger ==
  {e \in Entities :
     /\ ledger[e] # NoRow
     /\ sources[e].state \in {"none", "current"}
     /\ e \in Expectations => ledger[e].status \in {"open", "partial"}}

(***************************************************************************)
(* Verification                                                            *)
(***************************************************************************)

\* The chain over a log: the fingerprints of its events in order.
Chain(log) == [i \in DOMAIN log |-> log[i].fingerprint]

\* StoryEvent::validate, and the revisions follow each other.
EventsValid ==
  \A i \in DOMAIN events :
    /\ events[i].base = i - 1 /\ events[i].commit = i
    /\ events[i].fingerprint = events[i].payload

\* The head is at the end of the chain.
HeadMatches == head.revision = Len(events) /\ head.chain = Chain(events)

\* StoryStateSnapshot::validate, and the snapshot is that of the head with
\* the projection proj.
SnapshotMatches(s, proj) ==
  /\ s.fingerprint = s.projection
  /\ s.through = head.revision /\ s.chain = head.chain
  /\ s.projection = proj

\* verify_story_history with the projection proj; a project without
\* settlements has no snapshot and its projection is not compared.
VerifiedWith(proj) ==
  /\ EventsValid /\ HeadMatches
  /\ IF head.revision = 0 THEN head.snapshot = 0
     ELSE \E s \in snapshots : s.through = head.snapshot /\ SnapshotMatches(s, proj)

\* Mutant: only the log is verified.
VerifyStoryHistoryLog == EventsValid /\ HeadMatches

\* open_strict.
VerifyStoryHistory == VerifiedWith(StoryProjection)

(***************************************************************************)
(* Behaviour                                                               *)
(***************************************************************************)

\* The tables are well typed, and no more snapshots than retained are kept.
TypeOK ==
  /\ canon \in [Chapters -> 0..MaxCandidates]
  /\ \A e \in Entities :
       /\ ledger[e].owner \in Owners \cup {NoOwner}
       /\ ledger[e].status \in {"none", "open", "partial", "paid", "abandoned"}
       /\ sources[e].state \in {"none", "current", "stale"}
       /\ (ledger[e] = NoRow) = (sources[e] = NoSource)
  /\ tracking.invalidated \subseteq Chapters
  /\ anchors \subseteq Chapters \X (1..MaxCandidates)
  /\ Len(events) <= MaxSettlements
  /\ head.revision \in 0..MaxSettlements
  /\ Cardinality(snapshots) <= Retained
  /\ faults \in 0..MaxFaults

Init ==
  /\ canon = [c \in Chapters |-> 0]
  /\ ledger = [e \in Entities |-> NoRow]
  /\ sources = [e \in Entities |-> NoSource]
  /\ tracking = [version |-> 0, invalidated |-> {}]
  /\ anchors = {}
  /\ events = <<>>
  /\ head = [revision |-> 0, snapshot |-> 0, chain |-> <<>>]
  /\ snapshots = {}
  /\ faults = 0

\* append_story_event.
AppendStoryEvent(payload) ==
  LET event == [base |-> head.revision, commit |-> head.revision + 1,
                payload |-> payload, fingerprint |-> payload]
  IN /\ events' = Append(events, event)
     /\ head' = [revision |-> event.commit, snapshot |-> event.commit,
                 chain |-> Append(head.chain, event.fingerprint)]

\* Mutant: the oldest snapshots are kept.
KeptSnapshotsOldest(all) ==
  {s \in all : Cardinality({t \in all : t.through < s.through}) < Retained}

\* The snapshots that are kept of all: the latest.
KeptSnapshots(all) ==
  {s \in all : Cardinality({t \in all : t.through > s.through}) < Retained}

\* create_story_snapshot: a snapshot of the projection and the head after the
\* step; the oldest snapshots are removed.
CreateStorySnapshot ==
  LET snapshot == [through |-> head'.revision, chain |-> head'.chain,
                   projection |-> StoryProjection', fingerprint |-> StoryProjection']
  IN snapshots' = KeptSnapshots(snapshots \cup {snapshot})

\* apply_settlement of the next candidate n of chapter c with its deltas.
\* affected are the chapters written on the head it replaces.
ApplySettlement(c, n, deltas, affected) ==
  /\ VerifyStoryHistory
  /\ n = canon[c] + 1
  /\ OwnersAgree(ledger, deltas)
  /\ canon[c] = 0 => affected = {}
  /\ canon' = [canon EXCEPT ![c] = n]
  /\ ledger' = ApplyNarrativeDeltas(ledger, deltas, c, n)
  /\ sources' = StaleSources(UpsertNarrativeSources(sources, deltas, c, n), c, canon[c])
  /\ anchors' = anchors \cup {<<c, n>>}
  /\ tracking' = [version |-> tracking.version + IF affected = {} THEN 1 ELSE 2,
                  invalidated |-> (tracking.invalidated \ {c}) \cup affected]
  /\ AppendStoryEvent([chapter |-> c, n |-> n, deltas |-> deltas])
  /\ CreateStorySnapshot
  /\ UNCHANGED faults

\* materialize_story_projection: every projected table is emptied and filled
\* from the snapshot; documents and their revisions are not touched.
Materialized(s) == [s.projection EXCEPT !.anchors = anchors]

\* restore_latest_story_snapshot: the snapshot is that of the head, and what
\* it restores verifies; the transaction is rolled back otherwise.
Restorable(s, expected) ==
  /\ expected = head.revision /\ head.revision # 0
  /\ s.through = head.snapshot
  /\ s.fingerprint = s.projection /\ s.chain = head.chain
  /\ VerifiedWith(Materialized(s))

\* project.story.restore_latest_snapshot: the author names the revision that
\* is to be restored.
RestoreStorySnapshot(expected) ==
  \E s \in snapshots :
    /\ Restorable(s, expected)
    /\ canon' = Materialized(s).canon
    /\ ledger' = Materialized(s).ledger
    /\ sources' = Materialized(s).sources
    /\ tracking' = Materialized(s).tracking
    /\ UNCHANGED <<anchors, historyVars, faults>>

(***************************************************************************)
(* Faults: a row is altered from outside                                   *)
(***************************************************************************)

Fault ==
  /\ faults < MaxFaults
  /\ faults' = faults + 1

\* A row of a projected table.
DamageProjection ==
  /\ Fault
  /\ \/ \E e \in Entities :
          /\ ledger[e] # NoRow
          /\ ledger' = [ledger EXCEPT ![e].n = MaxCandidates + 1]
          /\ UNCHANGED <<canon, sources, tracking>>
     \/ \E e \in Entities :
          /\ sources[e].state = "stale"
          /\ sources' = [sources EXCEPT ![e].state = "current"]
          /\ UNCHANGED <<canon, ledger, tracking>>
     \/ \E c \in Chapters :
          /\ canon[c] # 0
          /\ canon' = [canon EXCEPT ![c] = 0]
          /\ UNCHANGED <<ledger, sources, tracking>>
     \/ /\ tracking.invalidated # {}
        /\ tracking' = [tracking EXCEPT !.invalidated = {}]
        /\ UNCHANGED <<canon, ledger, sources>>
  /\ UNCHANGED <<anchors, historyVars>>

\* What a snapshot cannot restore: an accepted revision, an event, a snapshot.
DamageHistory ==
  /\ Fault
  /\ \/ \E a \in anchors :
          /\ anchors' = anchors \ {a}
          /\ UNCHANGED <<events, snapshots>>
     \/ \E i \in DOMAIN events :
          /\ events' = [events EXCEPT ![i].payload = [@ EXCEPT !.n = 0]]
          /\ UNCHANGED <<anchors, snapshots>>
     \/ \E s \in snapshots :
          /\ snapshots' = (snapshots \ {s}) \cup {[s EXCEPT !.projection.anchors = {}]}
          /\ UNCHANGED <<anchors, events>>
  /\ UNCHANGED <<canon, ledger, sources, tracking, head>>

Next ==
  \/ /\ Len(events) < MaxSettlements
     /\ \E c \in Chapters, n \in 1..MaxCandidates, deltas \in ValidDeltas :
          \E affected \in SUBSET ({d \in Chapters : canon[d] # 0} \ {c}) :
            ApplySettlement(c, n, deltas, affected)
  \/ \E expected \in 0..MaxSettlements : RestoreStorySnapshot(expected)
  \/ DamageProjection
  \/ DamageHistory

Spec == Init /\ [][Next]_vars

(***************************************************************************)
(* Properties                                                              *)
(***************************************************************************)

\* The log is what was appended, and so are the revisions and the latest
\* snapshot.
HistoryIntact ==
  /\ EventsValid
  /\ {<<events[i].payload.chapter, events[i].payload.n>> : i \in DOMAIN events} = anchors
  /\ \A s \in snapshots : s.through = head.snapshot => s.fingerprint = s.projection

\* What the events of the log make of an empty project.
Replay ==
  LET state[i \in 0..Len(events)] ==
        IF i = 0
        THEN [canon |-> [c \in Chapters |-> 0], ledger |-> [e \in Entities |-> NoRow],
              sources |-> [e \in Entities |-> NoSource]]
        ELSE LET p == events[i].payload
                 s == state[i - 1]
             IN [canon |-> [s.canon EXCEPT ![p.chapter] = p.n],
                 ledger |-> ApplyNarrativeDeltas(s.ledger, p.deltas, p.chapter, p.n),
                 sources |-> StaleSources(UpsertNarrativeSources(s.sources, p.deltas, p.chapter, p.n),
                                          p.chapter, s.canon[p.chapter])]
  IN state[Len(events)]

\* Whatever was damaged and restored before: a project that opens shows
\* exactly what its log of settlements makes of it (open_strict,
\* verify_story_history, restore_latest_story_snapshot).
OpenedStateIsHistory ==
  VerifyStoryHistory =>
    [canon |-> canon, ledger |-> ledger, sources |-> sources] = Replay

\* Damage to the projected tables can always be repaired: while the log, the
\* accepted revisions and the latest snapshot are intact, a restoration of
\* the present revision succeeds (restore_latest_story_snapshot, the
\* retention in create_story_snapshot).
DamageIsRepairable ==
  HistoryIntact /\ head.revision # 0 =>
    \E s \in snapshots : Restorable(s, head.revision)

\* Nothing of a replaced chapter is shown to the Writer: every row it is
\* offered was written by the present head of its chapter
\* (apply_settlement, active_ledger_context_rows).
CurrentSourcesAreHeads ==
  VerifyStoryHistory => \A e \in ActiveLedger : canon[ledger[e].chapter] = ledger[e].n

\* Does not hold: a row that the present head of some chapter touched is
\* current.  A row two chapters touched goes stale with the second
\* (apply_settlement).
LedgerRebuilt ==
  VerifyStoryHistory =>
    \A i \in DOMAIN events, e \in Entities :
      /\ canon[events[i].payload.chapter] = events[i].payload.n
      /\ e \in DOMAIN events[i].payload.deltas
      => sources[e].state = "current"
=============================================================================
