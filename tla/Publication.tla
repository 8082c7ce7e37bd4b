----------------------------- MODULE Publication -----------------------------
(***************************************************************************)
(* Publication of accepted chapters: the files under exports/ and the      *)
(* attempts that own them (core/publication.rs, quillframe-native).        *)
(*                                                                         *)
(* A build is resumed from its attempt row and its files alone.  Every     *)
(* transaction and every file operation is a step, and the process may die *)
(* between any two; the project lock keeps other requests out meanwhile.   *)
(* The bytes of an artifact are a function of its build, so a file is      *)
(* whole or torn.  The output format is part of a build's identity like    *)
(* its sources and is left out.                                            *)
(***************************************************************************)
EXTENDS Naturals, FiniteSets

CONSTANTS
  Chapters,        \* the chapters, in reading order
  Keys,            \* idempotency keys of collection requests
  MaxAcceptances,  \* bound: acceptances of a chapter that are settled
  MaxAttempts,     \* bound: builds that are ever requested
  MaxCrashes       \* bound: crashes of the process

ASSUME PublicationAssumption ==
  Chapters \subseteq Nat /\ IsFiniteSet(Chapters) /\ MaxAcceptances \in Nat
  /\ MaxAttempts \in Nat /\ MaxCrashes \in Nat

VARIABLES
  head,       \* the acceptance each chapter's settled head names, 0 if none
  unfit,      \* chapters whose head has stale dependencies or another reading order
  attempts,   \* publication_build_attempts, publication_collection_attempts
  keys,       \* publication_collection_requests: key -> build
  builds,     \* publication_builds, publication_collection_builds
  stage,      \* the stage file of each build
  final,      \* the file at the output reference of each build
  files,      \* number of files created so far, the last file identity
  pc, build, row,  \* the request in progress: where it is, its build, its AttemptRow
  crashes

sourceVars == <<head, unfit>>
diskVars == <<stage, final, files>>
rowVars == <<attempts, keys, builds>>
vars == <<sourceVars, rowVars, diskVars, pc, build, row, crashes>>

(***************************************************************************)
(* Sources and builds                                                      *)
(***************************************************************************)

\* The nth acceptance of a chapter that is settled (SourceBinding).  One that is
\* not settled cannot be published, and has no number.
Acceptances == [chapter : Chapters, n : 1..MaxAcceptances]

\* What a build publishes: one accepted chapter, or a collection of chapters
\* in reading order without repetition (PublicationPlan).
Builds ==
  {[collection |-> FALSE, sources |-> {a}] : a \in Acceptances} \cup
  {[collection |-> TRUE, sources |-> S] :
     S \in {T \in SUBSET Acceptances :
              T # {} /\ \A a, b \in T : a.chapter = b.chapter => a = b}}

\* load_accepted_source: the revision is accepted and intact.  Its candidate is
\* accepted by the author's decision, the revision only by its settlement.
AcceptedSource(a) == a.n <= head[a.chapter]

\* Mutant: an acceptance that was replaced since it was settled will do.
CurrentSourceReplaced(a) == AcceptedSource(a) /\ a.chapter \notin unfit

\* load_current_source: it is the settled head of its chapter as well, with
\* current dependencies and the reading order it was settled with.
CurrentSource(a) == AcceptedSource(a) /\ head[a.chapter] = a.n /\ a.chapter \notin unfit

\* make_plan and rebuild_plan succeed for build b.
Plannable(b) ==
  \A a \in b.sources : IF b.collection THEN CurrentSource(a) ELSE AcceptedSource(a)

NoFile == [id |-> 0, whole |-> FALSE]
NoAttempt == [state |-> "none", version |-> 0, stageId |-> 0, finalId |-> 0]
NoBuild == [collection |-> FALSE, sources |-> {}]

\* The project lock is held from the opening of the project to the end of
\* the request, so that nothing else changes the project meanwhile.
LockFree == pc = "idle"

\* Attempts, builds and files are well typed (the publication tables).
TypeOK ==
  /\ head \in [Chapters -> 0..MaxAcceptances]
  /\ unfit \subseteq Chapters
  /\ attempts \in [Builds -> [state : {"none", "staged", "published", "committed"},
                              version : 0..4, stageId : Nat, finalId : Nat]]
  /\ keys \in [Keys -> Builds \cup {NoBuild}]
  /\ builds \subseteq Builds
  /\ stage \in [Builds -> [id : Nat, whole : BOOLEAN]]
  /\ final \in [Builds -> [id : Nat, whole : BOOLEAN]]
  /\ files \in Nat
  /\ pc \in {"idle", "drive", "write", "record", "publish", "reopen", "update", "finalize", "load"}
  /\ build \in Builds \cup {NoBuild}
  /\ row \in [state : {"none", "staged", "published", "committed"},
              version : 0..4, stageId : Nat, finalId : Nat]
  /\ crashes \in 0..MaxCrashes

Init ==
  /\ head = [c \in Chapters |-> 0]
  /\ unfit = {}
  /\ attempts = [b \in Builds |-> NoAttempt]
  /\ keys = [k \in Keys |-> NoBuild]
  /\ builds = {}
  /\ stage = [b \in Builds |-> NoFile]
  /\ final = [b \in Builds |-> NoFile]
  /\ files = 0
  /\ pc = "idle" /\ build = NoBuild /\ row = NoAttempt
  /\ crashes = 0

(***************************************************************************)
(* The rest of the project                                                 *)
(***************************************************************************)

\* Another acceptance of chapter c is settled; the chapters of S were written
\* on the head it replaces.  No settlement goes back to an acceptance before the
\* head: its release names an earlier tracking authority (apply_settlement).
Settle(c, S) ==
  /\ LockFree
  /\ head[c] < MaxAcceptances
  /\ head' = [head EXCEPT ![c] = @ + 1]
  /\ unfit' = (unfit \ {c}) \cup S
  /\ UNCHANGED <<rowVars, diskVars, pc, build, row, crashes>>

\* A chapter is created before chapter c: the settled chapters from c on are
\* not at the place they were settled at any more (create_chapter).
CreateChapterBefore(c) ==
  /\ LockFree
  /\ unfit' = unfit \cup {d \in Chapters : d >= c /\ head[d] # 0}
  /\ UNCHANGED <<head, rowVars, diskVars, pc, build, row, crashes>>

(***************************************************************************)
(* A build                                                                 *)
(***************************************************************************)

\* The request ends, with an answer or an error.
Return ==
  /\ pc' = "idle" /\ build' = NoBuild /\ row' = NoAttempt

\* prepare_attempt inserts the row of a build that has none.
Prepared(b) ==
  IF attempts[b] = NoAttempt
  THEN [state |-> "staged", version |-> 1, stageId |-> 0, finalId |-> 0]
  ELSE attempts[b]

\* A request for build b: the sources are loaded, the attempt is prepared and
\* loaded; a committed one only has to be loaded again (build_plan).
Prepare(b) ==
  /\ LockFree
  /\ attempts[b] # NoAttempt \/ Cardinality({c \in Builds : attempts[c] # NoAttempt}) < MaxAttempts
  /\ Plannable(b)
  /\ attempts' = [attempts EXCEPT ![b] = Prepared(b)]
  /\ build' = b
  /\ row' = Prepared(b)
  /\ pc' = IF Prepared(b).state = "committed" THEN "load" ELSE "drive"
  /\ UNCHANGED <<sourceVars, builds, diskVars, crashes>>

\* build_publication: its key is the identity of the build itself.
BuildPublication(b) ==
  /\ ~b.collection
  /\ Prepare(b)
  /\ UNCHANGED keys

\* build_publication_collection with idempotency key k, which names one
\* build for ever.
BuildPublicationCollection(b, k) ==
  /\ b.collection
  /\ keys[k] \in {NoBuild, b}
  /\ Prepare(b)
  /\ keys' = [keys EXCEPT ![k] = b]

\* drive_publication_files finds the final file: it is the staged one.
FinalIsStaged ==
  /\ stage[build] = NoFile
  /\ final[build].whole /\ row.stageId = final[build].id

\* It finds the stage file: complete, and the recorded one if one is recorded.
StageIsUsable ==
  /\ final[build] = NoFile
  /\ row.state = "staged"
  /\ stage[build].whole /\ row.stageId \in {0, stage[build].id}

\* It finds neither, and nothing was staged before.
NothingStaged ==
  /\ final[build] = NoFile /\ stage[build] = NoFile
  /\ row.state = "staged" /\ row.stageId = 0

\* The published artifact is there: the row is updated if it is not yet.
FindFinal ==
  /\ pc = "drive" /\ FinalIsStaged
  /\ pc' = IF row.state = "staged" THEN "update" ELSE "finalize"
  /\ UNCHANGED <<sourceVars, rowVars, diskVars, build, row, crashes>>

\* The stage is there: its identity is recorded if it is not yet.
FindStage ==
  /\ pc = "drive" /\ StageIsUsable
  /\ pc' = IF row.stageId = 0 THEN "record" ELSE "publish"
  /\ UNCHANGED <<sourceVars, rowVars, diskVars, build, row, crashes>>

\* write_stage_new creates the file; its bytes are not there yet.
CreateStage ==
  /\ pc = "drive" /\ NothingStaged
  /\ files' = files + 1
  /\ stage' = [stage EXCEPT ![build] = [id |-> files + 1, whole |-> FALSE]]
  /\ pc' = "write"
  /\ UNCHANGED <<sourceVars, rowVars, final, build, row, crashes>>

\* Mutant: Files are published before their identity is recorded.
WriteStageUnrecorded ==
  /\ pc = "write"
  /\ stage' = [stage EXCEPT ![build].whole = TRUE]
  /\ pc' = "publish"
  /\ UNCHANGED <<sourceVars, rowVars, final, files, build, row, crashes>>

\* It is written and flushed (write_all, sync_file, revalidate).
WriteStage ==
  /\ pc = "write"
  /\ stage' = [stage EXCEPT ![build].whole = TRUE]
  /\ pc' = "record"
  /\ UNCHANGED <<sourceVars, rowVars, final, files, build, row, crashes>>

\* An update of the attempt that compares its state and version first.
UpdateAttempt(state, new) ==
  /\ attempts[build].state = state /\ attempts[build].version = row.version
  /\ attempts' = [attempts EXCEPT ![build] = new]
  /\ row' = new

\* The identity of the stage is recorded in the row.
RecordStage ==
  /\ pc = "record"
  /\ UpdateAttempt("staged", [row EXCEPT !.version = @ + 1, !.stageId = stage[build].id])
  /\ pc' = "publish"
  /\ UNCHANGED <<sourceVars, keys, builds, diskVars, build, crashes>>

\* Mutant: The stage is linked as the final file and not removed.
PublishStageLinked ==
  /\ pc = "publish"
  /\ final[build] = NoFile
  /\ final' = [final EXCEPT ![build] = stage[build]]
  /\ pc' = "reopen"
  /\ UNCHANGED <<sourceVars, rowVars, stage, files, build, row, crashes>>

\* publish_staged_noreplace: the stage becomes the final file, atomically and
\* only if there is none (renameat2 with RENAME_NOREPLACE).
PublishStage ==
  /\ pc = "publish"
  /\ final[build] = NoFile
  /\ final' = [final EXCEPT ![build] = stage[build]]
  /\ stage' = [stage EXCEPT ![build] = NoFile]
  /\ pc' = "reopen"
  /\ UNCHANGED <<sourceVars, rowVars, files, build, row, crashes>>

\* The final file is opened again and read (publish_staged_noreplace,
\* read_guarded_file, validate_artifact_bytes, require_identity).
ReopenFinal ==
  /\ pc = "reopen"
  /\ final[build].whole /\ final[build].id = row.stageId
  /\ pc' = "update"
  /\ UNCHANGED <<sourceVars, rowVars, diskVars, build, row, crashes>>

\* update_published.
UpdatePublished ==
  /\ pc = "update"
  /\ UpdateAttempt("staged", [row EXCEPT !.state = "published", !.version = @ + 1,
                                         !.finalId = final[build].id])
  /\ pc' = "finalize"
  /\ UNCHANGED <<sourceVars, keys, builds, diskVars, build, crashes>>

\* finalize_build: the sources still make the same build, the file is still
\* the published one; the build and the committed attempt are one transaction.
FinalizeBuild ==
  /\ pc = "finalize"
  /\ Plannable(build)
  /\ final[build].whole /\ final[build].id = row.finalId
  /\ UpdateAttempt("published", [row EXCEPT !.state = "committed", !.version = @ + 1])
  /\ builds' = builds \cup {build}
  /\ pc' = "load"
  /\ UNCHANGED <<sourceVars, keys, diskVars, build, crashes>>

\* load_build and publication_artifact: row, manifest and file agree.
Loadable(b) ==
  /\ b \in builds /\ attempts[b].state = "committed"
  /\ final[b].whole /\ final[b].id = attempts[b].finalId

\* The build is loaded and answered.
LoadBuild ==
  /\ pc = "load"
  /\ Loadable(build)
  /\ Return
  /\ UNCHANGED <<sourceVars, rowVars, diskVars, crashes>>

\* What the code refuses: files that are not the ones the row owns.
Refuse ==
  /\ \/ pc = "drive" /\ ~FinalIsStaged /\ ~StageIsUsable /\ ~NothingStaged
     \/ pc = "load" /\ ~Loadable(build)
  /\ Return
  /\ UNCHANGED <<sourceVars, rowVars, diskVars, crashes>>

\* The process dies, or a step fails: what is in the database and on disk
\* stays, the lock is released.
Crash ==
  /\ pc # "idle" /\ crashes < MaxCrashes
  /\ crashes' = crashes + 1
  /\ Return
  /\ UNCHANGED <<sourceVars, rowVars, diskVars>>

BuildStep ==
  \/ FindFinal \/ FindStage \/ CreateStage \/ WriteStage \/ RecordStage \/ PublishStage
  \/ ReopenFinal \/ UpdatePublished \/ FinalizeBuild \/ LoadBuild \/ Refuse

Next ==
  \/ \E c \in Chapters :
       \/ \E S \in SUBSET ({d \in Chapters : head[d] # 0} \ {c}) : Settle(c, S)
       \/ CreateChapterBefore(c)
  \/ \E b \in Builds : BuildPublication(b)
  \/ \E b \in Builds, k \in Keys : BuildPublicationCollection(b, k)
  \/ BuildStep
  \/ Crash

Spec == Init /\ [][Next]_vars

(***************************************************************************)
(* Properties                                                              *)
(***************************************************************************)

\* A reader of exports/ never meets half an artifact: whatever is at the
\* output reference is complete and is the file that was staged for the build
\* (write_stage_new, publish_staged_noreplace).
FinalIsWhole ==
  \A b \in Builds : final[b] # NoFile => final[b].whole /\ final[b].id = attempts[b].stageId

\* A build that is announced can be had: the committed row, the manifest and
\* the file agree for ever, whatever crashed on the way (finalize_build,
\* load_build, publication_artifact).
CommittedIsLoadable ==
  \A b \in Builds : b \in builds \/ attempts[b].state = "committed" => Loadable(b)

\* What is published is whole, before and after it is announced
\* (drive_publication_files, finalize_build).
PublishedIsWhole == FinalIsWhole /\ CommittedIsLoadable

\* The stage file of build b was created and not completed.
Torn(b) == stage[b] # NoFile /\ ~stage[b].whole

\* Build b can be resumed: drive_publication_files does not refuse its files.
Resumable(b) ==
  LET a == attempts[b]
  IN \/ a.state = "committed"
     \/ stage[b] = NoFile /\ final[b].whole /\ a.stageId = final[b].id
     \/ a.state = "staged" /\ final[b] = NoFile /\ stage[b].whole /\ a.stageId \in {0, stage[b].id}
     \/ a.state = "staged" /\ final[b] = NoFile /\ stage[b] = NoFile /\ a.stageId = 0

\* Crash recovery: wherever the process died, the next request finds the files
\* in one of the constellations drive_publication_files continues from.  The
\* stage that was not completed is the one exception.
ResumableUnlessTorn ==
  LockFree => \A b \in Builds : attempts[b] # NoAttempt /\ ~Torn(b) => Resumable(b)

\* Does not hold: the same without the exception (write_stage_new).
InterruptedBuildsResume ==
  LockFree => \A b \in Builds : attempts[b] # NoAttempt => Resumable(b)

\* A collection never takes the story back: when one is answered, built at
\* once, resumed after crashes and settlements or asked for again, no collection
\* published before holds a newer text of one of its chapters
\* (build_publication_collection, load_current_source, build_plan).
NewestCollectionAnswered ==
  pc = "load" /\ build.collection =>
    \A b \in builds : b.collection =>
      \A x \in build.sources, y \in b.sources : x.chapter = y.chapter => y.n <= x.n

\* Does not hold: a request for a committed collection is answered again under
\* its key.  Its chapters are compared with the heads before the key is looked
\* up (build_publication_collection).
CommittedIsAnsweredAgain ==
  LockFree => \A b \in Builds : attempts[b].state = "committed" => Plannable(b)

=============================================================================
