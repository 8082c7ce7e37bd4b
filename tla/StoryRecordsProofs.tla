------------------------- MODULE StoryRecordsProofs -------------------------
(***************************************************************************)
(* Proofs about what a project keeps of its settled chapters               *)
(* (MCStoryRecords): the publications (Publication), for any chapters,     *)
(* keys and numbers of acceptances, builds and crashes, and the history of *)
(* the story (StoryHistory), for any chapters, narrative rows, settlements, *)
(* damaged rows and number of retained snapshots.                          *)
(*                                                                         *)
(* The arguments: every crash leaves a build in one of six places, and a   *)
(* request that resumes it knows the place (Placed, RequestPlaced); and    *)
(* the log and the snapshots determine the projected tables, so tables     *)
(* that verify against an intact log are what its settlements make of an   *)
(* empty project (LogKept, SnapshotsKept).                                 *)
(***************************************************************************)
EXTENDS MCStoryRecords, Sequences, FiniteSetTheorems, WellFoundedInduction, TLAPS

(***************************************************************************)
(* Publications                                                            *)
(***************************************************************************)

\* Where a build is, told from its attempt, its files and its record: every
\* crash leaves it in one of these places.

\* What the row of an attempt says.
Says(a, state, version, stageId, finalId) ==
  a.state = state /\ a.version = version /\ a.stageId = stageId /\ a.finalId = finalId

\* The rows of attempts.
Rows == [state : {"none", "staged", "published", "committed"}, version : 0..4, stageId : Nat, finalId : Nat]

\* Nobody asked for it.
Unknown(b) ==
  attempts[b] = NoAttempt /\ stage[b] = NoFile /\ final[b] = NoFile /\ b \notin builds

\* Prepared; its stage may have been created, and completed, and is unrecorded.
Staging(b) ==
  /\ Says(attempts[b], "staged", 1, 0, 0)
  /\ stage[b] # NoFile => stage[b].id # 0
  /\ final[b] = NoFile /\ b \notin builds

\* The stage is complete and recorded.
Recorded(b) ==
  /\ Says(attempts[b], "staged", 2, stage[b].id, 0)
  /\ stage[b].whole /\ stage[b].id # 0
  /\ final[b] = NoFile /\ b \notin builds

\* The stage became the final file, which the row does not say yet.
Renamed(b) ==
  /\ Says(attempts[b], "staged", 2, final[b].id, 0)
  /\ final[b].whole /\ final[b].id # 0
  /\ stage[b] = NoFile /\ b \notin builds

\* The row says so.
Updated(b) ==
  /\ Says(attempts[b], "published", 3, final[b].id, final[b].id)
  /\ final[b].whole /\ final[b].id # 0
  /\ stage[b] = NoFile /\ b \notin builds

\* The build is committed.
Committed(b) ==
  /\ Says(attempts[b], "committed", 4, final[b].id, final[b].id)
  /\ final[b].whole /\ final[b].id # 0
  /\ stage[b] = NoFile /\ b \in builds

\* Every build is in one of these places.
Placed ==
  \A b \in Builds : Unknown(b) \/ Staging(b) \/ Recorded(b) \/ Renamed(b) \/ Updated(b) \/ Committed(b)

\* The request in progress knows the place of its build.
RequestPlaced ==
  pc # "idle" =>
    /\ build \in Builds
    /\ row = attempts[build] /\ row # NoAttempt
    /\ pc = "drive" => row.state # "committed"
    /\ pc = "write" => Staging(build) /\ stage[build] # NoFile
    /\ pc = "record" => Staging(build) /\ stage[build] # NoFile /\ stage[build].whole
    /\ pc = "publish" => Recorded(build)
    /\ pc \in {"reopen", "update"} => Renamed(build)
    /\ pc = "finalize" => Updated(build)
    /\ pc = "load" => Committed(build)

\* The inductive invariant of the publications.
PublicationInv == TypeOK /\ Placed /\ RequestPlaced

\* Build b is in one of these places.
PlacedAt(b) == Unknown(b) \/ Staging(b) \/ Recorded(b) \/ Renamed(b) \/ Updated(b) \/ Committed(b)

\* What a step may not touch of a build.
Untouched(b) ==
  /\ attempts'[b] = attempts[b] /\ stage'[b] = stage[b] /\ final'[b] = final[b]
  /\ (b \in builds') = (b \in builds)

\* An update of a row changes the columns it names.
LEMMA RowUpdates ==
  ASSUME NEW r \in Rows, NEW state \in {"published", "committed"}, NEW v \in 0..4, NEW i \in Nat
  PROVE  /\ [r EXCEPT !.version = v, !.stageId = i] \in Rows
         /\ Says([r EXCEPT !.version = v, !.stageId = i], r.state, v, i, r.finalId)
         /\ [r EXCEPT !.state = state, !.version = v, !.finalId = i] \in Rows
         /\ Says([r EXCEPT !.state = state, !.version = v, !.finalId = i], state, v, r.stageId, i)
         /\ [r EXCEPT !.state = state, !.version = v] \in Rows
         /\ Says([r EXCEPT !.state = state, !.version = v], state, v, r.stageId, r.finalId)
BY DEF Rows, Says

\* A build a step does not touch stays where it is.
LEMMA UntouchedStays ==
  ASSUME NEW b \in Builds, Untouched(b)
  PROVE  PlacedAt(b) => PlacedAt(b)'
BY DEF Says, Untouched, PlacedAt, Unknown, Staging, Recorded, Renamed, Updated, Committed

\* A step that touches one build and leaves it in a place leaves all so.
LEMMA OneTouched ==
  ASSUME Placed, NEW b \in Builds, \A c \in Builds \ {b} : Untouched(c), PlacedAt(b)'
  PROVE  Placed'
<1> SUFFICES ASSUME NEW c \in Builds PROVE PlacedAt(c)' BY DEF Placed, PlacedAt
<1>1. CASE c = b BY <1>1
<1>2. CASE c # b BY <1>2, UntouchedStays DEF Placed, PlacedAt
<1> QED BY <1>1, <1>2

\* An empty project satisfies the invariant.
LEMMA PublicationInit == Init => PublicationInv
<1> SUFFICES ASSUME Init PROVE PublicationInv OBVIOUS
<1>1. TypeOK BY PublicationAssumption DEF Init, TypeOK, NoAttempt, NoFile
<1>2. Placed BY DEF Init, Placed, Unknown
<1> QED BY <1>1, <1>2 DEF Init, PublicationInv, RequestPlaced

\* No build is the absent one.
LEMMA BuildsAreBuilds == NoBuild \notin Builds
BY DEF NoBuild, Builds

\* Sources and crashes stay what they are.
RestTyped ==
  /\ head' \in [Chapters -> 0..MaxAcceptances]
  /\ unfit' \subseteq Chapters
  /\ crashes' \in 0..MaxCrashes

\* The rest of the project, and a request that ends, touch no build.
LEMMA OtherPreserves ==
  ASSUME PublicationInv,
         \/ \E c \in Chapters :
              \/ \E S \in SUBSET ({d \in Chapters : head[d] # 0} \ {c}) : Settle(c, S)
              \/ CreateChapterBefore(c)
         \/ FindFinal \/ FindStage \/ ReopenFinal \/ LoadBuild \/ Refuse \/ Crash
         \/ UNCHANGED vars
  PROVE  PublicationInv'
<1> USE PublicationAssumption DEF vars, sourceVars, rowVars, diskVars, Says
<1>1. UNCHANGED <<attempts, keys, builds, stage, final, files>>
  BY DEF CreateChapterBefore, Settle, FindFinal, FindStage, ReopenFinal, LoadBuild, Refuse, Crash
<1>2. \A b \in Builds : Untouched(b) BY <1>1 DEF Untouched
<1>3. Placed' BY <1>2, UntouchedStays DEF PublicationInv, Placed, PlacedAt
<1>4. RestTyped
  <2> USE DEF RestTyped
  <2> USE DEF PublicationInv, TypeOK
  <2>1. ASSUME NEW c \in Chapters, CreateChapterBefore(c) PROVE RestTyped BY <2>1 DEF CreateChapterBefore
  <2>2. ASSUME NEW c \in Chapters, NEW S \in SUBSET ({d \in Chapters : head[d] # 0} \ {c}), Settle(c, S)
        PROVE  RestTyped
    BY <2>2 DEF Settle
  <2>3. CASE FindFinal \/ FindStage \/ ReopenFinal \/ LoadBuild \/ Refuse \/ Crash \/ UNCHANGED vars
    <3>1. UNCHANGED sourceVars /\ (UNCHANGED crashes \/ (crashes < MaxCrashes /\ crashes' = crashes + 1))
      BY <2>3 DEF FindFinal, FindStage, ReopenFinal, LoadBuild, Refuse, Crash
    <3> QED BY <3>1
  <2> QED BY <2>1, <2>2, <2>3
<1>5. CASE /\ UNCHANGED <<pc, build, row>>
  <2>1. TypeOK' BY <1>1, <1>4, <1>5 DEF PublicationInv, TypeOK, RestTyped
  <2>2. RequestPlaced'
    BY <1>1, <1>5 DEF PublicationInv, RequestPlaced, Staging, Recorded, Renamed, Updated, Committed
  <2> QED BY <1>3, <2>1, <2>2 DEF PublicationInv
<1>6. CASE Return
  <2>1. TypeOK' BY <1>1, <1>4, <1>6 DEF PublicationInv, TypeOK, RestTyped, Return, NoAttempt
  <2>2. RequestPlaced' BY <1>6 DEF Return, RequestPlaced
  <2> QED BY <1>3, <2>1, <2>2 DEF PublicationInv
<1>7. CASE FindFinal \/ FindStage \/ ReopenFinal
  <2>1. UNCHANGED <<build, row>> /\ pc # "idle" /\ build \in Builds
    BY <1>7 DEF FindFinal, FindStage, ReopenFinal, PublicationInv, RequestPlaced
  <2>2. PlacedAt(build) /\ row = attempts[build] /\ row # NoAttempt
    BY <2>1 DEF PublicationInv, RequestPlaced, Placed, PlacedAt
  <2>3. /\ pc' \in {"update", "finalize", "record", "publish"}
        /\ pc' = "update" => Renamed(build)
        /\ pc' = "finalize" => Updated(build)
        /\ pc' = "record" => Staging(build) /\ stage[build] # NoFile /\ stage[build].whole
        /\ pc' = "publish" => Recorded(build)
    <3>1. CASE FindFinal
      BY <3>1, <2>1, <2>2 DEF FindFinal, FinalIsStaged, PublicationInv, RequestPlaced, PlacedAt, Unknown,
         Staging, Recorded, Renamed, Updated, Committed, NoFile
    <3>2. CASE FindStage
      BY <3>2, <2>1, <2>2 DEF FindStage, StageIsUsable, PlacedAt, Unknown,
         Staging, Recorded, Renamed, Updated, Committed, NoFile
    <3>3. CASE ReopenFinal BY <3>3, <2>1 DEF ReopenFinal, PublicationInv, RequestPlaced
    <3> QED BY <1>7, <3>1, <3>2, <3>3
  <2>4. TypeOK' BY <1>1, <1>4, <2>1, <2>3 DEF PublicationInv, TypeOK, RestTyped
  <2>5. RequestPlaced'
    BY <1>1, <2>1, <2>2, <2>3 DEF RequestPlaced, Staging, Recorded, Renamed, Updated, Committed
  <2> QED BY <1>3, <2>4, <2>5 DEF PublicationInv
<1> QED BY <1>5, <1>6, <1>7 DEF CreateChapterBefore, Settle, LoadBuild, Refuse, Crash

\* A request is prepared: its build has an attempt from now on.
LEMMA PreparePreserves ==
  ASSUME PublicationInv, NEW b \in Builds, Prepare(b), keys' \in [Keys -> Builds \cup {NoBuild}]
  PROVE  PublicationInv'
<1> USE PublicationAssumption DEF sourceVars, diskVars, Says
<1>1. /\ attempts' = [attempts EXCEPT ![b] = Prepared(b)]
      /\ build' = b /\ row' = Prepared(b)
      /\ pc' = IF Prepared(b).state = "committed" THEN "load" ELSE "drive"
      /\ UNCHANGED <<head, unfit, builds, stage, final, files, crashes>>
  BY DEF Prepare
<1>2. Prepared(b) \in [state : {"none", "staged", "published", "committed"},
                       version : 0..4, stageId : Nat, finalId : Nat]
  BY DEF Prepared, PublicationInv, TypeOK
<1>3. TypeOK' BY <1>1, <1>2 DEF PublicationInv, TypeOK
<1>4. attempts'[b] = Prepared(b) BY <1>1 DEF PublicationInv, TypeOK
<1>5. /\ PlacedAt(b)' /\ Prepared(b) # NoAttempt
      /\ Prepared(b).state = "committed" => Committed(b)'
  <2>1. CASE attempts[b] = NoAttempt
    <3>1. Unknown(b)
      BY <2>1 DEF PublicationInv, Placed, Staging, Recorded, Renamed, Updated, Committed, NoAttempt
    <3>2. Prepared(b) = [state |-> "staged", version |-> 1, stageId |-> 0, finalId |-> 0]
      BY <2>1 DEF Prepared
    <3>3. Staging(b)' BY <1>1, <1>4, <3>1, <3>2 DEF Unknown, Staging
    <3> QED BY <3>2, <3>3 DEF PlacedAt, NoAttempt
  <2>2. CASE attempts[b] # NoAttempt
    <3>1. Prepared(b) = attempts[b] /\ Untouched(b) BY <1>1, <1>4, <2>2 DEF Prepared, Untouched
    <3>2. PlacedAt(b)' BY <3>1, UntouchedStays DEF PublicationInv, Placed, PlacedAt
    <3>3. attempts[b].state = "committed" => Committed(b)
      BY <2>2 DEF PublicationInv, Placed, Unknown, Staging, Recorded, Renamed, Updated
    <3>4. attempts[b].state = "committed" => Committed(b)' BY <3>1, <3>3 DEF Untouched, Committed
    <3> QED BY <2>2, <3>1, <3>2, <3>4
  <2> QED BY <2>1, <2>2
<1>6. \A c \in Builds \ {b} : Untouched(c) BY <1>1 DEF Untouched, PublicationInv, TypeOK
<1>7. Placed' BY <1>5, <1>6, OneTouched DEF PublicationInv
<1>8. RequestPlaced' BY <1>1, <1>4, <1>5 DEF RequestPlaced, Committed
<1> QED BY <1>3, <1>7, <1>8 DEF PublicationInv

\* The steps of a build, each to the next place.
LEMMA BuildPreserves ==
  ASSUME PublicationInv,
         CreateStage \/ WriteStage \/ RecordStage \/ PublishStage \/ UpdatePublished \/ FinalizeBuild
  PROVE  PublicationInv'
<1> USE PublicationAssumption DEF sourceVars, rowVars, diskVars, Says
<1>1. pc # "idle" BY DEF CreateStage, WriteStage, RecordStage, PublishStage, UpdatePublished, FinalizeBuild
<1>2. PICK b \in Builds : b = build BY <1>1 DEF PublicationInv, RequestPlaced
<1>3. row = attempts[b] /\ row # NoAttempt /\ PlacedAt(b)
  BY <1>1, <1>2 DEF PublicationInv, RequestPlaced, Placed, PlacedAt
<1>4. UNCHANGED <<head, unfit, keys, build, crashes>>
  BY DEF CreateStage, WriteStage, RecordStage, PublishStage, UpdatePublished, FinalizeBuild
<1>5. /\ attempts \in [Builds -> Rows]
      /\ stage \in [Builds -> [id : Nat, whole : BOOLEAN]]
      /\ final \in [Builds -> [id : Nat, whole : BOOLEAN]]
      /\ builds \subseteq Builds /\ files \in Nat
  BY DEF PublicationInv, TypeOK, Rows
<1>6. \A c \in Builds \ {b} : Untouched(c)
  BY <1>2, <1>5 DEF CreateStage, WriteStage, RecordStage, PublishStage, UpdatePublished, FinalizeBuild,
     UpdateAttempt, Untouched
<1>7. CASE CreateStage
  <2>1. /\ UNCHANGED <<attempts, builds, final, row>> /\ pc' = "write" /\ files' = files + 1
        /\ stage' = [stage EXCEPT ![b] = [id |-> files + 1, whole |-> FALSE]]
    BY <1>2, <1>7 DEF CreateStage
  <2>2. Staging(b)' /\ stage'[b] # NoFile
    BY <1>2, <1>3, <1>5, <1>7, <2>1
    DEF CreateStage, NothingStaged, PlacedAt, Unknown, Staging, Recorded, Renamed, Updated, Committed,
        NoFile, NoAttempt
  <2>3. TypeOK' BY <1>4, <1>5, <2>1 DEF PublicationInv, TypeOK
  <2>4. Placed' BY <1>6, <2>2, OneTouched DEF PublicationInv, PlacedAt
  <2>5. RequestPlaced' BY <1>2, <1>3, <1>4, <2>1, <2>2 DEF RequestPlaced, Staging
  <2> QED BY <2>3, <2>4, <2>5 DEF PublicationInv
<1>8. CASE WriteStage
  <2>1. /\ UNCHANGED <<attempts, builds, final, files, row>> /\ pc' = "record"
        /\ stage' = [stage EXCEPT ![b].whole = TRUE]
    BY <1>2, <1>8 DEF WriteStage
  <2>2. Staging(b)' /\ stage'[b] # NoFile /\ stage'[b].whole
    BY <1>2, <1>5, <1>8, <2>1 DEF WriteStage, PublicationInv, RequestPlaced, Staging, NoFile
  <2>3. TypeOK' BY <1>4, <1>5, <2>1 DEF PublicationInv, TypeOK
  <2>4. Placed' BY <1>6, <2>2, OneTouched DEF PublicationInv, PlacedAt
  <2>5. RequestPlaced' BY <1>2, <1>3, <1>4, <2>1, <2>2 DEF RequestPlaced, Staging
  <2> QED BY <2>3, <2>4, <2>5 DEF PublicationInv
<1>9. CASE RecordStage
  <2> DEFINE new == [row EXCEPT !.version = @ + 1, !.stageId = stage[b].id]
  <2>1. /\ UNCHANGED <<builds, stage, final, files>> /\ pc' = "publish"
        /\ attempts' = [attempts EXCEPT ![b] = new] /\ row' = new
    BY <1>2, <1>9 DEF RecordStage, UpdateAttempt
  <2>2. Staging(b) /\ stage[b] # NoFile /\ stage[b].whole
    BY <1>2, <1>9 DEF RecordStage, PublicationInv, RequestPlaced
  <2>3. Says(new, "staged", 2, stage[b].id, 0) /\ new \in Rows
    <3>1. Says(row, "staged", 1, 0, 0) BY <1>3, <2>2 DEF Staging
    <3>2. row \in Rows /\ row.version + 1 \in 0..4 /\ stage[b].id \in Nat /\ final[b].id \in Nat
      BY <1>3, <1>5, <3>1 DEF Rows
    <3> DEFINE v == row.version + 1
    <3>3. new = [row EXCEPT !.version = v, !.stageId = stage[b].id] OBVIOUS
    <3> HIDE DEF v, Says, new
    <3>4. new \in Rows /\ Says(new, row.state, v, stage[b].id, row.finalId)
      BY <3>2, <3>3, RowUpdates DEF v
    <3> QED BY <3>1, <3>4 DEF v, Says
  <2> HIDE DEF new
  <2>4. Recorded(b)' BY <1>5, <2>1, <2>2, <2>3 DEF Staging, Recorded
  <2>5. TypeOK' BY <1>4, <1>5, <2>1, <2>3 DEF PublicationInv, TypeOK, Rows
  <2>6. Placed' BY <1>6, <2>4, OneTouched DEF PublicationInv, PlacedAt
  <2>7. RequestPlaced' BY <1>2, <1>4, <1>5, <2>1, <2>3, <2>4 DEF RequestPlaced, Recorded, NoAttempt
  <2> QED BY <2>5, <2>6, <2>7 DEF PublicationInv
<1>10. CASE PublishStage
  <2>1. /\ UNCHANGED <<attempts, builds, files, row>> /\ pc' = "reopen"
        /\ final' = [final EXCEPT ![b] = stage[b]] /\ stage' = [stage EXCEPT ![b] = NoFile]
    BY <1>2, <1>10 DEF PublishStage
  <2>2. Recorded(b) BY <1>2, <1>10 DEF PublishStage, PublicationInv, RequestPlaced
  <2>3. Renamed(b)' BY <1>5, <2>1, <2>2 DEF Recorded, Renamed
  <2>4. TypeOK' BY <1>4, <1>5, <2>1 DEF PublicationInv, TypeOK, NoFile
  <2>5. Placed' BY <1>6, <2>3, OneTouched DEF PublicationInv, PlacedAt
  <2>6. RequestPlaced' BY <1>2, <1>3, <1>4, <2>1, <2>3 DEF RequestPlaced, Renamed
  <2> QED BY <2>4, <2>5, <2>6 DEF PublicationInv
<1>11. CASE UpdatePublished
  <2> DEFINE new == [row EXCEPT !.state = "published", !.version = @ + 1, !.finalId = final[b].id]
  <2>1. /\ UNCHANGED <<builds, stage, final, files>> /\ pc' = "finalize"
        /\ attempts' = [attempts EXCEPT ![b] = new] /\ row' = new
    BY <1>2, <1>11 DEF UpdatePublished, UpdateAttempt
  <2>2. Renamed(b) BY <1>2, <1>11 DEF UpdatePublished, PublicationInv, RequestPlaced
  <2>3. Says(new, "published", 3, final[b].id, final[b].id) /\ new \in Rows
    <3>1. Says(row, "staged", 2, final[b].id, 0)
      BY <1>3, <2>2 DEF Renamed
    <3>2. row \in Rows /\ row.version + 1 \in 0..4 /\ stage[b].id \in Nat /\ final[b].id \in Nat
      BY <1>3, <1>5, <3>1 DEF Rows
    <3> DEFINE v == row.version + 1
    <3>3. new = [row EXCEPT !.state = "published", !.version = v, !.finalId = final[b].id] OBVIOUS
    <3> HIDE DEF v, Says, new
    <3>4. new \in Rows /\ Says(new, "published", v, row.stageId, final[b].id)
      BY <3>2, <3>3, RowUpdates DEF v
    <3> QED BY <3>1, <3>4 DEF v, Says
  <2> HIDE DEF new
  <2>4. Updated(b)' BY <1>5, <2>1, <2>2, <2>3 DEF Renamed, Updated
  <2>5. TypeOK' BY <1>4, <1>5, <2>1, <2>3 DEF PublicationInv, TypeOK, Rows
  <2>6. Placed' BY <1>6, <2>4, OneTouched DEF PublicationInv, PlacedAt
  <2>7. RequestPlaced' BY <1>2, <1>4, <1>5, <2>1, <2>3, <2>4 DEF RequestPlaced, Updated, NoAttempt
  <2> QED BY <2>5, <2>6, <2>7 DEF PublicationInv
<1>12. CASE FinalizeBuild
  <2> DEFINE new == [row EXCEPT !.state = "committed", !.version = @ + 1]
  <2>1. /\ UNCHANGED <<stage, final, files>> /\ pc' = "load" /\ builds' = builds \cup {b}
        /\ attempts' = [attempts EXCEPT ![b] = new] /\ row' = new
    BY <1>2, <1>12 DEF FinalizeBuild, UpdateAttempt
  <2>2. Updated(b) BY <1>2, <1>12 DEF FinalizeBuild, PublicationInv, RequestPlaced
  <2>3. Says(new, "committed", 4, final[b].id, final[b].id) /\ new \in Rows
    <3>1. Says(row, "published", 3, final[b].id, final[b].id)
      BY <1>3, <2>2 DEF Updated
    <3>2. row \in Rows /\ row.version + 1 \in 0..4 /\ stage[b].id \in Nat /\ final[b].id \in Nat
      BY <1>3, <1>5, <3>1 DEF Rows
    <3> DEFINE v == row.version + 1
    <3>3. new = [row EXCEPT !.state = "committed", !.version = v] OBVIOUS
    <3> HIDE DEF v, Says, new
    <3>4. new \in Rows /\ Says(new, "committed", v, row.stageId, row.finalId)
      BY <3>2, <3>3, RowUpdates DEF v
    <3> QED BY <3>1, <3>4 DEF v, Says
  <2> HIDE DEF new
  <2>4. Committed(b)' BY <1>5, <2>1, <2>2, <2>3 DEF Updated, Committed
  <2>5. TypeOK' BY <1>4, <1>5, <2>1, <2>3 DEF PublicationInv, TypeOK, Rows
  <2>6. Placed' BY <1>6, <2>4, OneTouched DEF PublicationInv, PlacedAt
  <2>7. RequestPlaced' BY <1>2, <1>4, <1>5, <2>1, <2>3, <2>4 DEF RequestPlaced, Committed, NoAttempt
  <2> QED BY <2>5, <2>6, <2>7 DEF PublicationInv
<1> QED BY <1>7, <1>8, <1>9, <1>10, <1>11, <1>12

\* The invariant is inductive.
THEOREM PublicationInvariant == Spec => []PublicationInv
<1>1. PublicationInv /\ [Next]_vars => PublicationInv'
  <2> SUFFICES ASSUME PublicationInv, [Next]_vars PROVE PublicationInv' OBVIOUS
  <2>1. ASSUME NEW b \in Builds, BuildPublication(b) PROVE PublicationInv'
    BY <2>1, PreparePreserves DEF BuildPublication, PublicationInv, TypeOK
  <2>2. ASSUME NEW b \in Builds, NEW k \in Keys, BuildPublicationCollection(b, k) PROVE PublicationInv'
    BY <2>2, PreparePreserves DEF BuildPublicationCollection, PublicationInv, TypeOK
  <2>3. CASE BuildStep BY <2>3, OtherPreserves, BuildPreserves DEF BuildStep
  <2> QED BY <2>1, <2>2, <2>3, OtherPreserves DEF Next
<1> QED BY PublicationInit, <1>1, PTL DEF Spec

\* Attempts, builds and files are well typed.
THEOREM PublicationTyped == Spec => []TypeOK
<1>1. PublicationInv => TypeOK BY DEF PublicationInv
<1> QED BY PublicationInvariant, <1>1, PTL

\* A reader of exports/ never meets half an artifact, and an announced build
\* can be had for ever, whatever crashed on the way
\* (drive_publication_files, finalize_build, publication_artifact).
THEOREM PublicationsAreWhole == Spec => []PublishedIsWhole
<1>1. PublicationInv => PublishedIsWhole
  <2> SUFFICES ASSUME PublicationInv, NEW b \in Builds
               PROVE  /\ final[b] # NoFile => final[b].whole /\ final[b].id = attempts[b].stageId
                      /\ b \in builds \/ attempts[b].state = "committed" => Loadable(b)
    BY DEF PublishedIsWhole, FinalIsWhole, CommittedIsLoadable
  <2> USE DEF Says
  <2>1. CASE Unknown(b) BY <2>1 DEF Unknown, NoAttempt
  <2>2. CASE Staging(b) BY <2>2 DEF Staging
  <2>3. CASE Recorded(b) BY <2>3 DEF Recorded
  <2>4. CASE Renamed(b) BY <2>4 DEF Renamed
  <2>5. CASE Updated(b) BY <2>5 DEF Updated
  <2>6. CASE Committed(b) BY <2>6 DEF Committed, Loadable
  <2> QED BY <2>1, <2>2, <2>3, <2>4, <2>5, <2>6 DEF PublicationInv, Placed
<1> QED BY PublicationInvariant, <1>1, PTL

\* Wherever the process died, the next request continues from the files it
\* finds, unless the stage was not completed (drive_publication_files).
THEOREM BuildsResume == Spec => []ResumableUnlessTorn
<1>1. PublicationInv => ResumableUnlessTorn
  <2> SUFFICES ASSUME PublicationInv, NEW b \in Builds, attempts[b] # NoAttempt, ~Torn(b)
               PROVE  Resumable(b)
    BY DEF ResumableUnlessTorn
  <2> USE DEF Says
  <2>1. CASE Unknown(b) BY <2>1 DEF Unknown
  <2>2. CASE Staging(b) BY <2>2 DEF Staging, Torn, Resumable
  <2>3. CASE Recorded(b) BY <2>3 DEF Recorded, Resumable
  <2>4. CASE Renamed(b) BY <2>4 DEF Renamed, Resumable
  <2>5. CASE Updated(b) BY <2>5 DEF Updated, Resumable
  <2>6. CASE Committed(b) BY <2>6 DEF Committed, Resumable
  <2> QED BY <2>1, <2>2, <2>3, <2>4, <2>5, <2>6 DEF PublicationInv, Placed
<1> QED BY PublicationInvariant, <1>1, PTL

\* A build names each of its sources by chapter and number.
LEMMA SourcesAreAcceptances ==
  ASSUME NEW b \in Builds, NEW a \in b.sources
  PROVE  a.chapter \in Chapters /\ a.n \in 1..MaxAcceptances
<1>1. b.sources \subseteq Acceptances
  BY DEF Builds
<1> QED BY <1>1 DEF Acceptances

\* What was published as a collection is not newer than the heads, and a
\* collection in progress is made of heads, which the project lock keeps.
HeadsLead ==
  /\ \A b \in builds : b.collection => \A a \in b.sources : a.n <= head[a.chapter]
  /\ pc # "idle" /\ build.collection => \A a \in build.sources : head[a.chapter] = a.n

\* Heads only move forward, and only while no collection is in progress.
LEMMA HeadsLeadStep ==
  ASSUME PublicationInv, HeadsLead, [Next]_vars
  PROVE  HeadsLead'
<1> USE PublicationAssumption DEF vars, sourceVars, rowVars, diskVars
<1>1. ASSUME NEW c \in Chapters, NEW S \in SUBSET ({d \in Chapters : head[d] # 0} \ {c}), Settle(c, S)
      PROVE  HeadsLead'
  <2>1. /\ UNCHANGED <<builds, pc, build>> /\ pc = "idle"
        /\ head \in [Chapters -> 0..MaxAcceptances] /\ builds \subseteq Builds
        /\ head' = [head EXCEPT ![c] = @ + 1]
    BY <1>1 DEF Settle, LockFree, PublicationInv, TypeOK
  <2>2. ASSUME NEW b \in builds, b.collection, NEW a \in b.sources
        PROVE  a.n <= head'[a.chapter]
    <3>1. a.chapter \in Chapters /\ a.n \in Nat
      BY <2>1, SourcesAreAcceptances
    <3>2. a.n <= head[a.chapter]
      BY <2>2 DEF HeadsLead
    <3>3. head[a.chapter] \in Nat
      <4>1. head[a.chapter] \in 0..MaxAcceptances
        BY <2>1, <3>1
      <4> QED BY <4>1
    <3>4. head'[a.chapter] = IF a.chapter = c THEN head[c] + 1 ELSE head[a.chapter]
      BY <2>1, <3>1
    <3> QED BY <2>1, <3>1, <3>2, <3>3, <3>4
  <2> QED BY <2>1, <2>2 DEF HeadsLead
<1>2. ASSUME NEW b \in Builds, Prepare(b)
      PROVE  HeadsLead'
  <2>1. UNCHANGED <<builds, head>> /\ build' = b /\ Plannable(b)
    BY <1>2 DEF Prepare
  <2> QED BY <2>1 DEF HeadsLead, Plannable, CurrentSource
<1>3. CASE FinalizeBuild
  <2>1. /\ builds' = builds \cup {build} /\ pc # "idle" /\ UNCHANGED <<build, head>>
        /\ head \in [Chapters -> 0..MaxAcceptances] /\ build \in Builds
    BY <1>3 DEF FinalizeBuild, PublicationInv, TypeOK, RequestPlaced
  <2>2. ASSUME build.collection, NEW a \in build.sources
        PROVE  a.n <= head[a.chapter]
    <3>1. a.chapter \in Chapters /\ a.n \in Nat
      BY <2>1, SourcesAreAcceptances
    <3> QED BY <2>1, <2>2, <3>1 DEF HeadsLead
  <2> QED BY <2>1, <2>2 DEF HeadsLead
<1>4. CASE UNCHANGED <<builds, head>> /\ (UNCHANGED build \/ pc' = "idle") /\ (pc # "idle" \/ pc' = "idle")
  BY <1>4 DEF HeadsLead
<1>5. ASSUME NEW c \in Chapters, CreateChapterBefore(c) PROVE HeadsLead'
  BY <1>5 DEF CreateChapterBefore, HeadsLead, LockFree
<1>6. CASE BuildStep
  BY <1>3, <1>4, <1>6 DEF BuildStep, FindFinal, FindStage, CreateStage, WriteStage, RecordStage,
     PublishStage, ReopenFinal, UpdatePublished, LoadBuild, Refuse, Return
<1>7. CASE Crash
  BY <1>4, <1>7 DEF Crash, Return
<1>8. CASE UNCHANGED vars
  BY <1>8 DEF HeadsLead
<1> QED BY <1>1, <1>2, <1>5, <1>6, <1>7, <1>8 DEF Next, BuildPublication, BuildPublicationCollection

\* A collection that is answered is as new as every collection published before
\* it, whatever was settled, interrupted and resumed meanwhile
\* (build_publication_collection, load_current_source, build_plan).
THEOREM CollectionsAreNewest == Spec => []NewestCollectionAnswered
<1>1. Init => HeadsLead
  BY DEF Init, HeadsLead
<1>2. PublicationInv /\ HeadsLead => NewestCollectionAnswered
  <2> SUFFICES ASSUME PublicationInv, HeadsLead, pc = "load", build.collection,
                      NEW b \in builds, b.collection,
                      NEW x \in build.sources, NEW y \in b.sources, x.chapter = y.chapter
               PROVE  y.n <= x.n
    BY DEF NewestCollectionAnswered
  <2> QED BY DEF HeadsLead
<1> QED BY <1>1, <1>2, HeadsLeadStep, PublicationInvariant, PTL DEF Spec

(***************************************************************************)
(* The story history                                                       *)
(***************************************************************************)

\* What an event says, and the events of the log.
Payloads == [chapter : SettledChapters, n : 0..MaxCandidates, deltas : Story!Deltas]
EventRecords == [base : Nat, commit : Nat, payload : Payloads, fingerprint : Payloads]

\* The part of a projection that the log determines.
View(proj) == [canon |-> proj.canon, ledger |-> proj.ledger, sources |-> proj.sources]

\* The view of an empty project, and what a settlement makes of a view.
EmptyView ==
  [canon |-> [c \in SettledChapters |-> 0], ledger |-> [e \in Story!Entities |-> Story!NoRow],
   sources |-> [e \in Story!Entities |-> Story!NoSource]]
Settled(s, p) ==
  [canon |-> [s.canon EXCEPT ![p.chapter] = p.n],
   ledger |-> Story!ApplyNarrativeDeltas(s.ledger, p.deltas, p.chapter, p.n),
   sources |-> Story!StaleSources(Story!UpsertNarrativeSources(s.sources, p.deltas, p.chapter, p.n),
                                  p.chapter, s.canon[p.chapter])]

\* f lists the views a project goes through with the settlements of a chain.
Replays(f, chain) ==
  f = [i \in 0..Len(chain) |-> IF i = 0 THEN EmptyView ELSE Settled(f[i - 1], chain[i])]

\* A row has the source its candidate left, which is stale or still the head.
RowsSourced(proj) ==
  \A e \in Story!Entities : proj.ledger[e] # Story!NoRow =>
    /\ proj.ledger[e].chapter \in SettledChapters /\ proj.ledger[e].n \in Nat \ {0}
    /\ proj.sources[e].chapter = proj.ledger[e].chapter /\ proj.sources[e].n = proj.ledger[e].n
    /\ \/ proj.sources[e].state = "stale"
       \/ proj.sources[e].state = "current" /\ proj.canon[proj.ledger[e].chapter] = proj.ledger[e].n

\* The candidates a chain settled.
SettledBy(chain) == {<<chain[i].chapter, chain[i].n>> : i \in DOMAIN chain}

\* A projection is what the settlements of a chain make of an empty project.
Faithful(proj, chain) ==
  /\ proj = [canon |-> proj.canon, ledger |-> proj.ledger, sources |-> proj.sources,
             tracking |-> proj.tracking, anchors |-> proj.anchors]
  /\ proj.canon \in [SettledChapters -> Nat]
  /\ RowsSourced(proj)
  /\ proj.anchors = SettledBy(chain)
  /\ \E f : Replays(f, chain) /\ f[Len(chain)] = View(proj)

\* The log and its head: only the payload of an event can be damaged.
LogKept ==
  /\ events \in Seq(EventRecords)
  /\ \A i \in 1..Len(events) : events[i].base = i - 1 /\ events[i].commit = i
  /\ stateHead.revision = Len(events) /\ stateHead.snapshot = Len(events)
  /\ stateHead.chain = Story!Chain(events)

\* The snapshots: the latest has its fingerprint from the present chain,
\* whatever became of its projection.
SnapshotsKept ==
  /\ \A s \in snapshots :
       /\ s = [through |-> s.through, chain |-> s.chain, projection |-> s.projection,
               fingerprint |-> s.fingerprint]
       /\ s.through \in 1..Len(events)
       /\ s.through = Len(events) => s.chain = stateHead.chain /\ Faithful(s.fingerprint, stateHead.chain)
  /\ Len(events) # 0 => \E s \in snapshots : s.through = Len(events)

\* Before the first settlement there is nothing to damage.
EmptyAtFirst ==
  Len(events) = 0 =>
    /\ View(Story!StoryProjection) = EmptyView /\ anchors = {}
    /\ tracking = [version |-> 0, invalidated |-> {}]

\* The inductive invariant of the story history.
StoryInv == LogKept /\ SnapshotsKept /\ EmptyAtFirst

\* A set of numbers that is not empty has a least element.
LEMMA LeastElement ==
  ASSUME NEW S \in SUBSET Nat, S # {}
  PROVE  \E x \in S : \A y \in S : x <= y
<1> DEFINE less == {ss \in Nat \X Nat : ss[1] < ss[2]}
<1>1. IsWellFoundedOn(less, Nat) BY NatLessThanWellFounded, Zenon DEF OpToRel
<1>2. PICK x \in S : \A y \in S : ~ (<<y, x>> \in less)
  <2> HIDE DEF less
  <2> QED BY <1>1, WFMin
<1>3. ASSUME NEW y \in S PROVE x <= y
  <2>1. y \in Nat /\ x \in Nat /\ <<y, x>> \in Nat \X Nat OBVIOUS
  <2>2. <<y, x>>[1] = y /\ <<y, x>>[2] = x OBVIOUS
  <2>3. ~ (<<y, x>>[1] < <<y, x>>[2]) BY <1>2, <2>1, Zenon
  <2> QED BY <2>1, <2>2, <2>3
<1> QED BY <1>3

\* A chain has one replay: the first view two of them differ in would have
\* the same predecessor in both.
LEMMA OneReplay ==
  ASSUME NEW chain, Len(chain) \in Nat, NEW f, Replays(f, chain), NEW g, Replays(g, chain)
  PROVE  f = g
<1> DEFINE n == Len(chain)
           Next1(h, i) == IF i = 0 THEN EmptyView ELSE Settled(h[i - 1], chain[i])
<1>1. f = [i \in 0..n |-> Next1(f, i)] /\ g = [i \in 0..n |-> Next1(g, i)] BY DEF Replays
<1>2. \A i \in 0..n : f[i] = Next1(f, i) /\ g[i] = Next1(g, i) BY <1>1
<1>3. ASSUME NEW m \in 0..n, f[m] # g[m], \A i \in 0..n : f[i] # g[i] => m <= i PROVE FALSE
  <2>1. m # 0 BY <1>2, <1>3
  <2>2. m - 1 \in 0..n /\ m - 1 < m BY <2>1
  <2>3. f[m - 1] = g[m - 1] BY <1>3, <2>2
  <2>4. Next1(f, m) = Next1(g, m) BY <2>3
  <2> QED BY <1>2, <1>3, <2>4
<1> HIDE DEF Next1
<1>4. \A i \in 0..n : f[i] = g[i]
  <2> DEFINE Differ == {i \in 0..n : f[i] # g[i]}
  <2> SUFFICES ASSUME Differ # {} PROVE FALSE OBVIOUS
  <2>1. Differ \in SUBSET Nat OBVIOUS
  <2>2. PICK m \in Differ : \A i \in Differ : m <= i
    <3> HIDE DEF Differ
    <3> QED BY <2>1, LeastElement
  <2> QED BY <1>3, <2>2
<1> QED BY <1>1, <1>4

\* Events that are valid replay as their chain does.
LEMMA ReplayOfChain ==
  ASSUME LogKept, Story!EventsValid, NEW f, Replays(f, stateHead.chain)
  PROVE  Story!Replay = f[Len(events)]
<1> DEFINE chain == stateHead.chain
           Is(g) == g = [i \in 0..Len(events) |->
                           IF i = 0 THEN EmptyView ELSE Settled(g[i - 1], events[i].payload)]
<1>1. /\ Len(chain) = Len(events) /\ Len(events) \in Nat
      /\ \A i \in 1..Len(events) : chain[i] = events[i].payload
  BY DEF LogKept, Story!Chain, Story!EventsValid
<1>2. \A g : Is(g) <=> Replays(g, chain)
  BY <1>1 DEF Replays
<1>3. Story!Replay = (CHOOSE g : Is(g))[Len(events)]
  BY Zenon DEF Story!Replay, EmptyView, Settled
<1> HIDE DEF Is
<1>4. Is(CHOOSE g : Is(g)) BY <1>2
<1>5. (CHOOSE g : Is(g)) = f BY <1>1, <1>2, <1>4, OneReplay
<1> QED BY <1>3, <1>5

\* An empty project satisfies the invariant.
LEMMA StoryInit == Story!Init => StoryInv
<1> SUFFICES ASSUME Story!Init PROVE StoryInv OBVIOUS
<1>1. events = <<>> /\ Len(events) = 0 /\ events \in Seq(EventRecords) BY DEF Story!Init
<1>2. Story!Chain(events) = <<>> BY <1>1 DEF Story!Chain
<1>3. LogKept BY <1>1, <1>2 DEF Story!Init, LogKept
<1>4. SnapshotsKept BY <1>1 DEF Story!Init, SnapshotsKept
<1>5. EmptyAtFirst BY DEF Story!Init, EmptyAtFirst, View, EmptyView, Story!StoryProjection
<1> QED BY <1>3, <1>4, <1>5 DEF StoryInv

\* A project that opens shows what its chain makes of an empty project.
LEMMA VerifiedFaithful ==
  ASSUME StoryInv, Story!VerifyStoryHistory
  PROVE  Faithful(Story!StoryProjection, stateHead.chain)
<1> DEFINE proj == Story!StoryProjection
           chain == stateHead.chain
<1> USE DEF StoryInv
<1>1. CASE Len(events) = 0
  <2>1. /\ canon = [c \in SettledChapters |-> 0] /\ ledger = [e \in Story!Entities |-> Story!NoRow]
        /\ sources = [e \in Story!Entities |-> Story!NoSource] /\ anchors = {}
    BY <1>1 DEF EmptyAtFirst, View, EmptyView, Story!StoryProjection
  <2>2. chain = <<>> /\ Len(chain) = 0 BY <1>1 DEF LogKept, Story!Chain
  <2>3. proj = [canon |-> proj.canon, ledger |-> proj.ledger, sources |-> proj.sources,
                tracking |-> proj.tracking, anchors |-> proj.anchors]
    BY DEF Story!StoryProjection
  <2>4. proj.canon \in [SettledChapters -> Nat] /\ RowsSourced(proj) /\ proj.anchors = SettledBy(chain)
    BY <2>1, <2>2 DEF Story!StoryProjection, RowsSourced, SettledBy
  <2>5. Replays([i \in 0..0 |-> EmptyView], chain) BY <2>2 DEF Replays
  <2>6. View(proj) = EmptyView BY <1>1 DEF EmptyAtFirst
  <2> QED BY <2>2, <2>3, <2>4, <2>5, <2>6 DEF Faithful
<1>2. CASE Len(events) # 0
  <2>1. PICK s \in snapshots : s.through = stateHead.snapshot /\ Story!SnapshotMatches(s, proj)
    BY <1>2 DEF Story!VerifyStoryHistory, Story!VerifiedWith, LogKept
  <2>2. s.projection = proj /\ s.fingerprint = s.projection /\ s.through = Len(events)
    BY <2>1 DEF Story!SnapshotMatches, LogKept
  <2> QED BY <2>2 DEF SnapshotsKept
<1> QED BY <1>1, <1>2

\* The chain of a log is a list of what its events say.
LEMMA ChainType ==
  ASSUME NEW log \in Seq(EventRecords)
  PROVE  Story!Chain(log) \in Seq(Payloads) /\ Len(Story!Chain(log)) = Len(log)
<1>1. DOMAIN log = 1..Len(log) /\ Len(log) \in Nat OBVIOUS
<1>2. \A i \in 1..Len(log) : log[i].fingerprint \in Payloads
  <2>1. \A i \in 1..Len(log) : log[i] \in EventRecords OBVIOUS
  <2> QED BY <2>1 DEF EventRecords
<1> QED BY <1>1, <1>2 DEF Story!Chain

\* What a settlement makes of a faithful projection.
LEMMA SettledFaithful ==
  ASSUME NEW c \in SettledChapters, NEW n \in 1..MaxCandidates, NEW deltas \in Story!ValidDeltas,
         NEW affected, StoryInv, Story!ApplySettlement(c, n, deltas, affected)
  PROVE  Faithful(Story!StoryProjection, stateHead.chain)'
<1> USE StoryAssumption
<1> DEFINE p == [chapter |-> c, n |-> n, deltas |-> deltas]
           proj == Story!StoryProjection
           chain == stateHead.chain
<1>1. Faithful(proj, chain) BY VerifiedFaithful DEF Story!ApplySettlement
<1>2. /\ canon' = [canon EXCEPT ![c] = n] /\ n = canon[c] + 1
      /\ ledger' = Story!ApplyNarrativeDeltas(ledger, deltas, c, n)
      /\ sources' = Story!StaleSources(Story!UpsertNarrativeSources(sources, deltas, c, n), c, canon[c])
      /\ anchors' = anchors \cup {<<c, n>>}
      /\ stateHead'.chain = Append(chain, p)
  BY DEF Story!ApplySettlement, Story!AppendStoryEvent
<1>3. chain \in Seq(Payloads) /\ p \in Payloads
  <2>1. p \in Payloads BY DEF Payloads, Story!ValidDeltas
  <2>2. events \in Seq(EventRecords) /\ chain = Story!Chain(events) BY DEF StoryInv, LogKept
  <2> QED BY <2>1, <2>2, ChainType
<1>4. /\ Len(stateHead'.chain) = Len(chain) + 1 /\ Len(chain) \in Nat
      /\ stateHead'.chain[Len(chain) + 1] = p
      /\ \A i \in 1..Len(chain) : stateHead'.chain[i] = chain[i]
      /\ DOMAIN stateHead'.chain = 1..(Len(chain) + 1) /\ DOMAIN chain = 1..Len(chain)
  BY <1>2, <1>3
<1>5. /\ canon \in [SettledChapters -> Nat] /\ RowsSourced(proj) /\ anchors = SettledBy(chain)
  BY <1>1 DEF Faithful, Story!StoryProjection
<1>6. proj' = [canon |-> proj'.canon, ledger |-> proj'.ledger, sources |-> proj'.sources,
               tracking |-> proj'.tracking, anchors |-> proj'.anchors]
  BY DEF Story!StoryProjection
<1>7. proj'.canon \in [SettledChapters -> Nat] BY <1>2, <1>5 DEF Story!StoryProjection
<1>8. RowsSourced(proj)'
  <2> SUFFICES ASSUME NEW e \in Story!Entities, ledger'[e] # Story!NoRow
               PROVE  /\ ledger'[e].chapter \in SettledChapters /\ ledger'[e].n \in Nat \ {0}
                      /\ sources'[e].chapter = ledger'[e].chapter /\ sources'[e].n = ledger'[e].n
                      /\ \/ sources'[e].state = "stale"
                         \/ sources'[e].state = "current" /\ canon'[ledger'[e].chapter] = ledger'[e].n
    BY DEF RowsSourced, Story!StoryProjection
  <2> DEFINE src == Story!UpsertNarrativeSources(sources, deltas, c, n)[e]
  <2>1. sources'[e] = IF canon[c] # 0 /\ src.chapter = c /\ src.n = canon[c] /\ src.state = "current"
                      THEN [src EXCEPT !.state = "stale"] ELSE src
    BY <1>2 DEF Story!StaleSources
  <2>2. CASE e \in DOMAIN deltas
    <3>1. src = [chapter |-> c, n |-> n, state |-> "current"] BY <2>2 DEF Story!UpsertNarrativeSources
    <3>2. ledger'[e].chapter = c /\ ledger'[e].n = n BY <1>2, <2>2 DEF Story!ApplyNarrativeDeltas
    <3>3. src.n # canon[c] BY <1>2, <1>5, <3>1
    <3>4. sources'[e] = src BY <2>1, <3>3
    <3>5. canon'[c] = n BY <1>2, <1>5
    <3> QED BY <3>1, <3>2, <3>4, <3>5
  <2>3. CASE e \notin DOMAIN deltas
    <3>1. src = sources[e] BY <2>3 DEF Story!UpsertNarrativeSources
    <3>2. ledger'[e] = ledger[e] BY <1>2, <2>3 DEF Story!ApplyNarrativeDeltas
    <3>3. /\ ledger[e].chapter \in SettledChapters /\ ledger[e].n \in Nat \ {0}
          /\ sources[e].chapter = ledger[e].chapter /\ sources[e].n = ledger[e].n
          /\ \/ sources[e].state = "stale"
             \/ sources[e].state = "current" /\ canon[ledger[e].chapter] = ledger[e].n
      BY <1>5, <3>2 DEF RowsSourced, Story!StoryProjection
    <3>4. CASE sources[e].state = "stale" BY <2>1, <3>1, <3>2, <3>3, <3>4
    <3>5. CASE sources[e].state = "current" /\ ledger[e].chapter # c
      BY <1>2, <1>5, <2>1, <3>1, <3>2, <3>3, <3>5
    <3>6. CASE sources[e].state = "current" /\ ledger[e].chapter = c
      <4>1. sources'[e] = [sources[e] EXCEPT !.state = "stale"] BY <2>1, <3>1, <3>3, <3>6
      <4> QED BY <3>2, <3>3, <4>1
    <3> QED BY <3>3, <3>4, <3>5, <3>6
  <2> QED BY <2>2, <2>3
<1>9. anchors' = SettledBy(stateHead'.chain)
  <2>1. SettledBy(stateHead'.chain) = SettledBy(chain) \cup {<<c, n>>}
    <3> DEFINE new == stateHead'.chain
    <3> HIDE DEF chain, new, p
    <3>1. /\ DOMAIN chain = 1..Len(chain) /\ DOMAIN new = 1..(Len(chain) + 1) /\ Len(chain) \in Nat
          /\ \A i \in 1..Len(chain) : new[i] = chain[i]
      BY <1>4 DEF chain, new
    <3>2. new[Len(chain) + 1].chapter = c /\ new[Len(chain) + 1].n = n BY <1>4 DEF p, chain, new
    <3>3. ASSUME NEW x \in SettledBy(new) PROVE x \in SettledBy(chain) \cup {<<c, n>>}
      <4>1. PICK i \in DOMAIN new : x = <<new[i].chapter, new[i].n>> BY DEF SettledBy
      <4>2. CASE i = Len(chain) + 1 BY <3>2, <4>1, <4>2
      <4>3. CASE i # Len(chain) + 1
        <5>1. i \in DOMAIN chain /\ new[i] = chain[i] BY <3>1, <4>3
        <5> QED BY <4>1, <5>1 DEF SettledBy
      <4> QED BY <4>2, <4>3
    <3>4. ASSUME NEW x \in SettledBy(chain) PROVE x \in SettledBy(new)
      <4>1. PICK i \in DOMAIN chain : x = <<chain[i].chapter, chain[i].n>> BY DEF SettledBy
      <4>2. i \in DOMAIN new /\ new[i] = chain[i] BY <3>1, <4>1
      <4> QED BY <4>1, <4>2 DEF SettledBy
    <3>5. <<c, n>> \in SettledBy(new)
      <4>1. Len(chain) + 1 \in DOMAIN new BY <3>1
      <4> QED BY <3>2, <4>1 DEF SettledBy
    <3>6. SettledBy(new) = SettledBy(chain) \cup {<<c, n>>} BY <3>3, <3>4, <3>5
    <3> QED BY <3>6 DEF new, chain
  <2> QED BY <1>2, <1>5, <2>1
<1>10. \E f : Replays(f, stateHead'.chain) /\ f[Len(stateHead'.chain)] = View(proj')
  <2>1. PICK f : Replays(f, chain) /\ f[Len(chain)] = View(proj) BY <1>1 DEF Faithful
  <2> DEFINE m == Len(chain)
             v == Settled(View(proj), p)
             g == [i \in 0..(m + 1) |-> IF i = m + 1 THEN v ELSE f[i]]
  <2>2. View(proj') = v
    BY <1>2 DEF View, Settled, Story!StoryProjection
  <2>3. \A i \in 0..m : f[i] = IF i = 0 THEN EmptyView ELSE Settled(f[i - 1], chain[i])
    BY <2>1 DEF Replays
  <2> HIDE DEF v
  <2>4. \A i \in 0..(m + 1) :
          g[i] = IF i = 0 THEN EmptyView ELSE Settled(g[i - 1], stateHead'.chain[i])
    <3> SUFFICES ASSUME NEW i \in 0..(m + 1)
                 PROVE  g[i] = IF i = 0 THEN EmptyView ELSE Settled(g[i - 1], stateHead'.chain[i])
      OBVIOUS
    <3>1. CASE i = m + 1
      <4>1. i # 0 /\ g[i] = v /\ g[i - 1] = f[m] /\ stateHead'.chain[i] = p BY <1>4, <3>1
      <4> QED BY <2>1, <4>1 DEF v
    <3>2. CASE i # m + 1 /\ i # 0
      <4>1. i \in 1..m /\ i - 1 \in 0..m BY <1>4, <3>2
      <4>2. g[i] = f[i] /\ g[i - 1] = f[i - 1] /\ stateHead'.chain[i] = chain[i] BY <1>4, <3>2, <4>1
      <4> QED BY <2>3, <3>2, <4>1, <4>2
    <3>3. CASE i = 0 BY <1>4, <2>3, <3>3
    <3> QED BY <3>1, <3>2, <3>3
  <2>5. Replays(g, stateHead'.chain)
    <3> HIDE DEF g
    <3>1. g = [i \in 0..(m + 1) |-> g[i]] BY DEF g
    <3> QED BY <1>4, <2>4, <3>1 DEF Replays
  <2>6. g[m + 1] = v BY <1>4
  <2> QED BY <1>4, <2>2, <2>5, <2>6
<1> QED BY <1>6, <1>7, <1>8, <1>9, <1>10 DEF Faithful, Story!StoryProjection, RowsSourced, View, Replays

\* A settlement appends one event and one snapshot, which is kept.
LEMMA SettlementPreserves ==
  ASSUME NEW c \in SettledChapters, NEW n \in 1..MaxCandidates, NEW deltas \in Story!ValidDeltas,
         NEW affected, StoryInv, Story!ApplySettlement(c, n, deltas, affected)
  PROVE  StoryInv'
<1> USE StoryAssumption
<1> DEFINE p == [chapter |-> c, n |-> n, deltas |-> deltas]
           r == stateHead.revision
           event == [base |-> r, commit |-> r + 1, payload |-> p, fingerprint |-> p]
           new == [through |-> stateHead'.revision, chain |-> stateHead'.chain,
                   projection |-> Story!StoryProjection', fingerprint |-> Story!StoryProjection']
           all == snapshots \cup {new}
<1>1. /\ events' = Append(events, event)
      /\ stateHead' = [revision |-> r + 1, snapshot |-> r + 1, chain |-> Append(stateHead.chain, p)]
      /\ snapshots' = Story!KeptSnapshots(all)
  BY DEF Story!ApplySettlement, Story!AppendStoryEvent, Story!CreateStorySnapshot
<1>2. /\ events \in Seq(EventRecords) /\ r = Len(events) /\ Len(events) \in Nat
      /\ stateHead.chain = Story!Chain(events)
      /\ \A i \in 1..Len(events) : events[i].base = i - 1 /\ events[i].commit = i
  BY DEF StoryInv, LogKept
<1>3. p \in Payloads BY DEF Payloads, Story!ValidDeltas
<1>4. event \in EventRecords BY <1>2, <1>3 DEF EventRecords
<1>5. /\ events' \in Seq(EventRecords) /\ Len(events') = r + 1
      /\ events'[r + 1] = event /\ \A i \in 1..r : events'[i] = events[i]
  BY <1>1, <1>2, <1>4
<1>6. stateHead'.revision = r + 1 /\ stateHead'.snapshot = r + 1
      /\ stateHead'.chain = Append(stateHead.chain, p)
  BY <1>1
<1>7. stateHead'.chain = Story!Chain(events')
  <2>1. stateHead.chain \in Seq(Payloads) /\ Len(stateHead.chain) = r BY <1>2, ChainType
  <2>2. /\ DOMAIN stateHead'.chain = 1..(r + 1) /\ stateHead'.chain[r + 1] = p
        /\ \A i \in 1..r : stateHead'.chain[i] = stateHead.chain[i]
        /\ stateHead'.chain = [i \in 1..(r + 1) |-> stateHead'.chain[i]]
    BY <1>2, <1>3, <1>6, <2>1
  <2>3. \A i \in 1..r : stateHead.chain[i] = events[i].fingerprint BY <1>2 DEF Story!Chain
  <2>4. \A i \in 1..(r + 1) : stateHead'.chain[i] = events'[i].fingerprint
    <3> SUFFICES ASSUME NEW i \in 1..(r + 1) PROVE stateHead'.chain[i] = events'[i].fingerprint OBVIOUS
    <3>1. CASE i = r + 1 BY <1>5, <2>2, <3>1
    <3>2. CASE i # r + 1
      <4>1. i \in 1..r BY <1>2, <3>2
      <4> QED BY <1>5, <2>2, <2>3, <4>1
    <3> QED BY <3>1, <3>2
  <2>5. DOMAIN events' = 1..(r + 1) BY <1>5
  <2> QED BY <2>2, <2>4, <2>5 DEF Story!Chain
<1>8. LogKept'
  <2>1. \A i \in 1..Len(events') : events'[i].base = i - 1 /\ events'[i].commit = i
    <3> SUFFICES ASSUME NEW i \in 1..(r + 1) PROVE events'[i].base = i - 1 /\ events'[i].commit = i BY <1>5
    <3>1. CASE i = r + 1 BY <1>2, <1>5, <3>1
    <3>2. CASE i # r + 1
      <4>1. i \in 1..r BY <1>2, <3>2
      <4> QED BY <1>2, <1>5, <4>1
    <3> QED BY <3>1, <3>2
  <2> QED BY <1>5, <1>6, <1>7, <2>1 DEF LogKept, Story!Chain
<1> HIDE DEF event, p, r
<1>9. new.through = r + 1 /\ \A s \in snapshots : s.through \in 1..r
  BY <1>2, <1>6 DEF StoryInv, SnapshotsKept
<1>10. new \in snapshots'
  <2> HIDE DEF new
  <2>1. {t \in all : t.through > new.through} = {} BY <1>2, <1>9
  <2>2. Story!Cardinality({t \in all : t.through > new.through}) = 0
    BY <2>1, FS_EmptySet, Zenon DEF Story!Cardinality, Cardinality
  <2> QED BY <1>1, <2>2 DEF Story!KeptSnapshots
<1>11. snapshots' \subseteq all BY <1>1 DEF Story!KeptSnapshots
<1>12. SnapshotsKept'
  <2>1. Faithful(Story!StoryProjection, stateHead.chain)' BY SettledFaithful
  <2>2. ASSUME NEW s \in snapshots', s # new
        PROVE  /\ s = [through |-> s.through, chain |-> s.chain, projection |-> s.projection,
                       fingerprint |-> s.fingerprint]
               /\ s.through \in 1..r
    BY <1>2, <1>11, <2>2 DEF StoryInv, SnapshotsKept
  <2>3. /\ new = [through |-> new.through, chain |-> new.chain, projection |-> new.projection,
                  fingerprint |-> new.fingerprint]
        /\ new.chain = stateHead'.chain /\ new.fingerprint = Story!StoryProjection'
    OBVIOUS
  <2> HIDE DEF new
  <2> SUFFICES /\ \A s \in snapshots' :
                    /\ s = [through |-> s.through, chain |-> s.chain, projection |-> s.projection,
                            fingerprint |-> s.fingerprint]
                    /\ s.through \in 1..(r + 1)
                    /\ s.through = r + 1 => s.chain = stateHead'.chain /\ Faithful(s.fingerprint, stateHead'.chain)
               /\ \E s \in snapshots' : s.through = r + 1
    BY <1>5 DEF SnapshotsKept, Faithful, RowsSourced, Replays
  <2>4. Faithful(Story!StoryProjection', stateHead'.chain)
    BY <2>1 DEF Faithful, RowsSourced, Replays
  <2>5. \A s \in snapshots' : s # new => s.through \in 1..(r + 1) /\ s.through # r + 1 BY <1>2, <2>2
  <2>6. r + 1 \in 1..(r + 1) BY <1>2
  <2> QED BY <1>9, <1>10, <2>2, <2>3, <2>4, <2>5, <2>6
<1>13. EmptyAtFirst' BY <1>2, <1>5 DEF EmptyAtFirst
<1> QED BY <1>8, <1>12, <1>13 DEF StoryInv

\* A restoration changes projected tables of a project with settlements only.
LEMMA RestorePreserves ==
  ASSUME StoryInv, NEW expected, Story!RestoreStorySnapshot(expected)
  PROVE  StoryInv'
<1>1. UNCHANGED <<events, stateHead, snapshots>> /\ Len(events) # 0
  BY DEF Story!RestoreStorySnapshot, Story!Restorable, Story!historyVars, StoryInv, LogKept
<1>2. LogKept' BY <1>1 DEF StoryInv, LogKept, Story!Chain
<1>3. SnapshotsKept' BY <1>1 DEF StoryInv, SnapshotsKept, Faithful, RowsSourced, Replays
<1>4. EmptyAtFirst' BY <1>1 DEF EmptyAtFirst
<1> QED BY <1>2, <1>3, <1>4 DEF StoryInv

\* So does damage to a projected table: an empty project has nothing there.
LEMMA DamageProjectionPreserves ==
  ASSUME StoryInv, Story!DamageProjection
  PROVE  StoryInv'
<1>1. UNCHANGED <<events, stateHead, snapshots>> BY DEF Story!DamageProjection, Story!historyVars
<1>2. Len(events) # 0
  <2> SUFFICES ASSUME Len(events) = 0 PROVE FALSE OBVIOUS
  <2>1. /\ \A c \in SettledChapters : canon[c] = 0
        /\ \A e \in Story!Entities : ledger[e] = Story!NoRow /\ sources[e] = Story!NoSource
        /\ tracking.invalidated = {}
    BY DEF StoryInv, EmptyAtFirst, View, EmptyView, Story!StoryProjection
  <2> QED BY <2>1 DEF Story!DamageProjection, Story!NoSource
<1>3. LogKept' BY <1>1 DEF StoryInv, LogKept, Story!Chain
<1>4. SnapshotsKept' BY <1>1 DEF StoryInv, SnapshotsKept, Faithful, RowsSourced, Replays
<1>5. EmptyAtFirst' BY <1>1, <1>2 DEF EmptyAtFirst
<1> QED BY <1>3, <1>4, <1>5 DEF StoryInv

\* Damage to a snapshot leaves its place in the history as it was.
LEMMA AlteredSnapshot ==
  ASSUME NEW s, s = [through |-> s.through, chain |-> s.chain, projection |-> s.projection,
                     fingerprint |-> s.fingerprint]
  PROVE  LET t == [s EXCEPT !.projection.anchors = {}]
         IN /\ t.through = s.through /\ t.chain = s.chain /\ t.fingerprint = s.fingerprint
            /\ t = [through |-> t.through, chain |-> t.chain, projection |-> t.projection,
                    fingerprint |-> t.fingerprint]
OBVIOUS

\* Damage to the history: revisions and the rows that identify it are left.
LEMMA DamageHistoryPreserves ==
  ASSUME StoryInv, Story!DamageHistory
  PROVE  StoryInv'
<1>1. UNCHANGED <<canon, ledger, sources, tracking, stateHead>> BY DEF Story!DamageHistory
<1>2. CASE \E a \in anchors : anchors' = anchors \ {a} /\ UNCHANGED <<events, snapshots>>
  <2>1. UNCHANGED <<events, snapshots>> BY <1>2
  <2>2. LogKept' BY <1>1, <2>1 DEF StoryInv, LogKept, Story!Chain
  <2>3. SnapshotsKept' BY <1>1, <2>1 DEF StoryInv, SnapshotsKept, Faithful, RowsSourced, Replays
  <2>4. EmptyAtFirst'
    BY <1>1, <1>2, <2>1 DEF StoryInv, EmptyAtFirst, View, EmptyView, Story!StoryProjection
  <2> QED BY <2>2, <2>3, <2>4 DEF StoryInv
<1>3. ASSUME NEW i \in DOMAIN events,
             events' = [events EXCEPT ![i].payload = [@ EXCEPT !.n = 0]],
             UNCHANGED <<anchors, snapshots>>
      PROVE  StoryInv'
  <2>1. /\ events \in Seq(EventRecords) /\ DOMAIN events = 1..Len(events) /\ Len(events) \in Nat
        /\ events \in [1..Len(events) -> EventRecords]
    BY DEF StoryInv, LogKept
  <2>2. events[i] \in EventRecords BY <2>1, <1>3
  <2> DEFINE q == [events[i].payload EXCEPT !.n = 0]
             e == [events[i] EXCEPT !.payload = q]
  <2>3. q \in Payloads BY <2>2, StoryAssumption DEF EventRecords, Payloads
  <2> HIDE DEF q
  <2>4. /\ e \in EventRecords /\ e.fingerprint = events[i].fingerprint
        /\ e.base = events[i].base /\ e.commit = events[i].commit
    BY <2>2, <2>3 DEF EventRecords
  <2>5. events' = [events EXCEPT ![i] = e] BY <1>3 DEF q
  <2> HIDE DEF e
  <2>6. events' \in [1..Len(events) -> EventRecords] BY <2>1, <2>4, <2>5
  <2>7. events' \in Seq(EventRecords) /\ Len(events') = Len(events) BY <2>1, <2>6
  <2>8. \A j \in 1..Len(events) :
          /\ events'[j].fingerprint = events[j].fingerprint
          /\ events'[j].base = events[j].base /\ events'[j].commit = events[j].commit
    BY <2>1, <2>4, <2>5
  <2>9. Story!Chain(events') = Story!Chain(events)
    <3>1. DOMAIN events' = 1..Len(events) BY <2>6
    <3> QED BY <2>1, <2>8, <3>1 DEF Story!Chain
  <2>10. LogKept' BY <1>1, <2>7, <2>8, <2>9 DEF StoryInv, LogKept, Story!Chain
  <2>11. SnapshotsKept'
    BY <1>1, <1>3, <2>7 DEF StoryInv, SnapshotsKept, Faithful, RowsSourced, Replays
  <2>12. EmptyAtFirst'
    BY <1>1, <1>3, <2>7 DEF StoryInv, EmptyAtFirst, View, EmptyView, Story!StoryProjection
  <2> QED BY <2>10, <2>11, <2>12 DEF StoryInv
<1>4. ASSUME NEW s \in snapshots,
             snapshots' = (snapshots \ {s}) \cup {[s EXCEPT !.projection.anchors = {}]},
             UNCHANGED <<anchors, events>>
      PROVE  StoryInv'
  <2> DEFINE t == [s EXCEPT !.projection.anchors = {}]
  <2>1. /\ t.through = s.through /\ t.chain = s.chain /\ t.fingerprint = s.fingerprint
        /\ t = [through |-> t.through, chain |-> t.chain, projection |-> t.projection,
                fingerprint |-> t.fingerprint]
    BY AlteredSnapshot DEF StoryInv, SnapshotsKept
  <2>2. snapshots' = (snapshots \ {s}) \cup {t} BY <1>4
  <2> HIDE DEF t
  <2>3. LogKept' BY <1>1, <1>4 DEF StoryInv, LogKept, Story!Chain
  <2>4. SnapshotsKept'
    <3>1. ASSUME NEW x \in snapshots'
          PROVE  /\ x = [through |-> x.through, chain |-> x.chain, projection |-> x.projection,
                         fingerprint |-> x.fingerprint]
                 /\ x.through \in 1..Len(events)
                 /\ x.through = Len(events) =>
                      x.chain = stateHead.chain /\ Faithful(x.fingerprint, stateHead.chain)
      <4>1. CASE x = t BY <2>1, <4>1 DEF StoryInv, SnapshotsKept
      <4>2. CASE x # t BY <2>2, <4>2 DEF StoryInv, SnapshotsKept
      <4> QED BY <4>1, <4>2
    <3>2. Len(events) # 0 => \E x \in snapshots' : x.through = Len(events)
      BY <2>1, <2>2 DEF StoryInv, SnapshotsKept
    <3>3. events' = events /\ stateHead' = stateHead BY <1>1, <1>4
    <3> QED BY <3>1, <3>2, <3>3 DEF SnapshotsKept, Faithful, RowsSourced, Replays
  <2>5. EmptyAtFirst'
    BY <1>1, <1>4 DEF StoryInv, EmptyAtFirst, View, EmptyView, Story!StoryProjection
  <2> QED BY <2>3, <2>4, <2>5 DEF StoryInv
<1> QED BY <1>2, <1>3, <1>4 DEF Story!DamageHistory

\* The invariant is inductive; a publication changes nothing of the history.
THEOREM StoryInvariant == RecordsSpec => []StoryInv
<1>1. RecordsInit => StoryInv BY StoryInit DEF RecordsInit
<1>2. StoryInv /\ Story!Next => StoryInv'
  BY SettlementPreserves, RestorePreserves, DamageProjectionPreserves, DamageHistoryPreserves
  DEF Story!Next
<1>3. StoryInv /\ UNCHANGED storyVars => StoryInv'
  <2> SUFFICES ASSUME StoryInv, UNCHANGED storyVars PROVE StoryInv' OBVIOUS
  <2> USE DEF storyVars
  <2>1. LogKept' BY DEF StoryInv, LogKept, Story!Chain
  <2>2. SnapshotsKept' BY DEF StoryInv, SnapshotsKept, Faithful, RowsSourced, Replays
  <2>3. EmptyAtFirst' BY DEF StoryInv, EmptyAtFirst, View, EmptyView, Story!StoryProjection
  <2> QED BY <2>1, <2>2, <2>3 DEF StoryInv
<1>4. StoryInv /\ [RecordsNext]_<<vars, storyVars, subject>> => StoryInv'
  BY <1>2, <1>3 DEF RecordsNext
<1> QED BY <1>1, <1>4, PTL DEF RecordsSpec

\* A project that opens shows exactly what its log of settlements makes of it,
\* whatever was damaged and restored before (open_strict,
\* verify_story_history, restore_latest_story_snapshot).
THEOREM OpenedIsHistory == RecordsSpec => []OpenedStateIsHistory
<1>1. StoryInv => OpenedStateIsHistory
  <2> SUFFICES ASSUME StoryInv, Story!VerifyStoryHistory
               PROVE  [canon |-> canon, ledger |-> ledger, sources |-> sources] = Story!Replay
    BY DEF OpenedStateIsHistory, Story!OpenedStateIsHistory
  <2>1. PICK f : /\ Replays(f, stateHead.chain)
                 /\ f[Len(stateHead.chain)] = View(Story!StoryProjection)
    BY VerifiedFaithful DEF Faithful
  <2>2. Story!EventsValid BY DEF Story!VerifyStoryHistory, Story!VerifiedWith
  <2>3. Len(stateHead.chain) = Len(events) BY ChainType DEF StoryInv, LogKept
  <2>4. Story!Replay = View(Story!StoryProjection) BY <2>1, <2>2, <2>3, ReplayOfChain DEF StoryInv
  <2> QED BY <2>4 DEF View, Story!StoryProjection
<1> QED BY StoryInvariant, <1>1, PTL

\* While the log, the accepted revisions and the latest snapshot are intact,
\* a restoration of the present revision succeeds, whatever was done to the
\* projected tables (restore_latest_story_snapshot, create_story_snapshot).
THEOREM DamageRepairable == RecordsSpec => []DamageIsRepairable
<1>1. StoryInv => DamageIsRepairable
  <2> SUFFICES ASSUME StoryInv, Story!HistoryIntact, stateHead.revision # 0
               PROVE  \E s \in snapshots : Story!Restorable(s, stateHead.revision)
    BY DEF DamageIsRepairable, Story!DamageIsRepairable
  <2> USE DEF StoryInv
  <2>1. PICK s \in snapshots : s.through = Len(events) BY DEF SnapshotsKept, LogKept
  <2>2. /\ s.chain = stateHead.chain /\ Faithful(s.fingerprint, stateHead.chain)
        /\ s.through = stateHead.revision /\ s.through = stateHead.snapshot
    BY <2>1 DEF SnapshotsKept, LogKept
  <2>3. s.fingerprint = s.projection /\ Story!EventsValid BY <2>2 DEF Story!HistoryIntact
  <2>4. Story!HeadMatches BY DEF LogKept, Story!HeadMatches
  <2>5. s.projection.anchors = anchors
    <3>1. s.projection.anchors = SettledBy(stateHead.chain) BY <2>2, <2>3 DEF Faithful
    <3>2. /\ DOMAIN stateHead.chain = DOMAIN events
          /\ \A i \in DOMAIN events : stateHead.chain[i] = events[i].payload
      BY <2>3 DEF LogKept, Story!Chain, Story!EventsValid
    <3>3. SettledBy(stateHead.chain) =
            {<<events[i].payload.chapter, events[i].payload.n>> : i \in DOMAIN events}
      BY <3>2 DEF SettledBy
    <3> QED BY <3>1, <3>3 DEF Story!HistoryIntact
  <2>6. Story!Materialized(s) = s.projection
    <3> DEFINE x == s.projection
    <3>1. x = [canon |-> x.canon, ledger |-> x.ledger, sources |-> x.sources, tracking |-> x.tracking,
               anchors |-> x.anchors]
      BY <2>2, <2>3 DEF Faithful
    <3>2. x.anchors = anchors BY <2>5
    <3> HIDE DEF x
    <3>3. [x EXCEPT !.anchors = anchors] = x BY <3>1, <3>2
    <3> QED BY <3>3 DEF Story!Materialized, x
  <2>7. Story!VerifiedWith(Story!Materialized(s))
    BY <2>2, <2>3, <2>4, <2>6 DEF Story!VerifiedWith, Story!SnapshotMatches
  <2> QED BY <2>2, <2>3, <2>7 DEF Story!Restorable
<1> QED BY StoryInvariant, <1>1, PTL

\* Every row the Writer is offered was written by the present head of its
\* chapter (apply_settlement, active_ledger_context_rows).
THEOREM OfferedRowsAreCurrent == RecordsSpec => []CurrentSourcesAreHeads
<1>1. StoryInv => CurrentSourcesAreHeads
  <2> SUFFICES ASSUME StoryInv, Story!VerifyStoryHistory, NEW e \in Story!ActiveLedger
               PROVE  canon[ledger[e].chapter] = ledger[e].n
    BY DEF CurrentSourcesAreHeads, Story!CurrentSourcesAreHeads
  <2>1. RowsSourced(Story!StoryProjection) BY VerifiedFaithful DEF Faithful
  <2> QED BY <2>1 DEF RowsSourced, Story!StoryProjection, Story!ActiveLedger
<1> QED BY StoryInvariant, <1>1, PTL

(***************************************************************************)
(* The tables and the snapshots that are kept                              *)
(*                                                                         *)
(* No two snapshots are of one revision, so of those that are kept the     *)
(* oldest has all others after it, and those are fewer than Retained.      *)
(***************************************************************************)

\* The projected tables.
RowRecords ==
  [chapter : SettledChapters \cup {"none"}, n : Nat, owner : Owners \cup {Story!NoOwner},
   status : {"none", "open", "partial", "paid", "abandoned"}, version : Nat]
SourceRecords ==
  [chapter : SettledChapters \cup {"none"}, n : Nat, state : {"none", "current", "stale"}]
Projections ==
  [canon : [SettledChapters -> 0..MaxCandidates], ledger : [Story!Entities -> RowRecords],
   sources : [Story!Entities -> SourceRecords],
   tracking : [version : Nat, invalidated : SUBSET SettledChapters],
   anchors : SUBSET (SettledChapters \X (1..MaxCandidates))]

\* Rows are written together with their sources.
RowsHaveSources(proj) ==
  \A e \in Story!Entities : proj.ledger[e] = Story!NoRow <=> proj.sources[e] = Story!NoSource

\* The tables, and those of every snapshot.
TablesInv ==
  /\ Story!StoryProjection \in Projections /\ RowsHaveSources(Story!StoryProjection)
  /\ \A s \in snapshots : s.projection \in Projections /\ RowsHaveSources(s.projection)
  /\ Len(events) <= MaxSettlements /\ faults \in 0..MaxFaults

\* The snapshots: few enough, and one of a revision.
RetainedInv ==
  /\ IsFiniteSet(snapshots) /\ Cardinality(snapshots) <= Retained
  /\ \A s, t \in snapshots : s.through = t.through => s = t

\* StoryHistory counts with the same Cardinality.
LEMMA SameCardinality == ASSUME NEW S PROVE Story!Cardinality(S) = Cardinality(S)
BY Zenon DEF Story!Cardinality, Cardinality

\* Of snapshots of different revisions at most Retained are kept.
LEMMA KeptAreFew ==
  ASSUME NEW all, IsFiniteSet(all), \A s \in all : s.through \in Nat,
         \A s, t \in all : s.through = t.through => s = t
  PROVE  IsFiniteSet(Story!KeptSnapshots(all)) /\ Cardinality(Story!KeptSnapshots(all)) <= Retained
<1> DEFINE kept == Story!KeptSnapshots(all)
           After(s) == {t \in all : t.through > s.through}
           times == {s.through : s \in kept}
<1>1. kept \in SUBSET all /\ \A s \in kept : Cardinality(After(s)) < Retained
  BY SameCardinality DEF Story!KeptSnapshots
<1> HIDE DEF kept
<1>2. IsFiniteSet(kept) /\ Cardinality(kept) \in Nat BY <1>1, FS_Subset, FS_CardinalityType
<1>3. CASE kept = {} BY <1>2, <1>3, FS_EmptySet, StoryAssumption DEF kept
<1>4. CASE kept # {}
  <2>1. times \in SUBSET Nat /\ times # {} BY <1>1, <1>4
  <2>2. PICK time \in times : \A x \in times : time <= x
    <3> HIDE DEF times
    <3> QED BY <2>1, LeastElement
  <2>3. PICK m \in kept : m.through = time BY <2>2
  <2>4. \A s \in kept : m.through <= s.through BY <2>2, <2>3
  <2>5. kept \ {m} \in SUBSET After(m) BY <1>1, <2>3, <2>4
  <2>6. IsFiniteSet(After(m)) /\ Cardinality(After(m)) \in Nat
    <3>1. After(m) \in SUBSET all OBVIOUS
    <3> HIDE DEF After
    <3> QED BY <3>1, FS_Subset, FS_CardinalityType
  <2>7. Cardinality(After(m)) < Retained BY <1>1, <2>3
  <2> HIDE DEF After, times
  <2>8. Cardinality(kept \ {m}) <= Cardinality(After(m)) BY <2>5, <2>6, FS_Subset
  <2>9. Cardinality(kept \ {m}) = Cardinality(kept) - 1 BY <1>2, <2>3, FS_RemoveElement
  <2> QED BY <1>2, <2>6, <2>7, <2>8, <2>9, StoryAssumption DEF kept
<1> QED BY <1>3, <1>4

\* A settlement adds one snapshot, of a new revision, and keeps few.
LEMMA RetainedStep == ASSUME StoryInv, RetainedInv, Story!Next PROVE RetainedInv'
<1>1. ASSUME NEW c \in SettledChapters, NEW n \in 1..MaxCandidates, NEW deltas \in Story!ValidDeltas,
             NEW affected, Story!ApplySettlement(c, n, deltas, affected)
      PROVE  RetainedInv'
  <2> DEFINE new == [through |-> stateHead'.revision, chain |-> stateHead'.chain,
                     projection |-> Story!StoryProjection', fingerprint |-> Story!StoryProjection']
             all == snapshots \cup {new}
  <2>1. snapshots' = Story!KeptSnapshots(all) /\ stateHead'.revision = stateHead.revision + 1
    BY <1>1 DEF Story!ApplySettlement, Story!CreateStorySnapshot, Story!AppendStoryEvent
  <2>2. stateHead.revision \in Nat /\ \A s \in snapshots : s.through \in 1..stateHead.revision
    BY DEF StoryInv, LogKept, SnapshotsKept
  <2>3. new.through = stateHead.revision + 1 BY <2>1
  <2> HIDE DEF new
  <2>4. IsFiniteSet(all) BY FS_AddElement DEF RetainedInv
  <2>5. \A s \in all : s.through \in Nat BY <2>2, <2>3
  <2>6. \A s, t \in all : s.through = t.through => s = t BY <2>2, <2>3 DEF RetainedInv
  <2>7. Story!KeptSnapshots(all) \subseteq all BY DEF Story!KeptSnapshots
  <2> HIDE DEF all
  <2> QED BY <2>1, <2>4, <2>5, <2>6, <2>7, KeptAreFew DEF RetainedInv
<1>2. ASSUME NEW expected, Story!RestoreStorySnapshot(expected) \/ Story!DamageProjection PROVE RetainedInv'
  BY <1>2 DEF Story!RestoreStorySnapshot, Story!DamageProjection, Story!historyVars, RetainedInv
<1>3. CASE Story!DamageHistory
  <2>1. CASE snapshots' = snapshots BY <2>1 DEF RetainedInv
  <2>2. ASSUME NEW s \in snapshots, snapshots' = (snapshots \ {s}) \cup {[s EXCEPT !.projection.anchors = {}]}
        PROVE  RetainedInv'
    <3> DEFINE t == [s EXCEPT !.projection.anchors = {}]
    <3>1. t.through = s.through BY AlteredSnapshot DEF StoryInv, SnapshotsKept
    <3>2. snapshots' = (snapshots \ {s}) \cup {t} BY <2>2
    <3> HIDE DEF t
    <3>3. IsFiniteSet(snapshots \ {s}) /\ Cardinality(snapshots \ {s}) = Cardinality(snapshots) - 1
      BY FS_RemoveElement DEF RetainedInv
    <3>4. /\ IsFiniteSet(snapshots')
          /\ Cardinality(snapshots') <= Cardinality(snapshots \ {s}) + 1
      <4> DEFINE rest == snapshots \ {s}
      <4>1. IsFiniteSet(rest) /\ Cardinality(rest) \in Nat BY <3>3, FS_CardinalityType
      <4> HIDE DEF rest
      <4>2. /\ IsFiniteSet(rest \cup {t})
            /\ Cardinality(rest \cup {t}) = IF t \in rest THEN Cardinality(rest) ELSE Cardinality(rest) + 1
        BY <4>1, FS_AddElement
      <4>3. Cardinality(rest \cup {t}) <= Cardinality(rest) + 1 BY <4>1, <4>2
      <4> QED BY <3>2, <4>2, <4>3 DEF rest
    <3>5. Cardinality(snapshots) \in Nat /\ Cardinality(snapshots') \in Nat
      BY <3>4, FS_CardinalityType DEF RetainedInv
    <3>6. Cardinality(snapshots') <= Retained BY <3>3, <3>4, <3>5, StoryAssumption DEF RetainedInv
    <3>7. \A x, y \in snapshots' : x.through = y.through => x = y BY <3>1, <3>2 DEF RetainedInv
    <3> QED BY <3>4, <3>6, <3>7 DEF RetainedInv
  <2> QED BY <1>3, <2>1, <2>2 DEF Story!DamageHistory
<1> QED BY <1>1, <1>2, <1>3 DEF Story!Next

\* A settlement writes rows with their sources, and heads within the bounds.
LEMMA TablesSettled ==
  ASSUME TablesInv, NEW c \in SettledChapters, NEW n \in 1..MaxCandidates, NEW deltas \in Story!ValidDeltas,
         NEW affected \in SUBSET SettledChapters, Story!ApplySettlement(c, n, deltas, affected)
  PROVE  Story!StoryProjection' \in Projections /\ RowsHaveSources(Story!StoryProjection')
<1> USE StoryAssumption
<1> DEFINE upserted == Story!UpsertNarrativeSources(sources, deltas, c, n)
<1>1. /\ canon \in [SettledChapters -> 0..MaxCandidates] /\ ledger \in [Story!Entities -> RowRecords]
      /\ sources \in [Story!Entities -> SourceRecords]
      /\ tracking \in [version : Nat, invalidated : SUBSET SettledChapters]
      /\ anchors \in SUBSET (SettledChapters \X (1..MaxCandidates))
      /\ \A e \in Story!Entities : ledger[e] = Story!NoRow <=> sources[e] = Story!NoSource
  BY DEF TablesInv, Projections, RowsHaveSources, Story!StoryProjection
<1>2. /\ canon' = [canon EXCEPT ![c] = n]
      /\ ledger' = Story!ApplyNarrativeDeltas(ledger, deltas, c, n)
      /\ sources' = Story!StaleSources(upserted, c, canon[c])
      /\ anchors' = anchors \cup {<<c, n>>}
      /\ tracking' = [version |-> tracking.version + IF affected = {} THEN 1 ELSE 2,
                      invalidated |-> (tracking.invalidated \ {c}) \cup affected]
  BY DEF Story!ApplySettlement
<1>3. canon' \in [SettledChapters -> 0..MaxCandidates] BY <1>1, <1>2
<1>4. tracking' \in [version : Nat, invalidated : SUBSET SettledChapters] BY <1>1, <1>2
<1>5. anchors' \in SUBSET (SettledChapters \X (1..MaxCandidates)) BY <1>1, <1>2
<1>6. ASSUME NEW e \in Story!Entities
      PROVE  /\ ledger'[e] \in RowRecords /\ sources'[e] \in SourceRecords
             /\ ledger'[e] = Story!NoRow <=> sources'[e] = Story!NoSource
  <2>1. upserted[e] = IF e \in DOMAIN deltas THEN [chapter |-> c, n |-> n, state |-> "current"] ELSE sources[e]
    BY DEF Story!UpsertNarrativeSources
  <2>2. upserted[e] \in SourceRecords BY <1>1, <2>1 DEF SourceRecords
  <2> HIDE DEF upserted
  <2>3. /\ sources'[e] \in SourceRecords
        /\ sources'[e] = upserted[e] \/ (sources'[e].state = "stale" /\ upserted[e].state = "current")
    BY <1>2, <2>2 DEF Story!StaleSources, SourceRecords
  <2>4. sources'[e] = Story!NoSource <=> upserted[e] = Story!NoSource
    BY <2>3 DEF Story!NoSource
  <2>5. CASE e \notin DOMAIN deltas
    <3>1. ledger'[e] = ledger[e] BY <1>2, <2>5 DEF Story!ApplyNarrativeDeltas
    <3> QED BY <1>1, <2>1, <2>3, <2>4, <2>5, <3>1
  <2>6. CASE e \in DOMAIN deltas
    <3>1. upserted[e] # Story!NoSource BY <2>1, <2>6 DEF Story!NoSource
    <3>2. ledger'[e] \in RowRecords /\ ledger'[e].n = n
      <4>1. IF e \in Owned THEN deltas[e] \in Owners ELSE deltas[e] \in DOMAIN Story!StatusOf
        BY <2>6 DEF Story!ValidDeltas
      <4>2. CASE e \in Owned
        <5>1. ledger'[e] = [chapter |-> c, n |-> n, owner |-> deltas[e], status |-> "none", version |-> 0]
          BY <1>2, <2>6, <4>2 DEF Story!ApplyNarrativeDeltas
        <5> QED BY <4>1, <4>2, <5>1 DEF RowRecords
      <4>3. CASE e \notin Owned
        <5>1. ledger'[e] = [chapter |-> c, n |-> n, owner |-> Story!NoOwner,
                            status |-> Story!StatusOf[deltas[e]], version |-> ledger[e].version + 1]
          BY <1>2, <2>6, <4>3 DEF Story!ApplyNarrativeDeltas
        <5>2. Story!StatusOf[deltas[e]] \in {"none", "open", "partial", "paid", "abandoned"}
          BY <4>1, <4>3 DEF Story!StatusOf
        <5>3. ledger[e].version \in Nat BY <1>1 DEF RowRecords
        <5> QED BY <5>1, <5>2, <5>3 DEF RowRecords
      <4> QED BY <4>2, <4>3
    <3>3. ledger'[e] # Story!NoRow BY <3>2 DEF Story!NoRow
    <3> QED BY <2>3, <2>4, <3>1, <3>2, <3>3
  <2> QED BY <2>5, <2>6
<1>7. ledger' \in [Story!Entities -> RowRecords] /\ sources' \in [Story!Entities -> SourceRecords]
  <2>1. ledger' = [e \in Story!Entities |-> ledger'[e]] BY <1>2 DEF Story!ApplyNarrativeDeltas
  <2>2. sources' = [e \in Story!Entities |-> sources'[e]] BY <1>2 DEF Story!StaleSources
  <2> QED BY <1>6, <2>1, <2>2
<1>8. Story!StoryProjection' \in Projections
  BY <1>3, <1>4, <1>5, <1>7 DEF Story!StoryProjection, Projections
<1>9. RowsHaveSources(Story!StoryProjection') BY <1>6 DEF RowsHaveSources, Story!StoryProjection
<1> QED BY <1>8, <1>9

\* Damage alters a row and leaves it a row, and what a snapshot restores are
\* tables again.
LEMMA TablesStep == ASSUME StoryInv, TablesInv, Story!Next PROVE TablesInv'
<1> USE StoryAssumption
<1> DEFINE proj == Story!StoryProjection
<1>1. /\ canon \in [SettledChapters -> 0..MaxCandidates] /\ ledger \in [Story!Entities -> RowRecords]
      /\ sources \in [Story!Entities -> SourceRecords]
      /\ tracking \in [version : Nat, invalidated : SUBSET SettledChapters]
      /\ anchors \in SUBSET (SettledChapters \X (1..MaxCandidates))
      /\ \A e \in Story!Entities : ledger[e] = Story!NoRow <=> sources[e] = Story!NoSource
  BY DEF TablesInv, Projections, RowsHaveSources, Story!StoryProjection
<1>2. ASSUME NEW c \in SettledChapters, NEW n \in 1..MaxCandidates, NEW deltas \in Story!ValidDeltas,
             NEW affected \in SUBSET SettledChapters, Len(events) < MaxSettlements,
             Story!ApplySettlement(c, n, deltas, affected)
      PROVE  TablesInv'
  <2>1. proj' \in Projections /\ RowsHaveSources(proj') BY <1>2, TablesSettled
  <2> DEFINE new == [through |-> stateHead'.revision, chain |-> stateHead'.chain,
                     projection |-> proj', fingerprint |-> proj']
  <2>2. snapshots' \subseteq snapshots \cup {new}
    BY <1>2 DEF Story!ApplySettlement, Story!CreateStorySnapshot, Story!KeptSnapshots
  <2>3. new.projection = proj' OBVIOUS
  <2> HIDE DEF new, proj
  <2>4. \A s \in snapshots' : s.projection \in Projections /\ RowsHaveSources(s.projection)
    BY <2>1, <2>2, <2>3 DEF TablesInv
  <2>5. Len(events') <= MaxSettlements /\ faults' = faults
    <3>1. \E event : events' = Append(events, event) BY <1>2 DEF Story!ApplySettlement, Story!AppendStoryEvent
    <3>2. events \in Seq(EventRecords) /\ Len(events) < MaxSettlements /\ faults' = faults
      BY <1>2 DEF Story!ApplySettlement, StoryInv, LogKept
    <3>3. Len(events') = Len(events) + 1 BY <3>1, <3>2
    <3> QED BY <3>2, <3>3
  <2> QED BY <2>1, <2>4, <2>5 DEF TablesInv, RowsHaveSources, proj
<1>3. ASSUME NEW expected, Story!RestoreStorySnapshot(expected) PROVE TablesInv'
  <2>1. PICK s \in snapshots :
          /\ canon' = Story!Materialized(s).canon /\ ledger' = Story!Materialized(s).ledger
          /\ sources' = Story!Materialized(s).sources /\ tracking' = Story!Materialized(s).tracking
    BY <1>3 DEF Story!RestoreStorySnapshot
  <2>2. UNCHANGED <<anchors, events, snapshots, faults>>
    BY <1>3 DEF Story!RestoreStorySnapshot, Story!historyVars
  <2>3. s.projection \in Projections /\ RowsHaveSources(s.projection) BY DEF TablesInv
  <2>4. /\ canon' = s.projection.canon /\ ledger' = s.projection.ledger
        /\ sources' = s.projection.sources /\ tracking' = s.projection.tracking
    BY <2>1, <2>3 DEF Story!Materialized, Projections
  <2>5. proj' \in Projections BY <1>1, <2>2, <2>3, <2>4 DEF Projections, Story!StoryProjection
  <2>6. RowsHaveSources(proj)' BY <2>3, <2>4 DEF RowsHaveSources, Story!StoryProjection
  <2> QED BY <2>2, <2>5, <2>6 DEF TablesInv, RowsHaveSources
<1>4. CASE Story!DamageProjection
  <2>1. UNCHANGED <<anchors, events, snapshots>> /\ faults' \in 0..MaxFaults
    BY <1>4 DEF Story!DamageProjection, Story!Fault, Story!historyVars, TablesInv
  <2>2. /\ canon' \in [SettledChapters -> 0..MaxCandidates] /\ ledger' \in [Story!Entities -> RowRecords]
        /\ sources' \in [Story!Entities -> SourceRecords]
        /\ tracking' \in [version : Nat, invalidated : SUBSET SettledChapters]
        /\ \A e \in Story!Entities : ledger'[e] = Story!NoRow <=> sources'[e] = Story!NoSource
    <3>1. ASSUME NEW e \in Story!Entities, ledger[e] # Story!NoRow,
                 ledger' = [ledger EXCEPT ![e].n = MaxCandidates + 1], UNCHANGED <<canon, sources, tracking>>
          PROVE  <2>2!:
      <4> DEFINE r == [ledger[e] EXCEPT !.n = MaxCandidates + 1]
      <4>1. ledger' = [ledger EXCEPT ![e] = r] BY <3>1
      <4>2. r \in RowRecords /\ r.n = MaxCandidates + 1 BY <1>1 DEF RowRecords
      <4>3. r # Story!NoRow BY <4>2 DEF Story!NoRow
      <4> HIDE DEF r
      <4> QED BY <1>1, <3>1, <4>1, <4>2, <4>3
    <3>2. ASSUME NEW e \in Story!Entities, sources[e].state = "stale",
                 sources' = [sources EXCEPT ![e].state = "current"], UNCHANGED <<canon, ledger, tracking>>
          PROVE  <2>2!:
      <4> DEFINE r == [sources[e] EXCEPT !.state = "current"]
      <4>1. sources' = [sources EXCEPT ![e] = r] BY <3>2
      <4>2. r \in SourceRecords /\ r.state = "current" BY <1>1 DEF SourceRecords
      <4>3. r # Story!NoSource /\ sources[e] # Story!NoSource BY <3>2, <4>2 DEF Story!NoSource
      <4> HIDE DEF r
      <4> QED BY <1>1, <3>2, <4>1, <4>2, <4>3
    <3>3. ASSUME NEW c \in SettledChapters, canon' = [canon EXCEPT ![c] = 0],
                 UNCHANGED <<ledger, sources, tracking>>
          PROVE  <2>2!:
      BY <1>1, <3>3
    <3>4. ASSUME tracking' = [tracking EXCEPT !.invalidated = {}], UNCHANGED <<canon, ledger, sources>>
          PROVE  <2>2!:
      BY <1>1, <3>4
    <3> QED BY <1>4, <3>1, <3>2, <3>3, <3>4 DEF Story!DamageProjection
  <2>3. proj' \in Projections BY <1>1, <2>1, <2>2 DEF Projections, Story!StoryProjection
  <2>4. RowsHaveSources(proj)' BY <2>2 DEF RowsHaveSources, Story!StoryProjection
  <2> QED BY <2>1, <2>3, <2>4 DEF TablesInv, RowsHaveSources
<1>5. CASE Story!DamageHistory
  <2>1. UNCHANGED <<canon, ledger, sources, tracking>> /\ faults' \in 0..MaxFaults
    BY <1>5 DEF Story!DamageHistory, Story!Fault, TablesInv
  <2>2. anchors' \in SUBSET (SettledChapters \X (1..MaxCandidates)) BY <1>1, <1>5 DEF Story!DamageHistory
  <2>3. Len(events') = Len(events) BY <1>5 DEF Story!DamageHistory, StoryInv, LogKept
  <2>4. \A s \in snapshots' : s.projection \in Projections /\ RowsHaveSources(s.projection)
    <3>1. CASE snapshots' = snapshots BY <3>1 DEF TablesInv
    <3>2. ASSUME NEW s \in snapshots, snapshots' = (snapshots \ {s}) \cup {[s EXCEPT !.projection.anchors = {}]}
          PROVE  <2>4!:
      <4> DEFINE q == [s.projection EXCEPT !.anchors = {}]
                 t == [s EXCEPT !.projection.anchors = {}]
      <4>1. s.projection \in Projections /\ RowsHaveSources(s.projection) BY DEF TablesInv
      <4>2. q \in Projections /\ q.ledger = s.projection.ledger /\ q.sources = s.projection.sources
        BY <4>1 DEF Projections
      <4>3. s = [through |-> s.through, chain |-> s.chain, projection |-> s.projection,
                 fingerprint |-> s.fingerprint]
        BY DEF StoryInv, SnapshotsKept
      <4>4. t.projection = q BY <4>3
      <4>5. snapshots' = (snapshots \ {s}) \cup {t} BY <3>2
      <4> HIDE DEF q, t
      <4>6. RowsHaveSources(q) BY <4>1, <4>2 DEF RowsHaveSources
      <4> QED BY <4>2, <4>4, <4>5, <4>6 DEF TablesInv
    <3> QED BY <1>5, <3>1, <3>2 DEF Story!DamageHistory
  <2>5. proj' \in Projections BY <1>1, <2>1, <2>2 DEF Projections, Story!StoryProjection
  <2>6. RowsHaveSources(proj)' BY <1>1, <2>1 DEF RowsHaveSources, Story!StoryProjection
  <2> QED BY <2>1, <2>3, <2>4, <2>5, <2>6 DEF TablesInv, RowsHaveSources
<1> QED BY <1>2, <1>3, <1>4, <1>5 DEF Story!Next

\* The tables of the story are well typed, whatever was damaged and restored,
\* and never more snapshots than retained are kept (create_story_snapshot).
THEOREM StoryTyped == RecordsSpec => []Story!TypeOK
<1>1. RecordsInit => RetainedInv /\ TablesInv
  <2> SUFFICES ASSUME Story!Init PROVE RetainedInv /\ TablesInv BY DEF RecordsInit
  <2>1. RetainedInv BY FS_EmptySet, StoryAssumption DEF Story!Init, RetainedInv
  <2>2. Story!StoryProjection \in Projections
    BY StoryAssumption DEF Story!Init, Story!StoryProjection, Projections, RowRecords, SourceRecords,
       Story!NoRow, Story!NoSource, Story!NoOwner
  <2>3. RowsHaveSources(Story!StoryProjection) BY DEF Story!Init, Story!StoryProjection, RowsHaveSources
  <2> QED BY <2>1, <2>2, <2>3, StoryAssumption DEF Story!Init, TablesInv
<1>2. StoryInv /\ RetainedInv /\ TablesInv /\ [RecordsNext]_<<vars, storyVars, subject>> => (RetainedInv /\ TablesInv)'
  <2>1. ASSUME RetainedInv, TablesInv, UNCHANGED storyVars PROVE (RetainedInv /\ TablesInv)'
    BY <2>1 DEF storyVars, RetainedInv, TablesInv, RowsHaveSources, Story!StoryProjection
  <2> QED BY <2>1, RetainedStep, TablesStep DEF RecordsNext
<1>3. StoryInv /\ RetainedInv /\ TablesInv => Story!TypeOK
  <2> SUFFICES ASSUME StoryInv, RetainedInv, TablesInv PROVE Story!TypeOK OBVIOUS
  <2>1. /\ canon \in [SettledChapters -> 0..MaxCandidates] /\ ledger \in [Story!Entities -> RowRecords]
        /\ sources \in [Story!Entities -> SourceRecords]
        /\ tracking \in [version : Nat, invalidated : SUBSET SettledChapters]
        /\ anchors \in SUBSET (SettledChapters \X (1..MaxCandidates))
        /\ \A e \in Story!Entities : ledger[e] = Story!NoRow <=> sources[e] = Story!NoSource
    BY DEF TablesInv, Projections, RowsHaveSources, Story!StoryProjection
  <2>2. \A e \in Story!Entities :
          /\ ledger[e].owner \in Owners \cup {Story!NoOwner}
          /\ ledger[e].status \in {"none", "open", "partial", "paid", "abandoned"}
          /\ sources[e].state \in {"none", "current", "stale"}
    BY <2>1 DEF RowRecords, SourceRecords
  <2>3. stateHead.revision \in 0..MaxSettlements
    BY StoryAssumption DEF StoryInv, LogKept, TablesInv
  <2>4. Story!Cardinality(snapshots) <= Retained BY SameCardinality DEF RetainedInv
  <2>5. \A e \in Story!Entities : (ledger[e] = Story!NoRow) = (sources[e] = Story!NoSource) BY <2>1
  <2> QED BY <2>1, <2>2, <2>3, <2>4, <2>5 DEF Story!TypeOK, TablesInv
<1> QED BY <1>1, <1>2, <1>3, StoryInvariant, PTL DEF RecordsSpec

=============================================================================
