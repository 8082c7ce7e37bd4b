----------------------------- MODULE CorpusStudy -----------------------------
(***************************************************************************)
(* One study of the corpus library (core/corpus_store.rs and               *)
(* corpus_study_execute in core/bridge.rs): the works are proposed and     *)
(* confirmed, six stages are analysed by calls to a model, one call per    *)
(* unit of a stage, with a pause after the first stage, and the last       *)
(* answer becomes a pack that may not name its sources.                    *)
(*                                                                         *)
(* A request holds .global.lock, so requests do not overlap; it makes at   *)
(* most max_jobs calls, the process may die between two transactions, and  *)
(* a call may be lost or answered badly.  The files of the works are the   *)
(* user's and change at any time; an input may be too long for a call.     *)
(* Either is noticed before a call and leaves no trace.  A scan never      *)
(* rewrites what it stored (a changed directory is another collection) and *)
(* a study is identified by its proposal, so one study is modelled.        *)
(* Prompts, evidence anchors and checkpoints (read and compared inside one *)
(* request) are left out.  An artifact is inserted in the transaction that *)
(* confirms its call, so the confirmed calls stand for the artifacts.      *)
(***************************************************************************)
EXTENDS Naturals, Sequences, FiniteSets, SequencesExt

CONSTANTS
  Proposal,    \* the works proposed, in order
  Chunks,      \* chunks of chapters of each work
  ShortTitled, \* works whose title has at most two characters
  MaxJobs,     \* bound: calls of one request
  Editable,    \* bound: works whose file may change
  LongInputs,  \* bound: inputs that may exceed 512 KiB
  MaxCrashes   \* bound: crashes of the host

Works == ToSet(Proposal)

StageOrder == <<"golden_three", "chapter_extraction", "aggregate_mechanisms", "story_entities",
                "report", "style_profile">>
Stages == ToSet(StageOrder)

\* A unit is a work, a chunk of its chapters, or everything found so far.
ChunksOf(w) == {w} \X (1..Chunks[w])
Chapters == UNION {ChunksOf(w) : w \in Works}
All == <<"all", 0>>
Whole(w) == <<w, 0>>
Units == {Whole(w) : w \in Works} \cup Chapters \cup {All}

ASSUME StudyAssumption ==
  /\ Proposal \in Seq(Works) \ {<<>>} /\ IsInjective(Proposal)
  /\ Chunks \in [Works -> Nat \ {0}]
  /\ ShortTitled \subseteq Works /\ Editable \subseteq Works
  /\ LongInputs \subseteq Stages \X Units
  /\ MaxJobs \in Nat \ {0}
  /\ MaxCrashes \in Nat

VARIABLES
  status,          \* of the proposal
  selection,       \* the works of the study
  stage,           \* the current stage, "none" before the first confirmation
  calls,           \* the state of the call of each unit of each stage
  queue, coverage, \* what the last extraction asked to read next, and its verdict
  authorizations,  \* continuations after the first stage
  titles,          \* works whose title the answer of the last stage contains
  pack,            \* the pack of the study
  pc, call,        \* the request in progress and the call it waits for
  jobs,            \* calls the request may still make
  changed,         \* works whose file is not the one that was scanned
  oversized,       \* inputs that are too long for a call
  sent,            \* how often each unit was sent to the model
  crashes

vars == <<status, selection, stage, calls, queue, coverage, authorizations, titles, pack,
          pc, call, jobs, changed, oversized, sent, crashes>>

request == <<pc, call, jobs, crashes>>
inputs == <<changed, oversized>>
results == <<queue, coverage, authorizations, titles, pack>>

Statuses == {"none", "proposed", "confirmed", "running", "paused_golden_three", "complete", "cancelled"}

NoPack == [sources |-> {}, titles |-> {}]

\* The study, its calls and the request in progress are well typed (corpus.sql).
TypeOK ==
  /\ status \in Statuses
  /\ selection \subseteq Works
  /\ stage \in Stages \cup {"none"}
  /\ calls \in [Stages \X Units -> {"none", "dispatched", "confirmed", "unconfirmed"}]
  /\ queue \in Seq(Chapters)
  /\ coverage \in {"none", "expanding", "saturated"}
  /\ authorizations \in 0..1
  /\ titles \subseteq Works
  /\ pack \in [sources : SUBSET Works, titles : SUBSET Works]
  /\ pc \in {"idle", "loop", "sent", "advance"}
  /\ call \in Stages \X Units
  /\ jobs \in 0..MaxJobs
  /\ changed \subseteq Works /\ oversized \subseteq Stages \X Units
  /\ sent \in [Stages \X Units -> Nat]
  /\ crashes \in 0..MaxCrashes

Init ==
  /\ status = "none" /\ selection = {} /\ stage = "none"
  /\ calls = [c \in Stages \X Units |-> "none"]
  /\ queue = <<>> /\ coverage = "none"
  /\ authorizations = 0
  /\ titles = {} /\ pack = NoPack
  /\ pc = "idle" /\ call = <<"golden_three", All>>
  /\ jobs = 0
  /\ changed = {} /\ oversized \in SUBSET LongInputs
  /\ sent = [c \in Stages \X Units |-> 0]
  /\ crashes = 0

(***************************************************************************)
(* The selection                                                           *)
(***************************************************************************)

\* A proposal that is already stored is left as it is.
ProposeSelection ==
  /\ pc = "idle" /\ status = "none"
  /\ status' = "proposed" /\ selection' = Works
  /\ UNCHANGED <<stage, calls, results, request, inputs, sent>>

Confirmable == status \in {"proposed", "confirmed"}

\* The chosen works replace the stored ones, whose order they keep; the study
\* is created once, and indexing the boundaries of the chapters is no stage
\* of its own.
ConfirmSelection(S) ==
  /\ pc = "idle" /\ Confirmable
  /\ S # {} /\ S \subseteq selection
  /\ selection' = S
  /\ status' = "confirmed"
  /\ stage' = IF stage = "none" THEN "golden_three" ELSE stage
  /\ UNCHANGED <<calls, results, request, inputs, sent>>

CancelStudy ==
  /\ pc = "idle"
  /\ status \notin {"none", "complete", "cancelled"}
  /\ status' = "cancelled"
  /\ UNCHANGED <<selection, stage, calls, results, request, inputs, sent>>

(***************************************************************************)
(* Stages                                                                  *)
(***************************************************************************)

StageUnits(s) ==
  CASE s \in {"golden_three", "story_entities"} -> {Whole(w) : w \in selection}
    [] s = "chapter_extraction" -> UNION {ChunksOf(w) : w \in selection}
    [] OTHER -> {All}

Confirmed(s) == {u \in Units : calls[<<s, u>>] = "confirmed"}

\* The first of the selected works.
FirstWork == Proposal[Min({i \in DOMAIN Proposal : Proposal[i] \in selection})]

\* Mutant: an extraction starts with what was asked for.
UnitsToSendAsked == IF stage # "chapter_extraction" THEN StageUnits(stage) ELSE ToSet(queue)

\* The first extraction reads the first chunk, a later one what the last asked for.
UnitsToSend ==
  IF stage # "chapter_extraction" THEN StageUnits(stage)
  ELSE IF \A u \in Units : calls[<<stage, u>>] = "none" THEN {<<FirstWork, 1>>}
  ELSE ToSet(queue)

\* The units without an answer.
Pending == UnitsToSend \ Confirmed(stage)

\* The one that is sent: the first in the order of the queue or of the works.
NextUnit ==
  LET asked == stage = "chapter_extraction"
      order == IF asked THEN queue ELSE Proposal
      name(u) == IF asked THEN u ELSE u[1]
  IN CHOOSE u \in Pending : \A v \in Pending \ {u} :
       \E i, j \in DOMAIN order : i < j /\ order[i] = name(u) /\ order[j] = name(v)

\* The works whose text was read by a call that fed an artifact.
Sources == {w \in Works : \E s \in Stages, u \in Units : u[1] = w /\ calls[<<s, u>>] = "confirmed"}

\* The gate of finish_pack knows the longer titles of the selected works.
Leaks == (titles \cap selection) \ ShortTitled # {}

FinishPack ==
  IF Leaks THEN UNCHANGED <<status, pack>>
  ELSE status' = "complete" /\ pack' = [sources |-> Sources, titles |-> titles]

NextStage(s) == StageOrder[(CHOOSE i \in 1..5 : StageOrder[i] = s) + 1]

AdvanceStage ==
  \/ /\ stage = "golden_three"
     /\ status' = "paused_golden_three"
     /\ UNCHANGED <<stage, pack>>
  \/ /\ stage \notin {"golden_three", "style_profile"}
     /\ stage' = NextStage(stage)
     /\ status' = "running"
     /\ UNCHANGED pack
  \/ /\ stage = "style_profile"
     /\ FinishPack
     /\ UNCHANGED stage

(***************************************************************************)
(* Running a study                                                         *)
(***************************************************************************)

Start ==
  /\ pc = "idle" /\ stage # "none"
  /\ pc' = "loop"
  /\ jobs' \in 1..MaxJobs
  /\ UNCHANGED <<status, selection, stage, calls, results, call, inputs, sent, crashes>>

\* Resuming a paused study records the author's authorization.
ContinueAfterGoldenThree ==
  /\ pc = "idle"
  /\ stage = "golden_three" /\ status = "paused_golden_three"
  /\ authorizations' = authorizations + 1
  /\ stage' = "chapter_extraction"
  /\ status' = "running"
  /\ pc' = "loop"
  /\ jobs' \in 1..MaxJobs
  /\ UNCHANGED <<selection, calls, queue, coverage, titles, pack, call, inputs, sent, crashes>>

\* The request ends after its last job.
End ==
  /\ pc = "loop" /\ jobs = 0
  /\ pc' = "idle"
  /\ UNCHANGED <<status, selection, stage, calls, results, call, jobs, inputs, sent, crashes>>

\* Mutant: a call whose outcome is unknown is sent again.
SendableAgain(u) == calls[<<stage, u>>] # "confirmed"

Sendable(u) == calls[<<stage, u>>] = "none"

Executable == status \notin {"paused_golden_three", "complete", "cancelled"}

\* The stages that read the files; the others read the artifacts.
ReadsText == stage \in {"golden_three", "chapter_extraction"}

OutsideSelection(u) == ReadsText /\ u[1] \notin selection
SourceChanged(u) == ReadsText /\ u[1] \in changed
TooLong(u) == <<stage, u>> \in oversized

\* stage_input and the limit of an input.
InputAccepted(u) == ~(OutsideSelection(u) \/ SourceChanged(u) \/ TooLong(u))

DispatchUnit ==
  /\ pc = "loop" /\ jobs > 0 /\ Executable
  /\ Pending # {}
  /\ Sendable(NextUnit) /\ InputAccepted(NextUnit)
  /\ calls' = [calls EXCEPT ![<<stage, NextUnit>>] = "dispatched"]
  /\ sent' = [sent EXCEPT ![<<stage, NextUnit>>] = @ + 1]
  /\ call' = <<stage, NextUnit>>
  /\ jobs' = jobs - 1
  /\ pc' = "sent"
  /\ UNCHANGED <<status, selection, stage, results, inputs, crashes>>

\* Without a unit to send the stage is advanced, an extraction excepted.
DispatchNothing ==
  /\ pc = "loop" /\ jobs > 0 /\ Executable
  /\ Pending = {}
  /\ IF stage = "chapter_extraction" THEN UNCHANGED <<status, stage, pack>> ELSE AdvanceStage
  /\ pc' = "idle"
  /\ UNCHANGED <<selection, calls, queue, coverage, authorizations, titles, call, jobs, inputs, sent, crashes>>

\* A paused study is refused, and so are a call whose outcome is unknown and
\* an input that cannot be read or is too long; a study that is complete or
\* cancelled has nothing to send.
DispatchRefused ==
  /\ pc = "loop" /\ jobs > 0
  /\ ~Executable \/ (Pending # {} /\ ~(Sendable(NextUnit) /\ InputAccepted(NextUnit)))
  /\ pc' = "idle"
  /\ UNCHANGED <<status, selection, stage, calls, results, call, jobs, inputs, sent, crashes>>

\* What an extraction may ask to read next.
Requestable == StageUnits("chapter_extraction") \ (Confirmed("chapter_extraction") \cup {call[2]})

\* Mutant: every stage is left after its first unit.
StageDoneEarly == TRUE

\* The confirmed calls of the stage, this one included, are counted against
\* the units of the works selected now.
StageDone == Cardinality(Confirmed(stage)) + 1 = Cardinality(StageUnits(stage))

Answered(saturated) ==
  /\ pc = "sent"
  /\ calls' = [calls EXCEPT ![call] = "confirmed"]
  /\ pc' = IF saturated \/ StageDone THEN "advance" ELSE "loop"
  /\ UNCHANGED <<status, selection, stage, authorizations, pack, call, jobs, inputs, sent, crashes>>

\* An extraction asks for more units or declares that it has read enough.
ConfirmExtraction ==
  /\ call[1] = "chapter_extraction"
  /\ \/ \E S \in (SUBSET Requestable) \ {{}} : queue' \in SetToSeqs(S)
        /\ coverage' = "expanding" /\ Answered(FALSE)
     \/ queue' = <<>> /\ coverage' = "saturated" /\ Answered(TRUE)
  /\ UNCHANGED titles

ConfirmStage ==
  /\ call[1] # "chapter_extraction"
  /\ Answered(FALSE)
  /\ titles' \in IF stage = "style_profile" THEN SUBSET Sources ELSE {titles}
  /\ UNCHANGED <<queue, coverage>>

\* An answer that is no JSON, incomplete or asks for other units is refused
\* and its call stays dispatched.
RefuseAnswer ==
  /\ pc = "sent"
  /\ pc' = "idle"
  /\ UNCHANGED <<status, selection, stage, calls, results, call, jobs, inputs, sent, crashes>>

MarkStageUnconfirmed ==
  /\ pc = "sent"
  /\ calls' = [calls EXCEPT ![call] = "unconfirmed"]
  /\ pc' = "idle"
  /\ UNCHANGED <<status, selection, stage, results, call, jobs, inputs, sent, crashes>>

\* After the transaction of confirm_stage; a refused pack ends the request.
Advance ==
  /\ pc = "advance"
  /\ AdvanceStage
  /\ pc' = IF stage = "style_profile" /\ Leaks THEN "idle" ELSE "loop"
  /\ UNCHANGED <<selection, calls, queue, coverage, authorizations, titles, call, jobs, inputs, sent, crashes>>

Crash ==
  /\ pc # "idle" /\ crashes < MaxCrashes
  /\ pc' = "idle"
  /\ crashes' = crashes + 1
  /\ UNCHANGED <<status, selection, stage, calls, results, call, jobs, inputs, sent>>

\* The files of the works are edited, removed or put back.
EditSources ==
  /\ changed' \in SUBSET Editable /\ changed' # changed
  /\ UNCHANGED <<status, selection, stage, calls, results, request, oversized, sent>>

Next ==
  \/ ProposeSelection \/ CancelStudy
  \/ \E S \in SUBSET Works : ConfirmSelection(S)
  \/ Start \/ ContinueAfterGoldenThree
  \/ DispatchUnit \/ DispatchNothing \/ DispatchRefused \/ Advance \/ End
  \/ ConfirmExtraction \/ ConfirmStage \/ RefuseAnswer \/ MarkStageUnconfirmed
  \/ Crash \/ EditSources

Spec == Init /\ [][Next]_vars

(***************************************************************************)
(* Properties                                                              *)
(***************************************************************************)

\* dispatch_next_stage: "Corpus stage will not be sent twice": however often a
\* study is interrupted, resumed or confirmed again, no unit is sent to the
\* model a second time.
SentAtMostOnce == \A c \in Stages \X Units : sent[c] <= 1

\* advance_stage and continue_after_golden_three: nothing beyond the first
\* chapters is read before the author allowed it.
ReadOnlyAfterAuthorization ==
  authorizations = 0 => \A u \in Units, s \in Stages \ {"golden_three"} : calls[<<s, u>>] = "none"

\* finish_pack: a pack exists only when every stage after the preview has an
\* answer for every unit of the selected works, the extraction for as much as
\* it asked for.
PackFromWholeStudy ==
  status = "complete" =>
    \A s \in Stages \ {"golden_three"} :
      IF s = "chapter_extraction" /\ coverage = "saturated" THEN Confirmed(s) # {}
      ELSE StageUnits(s) \subseteq Confirmed(s)

\* A study reads what the author allowed, and its pack all of that
\* (continue_after_golden_three, finish_pack).
StudiedAsAllowed == ReadOnlyAfterAuthorization /\ PackFromWholeStudy

Lost == {c \in Stages \X Units : calls[c] \in {"dispatched", "unconfirmed"}}

\* A request would send a unit or advance the stage.
CanProgress ==
  IF Pending = {} THEN stage # "chapter_extraction" /\ ~(stage = "style_profile" /\ Leaks)
  ELSE Sendable(NextUnit) /\ InputAccepted(NextUnit)

\* corpus_study_execute: a running study goes on with the next request unless
\* a call was lost, the pack was refused, the file of the next unit is not the
\* one that was scanned, its input is too long, or a crash came between the
\* last answer of the extraction and the step to the next stage.  In
\* particular nothing outside the selection is ever next.
StuckOnlyForCause ==
  pc = "idle" /\ status \in {"confirmed", "running"} =>
    \/ CanProgress \/ Lost # {} \/ Leaks
    \/ Pending # {} /\ (SourceChanged(NextUnit) \/ TooLong(NextUnit))
    \/ crashes > 0 /\ stage = "chapter_extraction" /\ Pending = {}

\* Does not hold: a study that lost no call, whose pack was not refused and
\* whose next input is accepted goes on when it is resumed.  A crash between
\* the last answer of the extraction and the step to the next stage stops it
\* (confirm_stage, dispatch_next_stage).
InterruptedStudyResumes ==
  pc = "idle" /\ status \in {"confirmed", "running"} /\ changed = {} /\ oversized = {} =>
    CanProgress \/ Lost # {} \/ Leaks

\* Does not hold: a study that nothing happened to goes on.  A stage whose
\* input is too long is refused for good (dispatch_next_stage).
UndisturbedStudyGoesOn ==
  pc = "idle" /\ status \in {"confirmed", "running"} /\ crashes = 0 /\ changed = {} =>
    CanProgress \/ Lost # {} \/ Leaks

\* Does not hold: a study pauses when the preview of every selected work is
\* there.  The count includes works that were deselected (confirm_stage).
PreviewIsComplete ==
  status = "paused_golden_three" => StageUnits("golden_three") \subseteq Confirmed("golden_three")

\* Does not hold: a pack contains no title of a work it was made from.  A work
\* read and then deselected is not looked for, nor is a title of two characters
\* (finish_pack).
PackNamesNoSource == pack.titles \cap pack.sources = {}
=============================================================================
