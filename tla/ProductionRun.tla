---------------------------- MODULE ProductionRun ----------------------------
(***************************************************************************)
(* One production run of Quillframe: the durable stage journal of a        *)
(* project database, the executors that drive the run through its model    *)
(* stages, and the author who may abandon it.                              *)
(*                                                                         *)
(* Every database transaction of native/quillframe-core/src/store.rs is    *)
(* one action, so that the process may die between any two.  A request to  *)
(* the host opens a HostBridgeRuntime of its own and with it takes the     *)
(* lock of the global state, without waiting: while one request executes a *)
(* run, every other request fails (RuntimeFree).  The executors are the    *)
(* author.run.execute requests that contend for that lock.  A model call   *)
(* is the wait between SendStage and ConfirmStage or MarkUnconfirmed.      *)
(*                                                                         *)
(* The pipeline is data: Route[s][v] is where author_run_execute goes      *)
(* after stage s answered with verdict v.                                  *)
(***************************************************************************)
EXTENDS Integers, FiniteSets

CONSTANTS
  Executors,      \* concurrent author.run.execute requests
  Stages,         \* stage keys of the run
  First,          \* the stage an execution starts with
  Route,          \* [Stages -> [Verdicts -> Stages \cup Outcomes]]
  Verdicts,       \* what an answer means to author_run_execute
  Variants,       \* different texts with the same verdict
  Answers,        \* [Stages -> SUBSET Verdicts], what the model may answer
  AlwaysDerived,  \* stages Core computes itself, without a model
  PoolStages,     \* stages whose input is read from the project's tables
  FreezeBefore,   \* stage before which the writer context is frozen
  Unfrozen,       \* stages an execution can be at before that
  ExternalGate,   \* stage before which the candidate counts as qualified
  SceneStages,    \* stages followed by a scene checkpoint
  ReusedStages,   \* stages whose confirmed result is reused input unseen
  Materials,      \* versions of the project's tables the pools read
  EmptyPools,     \* versions in which the candidate pools are empty
  Budget,         \* model_call_budget; NoBudget for none
  NoBudget,
  CancelKeys,     \* idempotency keys of author.run.cancel
  MaxExecutions   \* bound: executions started over the life of the run

Outcomes == {"release", "failed_gate", "error"}

\* A model result: its verdict and its fingerprint.
Results == Verdicts \X Variants
NoResult == <<"none", "none">>
Seen == [Stages -> Results \cup {NoResult}]
NothingSeen == [s \in Stages |-> NoResult]

\* The input of a stage: the confirmed results it is built from and, for a
\* pool stage, the project tables it reads.
Inputs == [seen : Seen, material : Materials \cup {"frozen"}]
NoInput == [seen |-> NothingSeen, material |-> "frozen"]

CallStates == {"absent", "dispatched", "unconfirmed", "confirmed", "cancelled"}
Calls == [state : CallStates, input : Inputs, result : Results \cup {NoResult}]
NoCall == [state |-> "absent", input |-> NoInput, result |-> NoResult]

RunStatuses == {"absent", "ready", "executing", "awaiting_external",
                "awaiting_release", "review", "failed_gate", "cancelled"}

Pcs == {"idle", "stage", "dispatch", "send", "await", "confirmed_event",
        "unconfirmed_event", "checkpoint", "freeze", "qualified_event",
        "external_status", "external_event", "fail_gate", "release_status",
        "commit"}

ASSUME ProductionRunAssumption ==
  /\ First \in Stages
  /\ FreezeBefore \in Stages
  /\ ExternalGate \in Stages
  /\ Route \in [Stages -> [Verdicts -> Stages \cup Outcomes]]
  /\ Answers \in [Stages -> SUBSET Verdicts]
  /\ AlwaysDerived \subseteq Stages
  /\ PoolStages \subseteq Stages
  /\ SceneStages \subseteq Stages
  /\ ReusedStages \subseteq Stages
  /\ EmptyPools \subseteq Materials
  /\ Outcomes \cap Stages = {}
  /\ IsFiniteSet(Stages)
  /\ PoolStages \cap ReusedStages = {}
  /\ "none" \notin Verdicts
  /\ "frozen" \notin Materials
  /\ {"accept", "short"} \subseteq Verdicts
  /\ Variants # {}
  /\ Budget \in Nat \cup {NoBudget}
  /\ MaxExecutions \in Nat

\* The route has no way around the freeze: from a stage before it the run goes
\* to another one, to the freeze, or ends without a release
\* (author_run_execute persists the context before the first surface stage).
ASSUME FreezeAssumption ==
  /\ Unfrozen \subseteq Stages \ {FreezeBefore}
  /\ First \in Unfrozen \cup {FreezeBefore}
  /\ \A s \in Unfrozen, v \in Verdicts :
       Route[s][v] \in Unfrozen \cup {FreezeBefore, "failed_gate", "error"}

VARIABLES
  status,          \* runs.status
  cancelRequested, \* production_executions.cancel_requested
  calls,           \* production_stage_calls, one row per stage key
  freezes,         \* context_freezes of the run, by frozen material
  checkpoints,     \* checkpoints of the run
  events,          \* number of runtime_events, the cursor of the run
  candidate,       \* results behind the released candidate, or NothingSeen
  releases,        \* number of PASS candidates of the run
  abandonedBy,     \* idempotency keys with a production_cancelled receipt
  material,        \* current version of the project tables
  trackingMoved,   \* tracking authority changed since the Writer Pack freeze
  ex,              \* the executors
  sent,            \* history: model requests sent for each stage
  requests,        \* history: model requests sent in all
  executions       \* history: executions started, for MaxExecutions

dbVars == <<status, cancelRequested, calls, freezes, checkpoints, events,
            candidate, releases, abandonedBy>>
envVars == <<material, trackingMoved>>
historyVars == <<sent, requests, executions>>
vars == <<dbVars, envVars, ex, historyVars>>

Executor == [pc : Pcs, at : Stages, seen : Seen, result : Results \cup {NoResult},
             material : Materials]

IdleExecutor(m) == [pc |-> "idle", at |-> First, seen |-> NothingSeen,
                    result |-> NoResult, material |-> m]

\* Types of everything but the executors.
StateTypeOK ==
  /\ status \in RunStatuses
  /\ cancelRequested \in BOOLEAN
  /\ calls \in [Stages -> Calls]
  /\ freezes \in [Materials -> {"absent", "frozen", "stale_conflict"}]
  /\ checkpoints \in SUBSET ({"derived", "scene", "failed_gate", "user_visible_gate"}
                              \X Stages \X Results)
  /\ events \in Nat
  /\ candidate \in Seen
  /\ releases \in Nat
  /\ abandonedBy \in SUBSET CancelKeys
  /\ material \in Materials
  /\ trackingMoved \in BOOLEAN
  /\ sent \in [Stages -> Nat]
  /\ requests \in Nat
  /\ executions \in Nat

\* Types of the variables.
TypeOK == StateTypeOK /\ ex \in [Executors -> Executor]

Init ==
  /\ status = "absent"
  /\ cancelRequested = FALSE
  /\ calls = [s \in Stages |-> NoCall]
  /\ freezes = [m \in Materials |-> "absent"]
  /\ checkpoints = {}
  /\ events = 0
  /\ candidate = NothingSeen
  /\ releases = 0
  /\ abandonedBy = {}
  /\ material \in Materials
  /\ trackingMoved = FALSE
  /\ ex = [e \in Executors |-> IdleExecutor(material)]
  /\ sent = [s \in Stages |-> 0]
  /\ requests = 0
  /\ executions = 0

(***************************************************************************)
(* Helpers                                                                 *)
(***************************************************************************)

\* Mutant: only calls without an answer yet are counted.
CallCountInFlight == Cardinality({s \in Stages : calls[s].state = "dispatched"})

\* COUNT(*) of the journal rows of the run, whatever their state or origin.
CallCount == Cardinality({s \in Stages : calls[s].state # "absent"})

BudgetExhausted == Budget # NoBudget /\ CallCount >= Budget

InputOf(s, seen, m) ==
  [seen |-> seen, material |-> IF s \in PoolStages THEN m ELSE "frozen"]

\* Mutant: the input of the confirmed result is not compared.
MayReplayAnyInput(s, seen, m) == calls[s].state = "confirmed"

\* execute_model_stage answers from the journal only with a confirmed result
\* of the same input; two tracking stages are reused without that comparison.
MayReplay(s, seen, m) ==
  /\ calls[s].state = "confirmed"
  /\ s \in ReusedStages \/ calls[s].input = InputOf(s, seen, m)

\* The empty-pool stages and the assembled surface are computed by Core.
IsDerived(s, m) == s \in AlwaysDerived \/ (s \in PoolStages /\ m \in EmptyPools)

\* What Core computes: a chapter below its minimum length is told apart.
DerivedResult(seen) ==
  <<IF \E s \in Stages : seen[s][1] = "short" THEN "short" ELSE "accept",
    CHOOSE v \in Variants : TRUE>>

\* The executor's request ends, with an answer or an error.
Return(e) == ex' = [ex EXCEPT ![e] = IdleExecutor(ex[e].material)]

GoTo(e, pc) == ex' = [ex EXCEPT ![e].pc = pc]

\* Where author_run_execute is before it looks a stage up in the journal.
EntryPc(s) == IF s = FreezeBefore THEN "freeze"
              ELSE IF s = ExternalGate THEN "qualified_event" ELSE "stage"

\* Mutant: a gate's verdict is not looked at.
AdvancedBlindly(x, r, m) ==
  LET next == Route[x.at]["accept"]
  IN [pc |-> IF next = "release" THEN "release_status"
             ELSE IF next \in Stages THEN EntryPc(next) ELSE "fail_gate",
      at |-> IF next \in Stages THEN next ELSE x.at,
      seen |-> [x.seen EXCEPT ![x.at] = r],
      result |-> NoResult, material |-> m]

\* An executor x that has the result r of its stage in hand: it consumes the
\* result and goes where the route leads.
Advanced(x, r, m) ==
  LET next == Route[x.at][r[1]]
  IN IF next = "error" THEN IdleExecutor(m)
     ELSE [pc |-> IF next = "release" THEN "release_status"
                  ELSE IF next = "failed_gate" THEN "fail_gate"
                  ELSE EntryPc(next),
           at |-> IF next \in Stages THEN next ELSE x.at,
           seen |-> [x.seen EXCEPT ![x.at] = r],
           result |-> NoResult, material |-> m]

Advance(e, r, m) == ex' = [ex EXCEPT ![e] = Advanced(ex[e], r, m)]

\* A scene is checkpointed before the next stage; other results are consumed.
Consumed(x, r) ==
  IF x.at \in SceneStages /\ Route[x.at][r[1]] # "error"
  THEN [x EXCEPT !.pc = "checkpoint", !.result = r]
  ELSE Advanced(x, r, x.material)

Consume(e, r) == ex' = [ex EXCEPT ![e] = Consumed(ex[e], r)]

\* Mutant: the lock is not taken.
RuntimeUnlocked == TRUE

\* GlobalDatabase::open: .global.lock is held as long as a request's runtime
\* lives, and a second request does not wait for it.
RuntimeFree == \A e \in Executors : ex[e].pc = "idle"

(***************************************************************************)
(* The author and the project                                              *)
(***************************************************************************)

\* start_production: the frozen request becomes a run.  Repeating it with
\* the same request changes nothing.
StartProduction ==
  /\ RuntimeFree
  /\ status = "absent"
  /\ status' = "ready"
  /\ UNCHANGED <<cancelRequested, calls, freezes, checkpoints, events, candidate,
                 releases, abandonedBy, envVars, ex, historyVars>>

\* Mutant: the cancellation is recorded before the release is looked for.
CancelProductionRecordedFirst(k) ==
  /\ RuntimeFree
  /\ status \notin {"absent", "cancelled"}
  /\ k \notin abandonedBy
  /\ cancelRequested' = TRUE
  /\ abandonedBy' = abandonedBy \cup {k}
  /\ status' = IF releases = 0 THEN "cancelled" ELSE status
  /\ UNCHANGED <<calls, freezes, checkpoints, events, candidate, releases, envVars, ex,
                 historyVars>>

\* cancel_production with a fresh key and a cursor equal to the event count;
\* a replayed key, a stale cursor or a released run changes nothing.
CancelProduction(k) ==
  /\ RuntimeFree
  /\ status \notin {"absent", "cancelled"}
  /\ k \notin abandonedBy
  /\ releases = 0
  /\ calls' = [s \in Stages |->
                 IF calls[s].state \in {"dispatched", "unconfirmed"}
                 THEN [calls[s] EXCEPT !.state = "cancelled"] ELSE calls[s]]
  /\ status' = "cancelled"
  /\ cancelRequested' = TRUE
  /\ events' = events + 1
  /\ abandonedBy' = abandonedBy \cup {k}
  /\ UNCHANGED <<freezes, checkpoints, candidate, releases, envVars, ex, historyVars>>

\* The tables behind the context, corpus and preference pools change.
MaterialChanges ==
  /\ RuntimeFree
  /\ \E m \in Materials \ {material} : material' = m
  /\ UNCHANGED <<dbVars, trackingMoved, ex, historyVars>>

\* Another chapter settles: the tracking authority moves on and, where this
\* run depends on that chapter, its context freeze goes stale.
SettlementElsewhere ==
  /\ RuntimeFree
  /\ ~trackingMoved
  /\ trackingMoved' = TRUE
  /\ \/ UNCHANGED freezes
     \/ freezes' = [m \in Materials |->
                      IF freezes[m] = "frozen" THEN "stale_conflict" ELSE freezes[m]]
  /\ UNCHANGED <<status, cancelRequested, calls, checkpoints, events, candidate,
                 releases, abandonedBy, material, ex, historyVars>>

(***************************************************************************)
(* An executor: author_run_execute and execute_model_stage                 *)
(***************************************************************************)

\* The checks before the first stage.  A released run is answered from its
\* release and a moved tracking authority is refused; neither changes state.
BeginExecution(e) ==
  /\ RuntimeFree
  /\ status # "absent"
  /\ releases = 0
  /\ ~trackingMoved
  /\ executions < MaxExecutions
  /\ executions' = executions + 1
  /\ ex' = [ex EXCEPT ![e] = [IdleExecutor(material) EXCEPT !.pc = EntryPc(First)]]
  /\ UNCHANGED <<dbVars, envVars, sent, requests>>

\* The journal row of a stage Core computes itself.
DerivedCall(s, seen, m) ==
  [state |-> "confirmed", input |-> InputOf(s, seen, m), result |-> DerivedResult(seen)]

\* confirm_derived_stage: Core's own result enters the journal as confirmed,
\* is found there unchanged, or is refused.
ConfirmDerivedStage(e) ==
  LET s   == ex[e].at
      m   == IF s \in PoolStages THEN material ELSE ex[e].material
      row == DerivedCall(s, ex[e].seen, m)
  IN /\ ex[e].pc = "stage"
     /\ IsDerived(s, m)
     /\ \/ /\ ~cancelRequested
           /\ calls[s].state = "absent"
           /\ calls' = [calls EXCEPT ![s] = row]
           /\ checkpoints' = checkpoints \cup {<<"derived", s, row.result>>}
           /\ events' = events + 1
           /\ Advance(e, row.result, m)
        \/ /\ ~cancelRequested
           /\ calls[s] = row
           /\ Advance(e, row.result, m)
           /\ UNCHANGED <<calls, checkpoints, events>>
        \/ /\ cancelRequested \/ (calls[s].state # "absent" /\ calls[s] # row)
           /\ Return(e)
           /\ UNCHANGED <<calls, checkpoints, events>>
     /\ UNCHANGED <<status, cancelRequested, freezes, candidate, releases,
                    abandonedBy, envVars, historyVars>>

\* Mutant: a row without a usable answer is waited for.
LookUpStageWaiting(e) ==
  LET s == ex[e].at
      m == IF s \in PoolStages THEN material ELSE ex[e].material
  IN /\ ex[e].pc = "stage"
     /\ ~IsDerived(s, m)
     /\ \/ /\ calls[s].state = "absent"
           /\ ex' = [ex EXCEPT ![e] = [ex[e] EXCEPT !.pc = "dispatch", !.material = m]]
        \/ /\ MayReplay(s, ex[e].seen, m)
           /\ Consume(e, calls[s].result)
     /\ UNCHANGED <<dbVars, envVars, historyVars>>

\* A stage for the model: the journal is read before anything is sent.
LookUpStage(e) ==
  LET s == ex[e].at
      m == IF s \in PoolStages THEN material ELSE ex[e].material
  IN /\ ex[e].pc = "stage"
     /\ ~IsDerived(s, m)
     /\ \/ /\ calls[s].state = "absent"
           /\ ex' = [ex EXCEPT ![e] = [ex[e] EXCEPT !.pc = "dispatch", !.material = m]]
        \/ /\ MayReplay(s, ex[e].seen, m)
           /\ Consume(e, calls[s].result)
        \/ /\ calls[s].state # "absent"
           /\ ~MayReplay(s, ex[e].seen, m)
           /\ Return(e)
     /\ UNCHANGED <<dbVars, envVars, historyVars>>

\* Mutant: dispatch_stage does not read cancel_requested.
DispatchRefusedUncancelled(s, i) ==
  BudgetExhausted \/ (calls[s].state # "absent" /\ calls[s].input # i)

\* Why dispatch_stage refuses the input i for stage s.
DispatchRefused(s, i) ==
  \/ cancelRequested
  \/ BudgetExhausted
  \/ calls[s].state # "absent" /\ calls[s].input # i

\* dispatch_stage: the request is persisted before it is sent.  A row with
\* the same input is handed out again, whoever owns it and whatever its state.
DispatchStage(e) ==
  LET s == ex[e].at
      i == InputOf(s, ex[e].seen, ex[e].material)
      row == [state |-> "dispatched", input |-> i, result |-> NoResult]
  IN /\ ex[e].pc = "dispatch"
     /\ \/ /\ ~DispatchRefused(s, i)
           /\ IF calls[s].state = "absent"
              THEN calls' = [calls EXCEPT ![s] = row] /\ status' = "executing"
              ELSE UNCHANGED <<calls, status>>
           /\ GoTo(e, "send")
        \/ /\ DispatchRefused(s, i)
           /\ Return(e)
           /\ UNCHANGED <<calls, status>>
     /\ UNCHANGED <<cancelRequested, freezes, checkpoints, events, candidate, releases,
                    abandonedBy, envVars, historyVars>>

\* ModelRuntime::execute sends the request.
SendStage(e) ==
  /\ ex[e].pc = "send"
  /\ sent' = [sent EXCEPT ![ex[e].at] = @ + 1]
  /\ requests' = requests + 1
  /\ GoTo(e, "await")
  /\ UNCHANGED <<dbVars, envVars, executions>>

\* An executor x that knows its stage confirmed with the answer r.
Confirmed(x, r) == [x EXCEPT !.pc = "confirmed_event", !.result = r]

\* Mutant: the answer is used without being recorded.
ConfirmStageUnrecorded(e, r) ==
  /\ ex[e].pc = "await"
  /\ ex' = [ex EXCEPT ![e] = Confirmed(ex[e], r)]
  /\ UNCHANGED <<dbVars, envVars, historyVars>>

\* confirm_stage with the answer r: the first answer wins.
ConfirmStage(e, r) ==
  LET s == ex[e].at
      row == [calls[s] EXCEPT !.state = "confirmed", !.result = r]
  IN /\ ex[e].pc = "await"
     /\ IF calls[s].state \in {"dispatched", "unconfirmed"}
        THEN /\ calls' = [calls EXCEPT ![s] = row]
             /\ ex' = [ex EXCEPT ![e] = Confirmed(ex[e], r)]
        ELSE /\ UNCHANGED calls
             /\ IF calls[s].state = "confirmed" /\ calls[s].result = r
                THEN ex' = [ex EXCEPT ![e] = Confirmed(ex[e], r)]
                ELSE Return(e)
     /\ UNCHANGED <<status, cancelRequested, freezes, checkpoints, events, candidate,
                    releases, abandonedBy, envVars, historyVars>>

\* The event that follows a confirmation, in a transaction of its own.
AppendConfirmedEvent(e) ==
  /\ ex[e].pc = "confirmed_event"
  /\ events' = events + 1
  /\ Consume(e, ex[e].result)
  /\ UNCHANGED <<status, cancelRequested, calls, freezes, checkpoints, candidate,
                 releases, abandonedBy, envVars, historyVars>>

\* mark_stage_unconfirmed after a failed transport or a passed deadline.
MarkUnconfirmed(e) ==
  LET s == ex[e].at
      row == [calls[s] EXCEPT !.state = "unconfirmed"]
  IN /\ ex[e].pc = "await"
     /\ IF calls[s].state \in {"dispatched", "unconfirmed"}
        THEN calls' = [calls EXCEPT ![s] = row] /\ GoTo(e, "unconfirmed_event")
        ELSE UNCHANGED calls /\ Return(e)
     /\ UNCHANGED <<status, cancelRequested, freezes, checkpoints, events, candidate,
                    releases, abandonedBy, envVars, historyVars>>

AppendUnconfirmedEvent(e) ==
  /\ ex[e].pc = "unconfirmed_event"
  /\ events' = events + 1
  /\ Return(e)
  /\ UNCHANGED <<status, cancelRequested, calls, freezes, checkpoints, candidate,
                 releases, abandonedBy, envVars, historyVars>>

\* record_scene_checkpoint: only for the exact confirmed result.
RecordSceneCheckpoint(e) ==
  LET s == ex[e].at
      r == ex[e].result
      mine == <<"scene", s, r>>
      others == {c \in checkpoints : c[1] = "scene" /\ c[2] = s /\ c # mine}
      confirmed == calls[s].state = "confirmed" /\ calls[s].result = r
  IN /\ ex[e].pc = "checkpoint"
     /\ IF others = {} /\ (mine \in checkpoints \/ confirmed)
        THEN checkpoints' = checkpoints \cup {mine} /\ Advance(e, r, ex[e].material)
        ELSE UNCHANGED checkpoints /\ Return(e)
     /\ UNCHANGED <<status, cancelRequested, calls, freezes, events, candidate,
                    releases, abandonedBy, envVars, historyVars>>

\* persist_writer_context_freeze: one frozen context per run.
PersistContextFreeze(e) ==
  LET m == ex[e].material
      frozen == {n \in Materials : freezes[n] = "frozen"}
      written == freezes[m] = "absent" /\ frozen = {}
  IN /\ ex[e].pc = "freeze"
     /\ \/ /\ ~cancelRequested
           /\ written \/ m \in frozen
           /\ freezes' = [freezes EXCEPT ![m] = "frozen"]
           /\ GoTo(e, "stage")
        \/ /\ cancelRequested \/ ~(written \/ m \in frozen)
           /\ Return(e)
           /\ UNCHANGED freezes
     /\ UNCHANGED <<status, cancelRequested, calls, checkpoints, events, candidate,
                    releases, abandonedBy, envVars, historyVars>>

\* The candidate qualifies: an event, the status, another event.
AppendQualifiedEvent(e) ==
  /\ ex[e].pc = "qualified_event"
  /\ events' = events + 1
  /\ GoTo(e, "external_status")
  /\ UNCHANGED <<status, cancelRequested, calls, freezes, checkpoints, candidate,
                 releases, abandonedBy, envVars, historyVars>>

SetAwaitingExternal(e) ==
  /\ ex[e].pc = "external_status"
  /\ status' = "awaiting_external"
  /\ GoTo(e, "external_event")
  /\ UNCHANGED <<cancelRequested, calls, freezes, checkpoints, events, candidate,
                 releases, abandonedBy, envVars, historyVars>>

AppendExternalEvent(e) ==
  /\ ex[e].pc = "external_event"
  /\ events' = events + 1
  /\ GoTo(e, "stage")
  /\ UNCHANGED <<status, cancelRequested, calls, freezes, checkpoints, candidate,
                 releases, abandonedBy, envVars, historyVars>>

\* record_failed_gate: the rejected candidate becomes a repair source.
RecordFailedGate(e) ==
  LET s == ex[e].at
  IN /\ ex[e].pc = "fail_gate"
     /\ checkpoints' = checkpoints \cup {<<"failed_gate", s, ex[e].seen[s]>>}
     /\ status' = "failed_gate"
     /\ events' = events + 1
     /\ Return(e)
     /\ UNCHANGED <<cancelRequested, calls, freezes, candidate, releases,
                    abandonedBy, envVars, historyVars>>

\* Mutant: a status the run table does not know.
SetReleased(e) ==
  /\ ex[e].pc = "release_status"
  /\ status' = "released"
  /\ GoTo(e, "commit")
  /\ UNCHANGED <<cancelRequested, calls, freezes, checkpoints, events, candidate,
                 releases, abandonedBy, envVars, historyVars>>

\* set_run_status, whatever the status was.
SetAwaitingRelease(e) ==
  /\ ex[e].pc = "release_status"
  /\ status' = "awaiting_release"
  /\ GoTo(e, "commit")
  /\ UNCHANGED <<cancelRequested, calls, freezes, checkpoints, events, candidate,
                 releases, abandonedBy, envVars, historyVars>>

\* Every receipt of the release is a confirmed row of this run.
ReceiptsBelongToRun(seen) ==
  \A s \in Stages : seen[s] # NoResult =>
    calls[s].state = "confirmed" /\ calls[s].result = seen[s]

\* What commit_released_candidate and the one-PASS trigger check.
Releasable(e) ==
  /\ status \in {"executing", "awaiting_release"}
  /\ ReceiptsBelongToRun(ex[e].seen)
  /\ \E m \in Materials : freezes[m] = "frozen"
  /\ releases = 0

\* commit_released_candidate, in one transaction.
CommitReleasedCandidate(e) ==
  LET s == ex[e].at
  IN /\ ex[e].pc = "commit"
     /\ IF Releasable(e)
        THEN /\ candidate' = ex[e].seen
             /\ releases' = releases + 1
             /\ checkpoints' = checkpoints \cup {<<"user_visible_gate", s, ex[e].seen[s]>>}
             /\ status' = "review"
             /\ events' = events + 1
        ELSE UNCHANGED <<candidate, releases, checkpoints, status, events>>
     /\ Return(e)
     /\ UNCHANGED <<cancelRequested, calls, freezes, abandonedBy, envVars, historyVars>>

\* The process dies between two transactions, or one of them fails on its
\* own (the project's lock is busy, the disk is full): the request is over.
Crash(e) ==
  /\ ex[e].pc # "idle"
  /\ Return(e)
  /\ UNCHANGED <<dbVars, envVars, historyVars>>

AnswersOf(s) == Answers[s] \X Variants

\* The model answers or the transport gives up, whichever comes first.
EndModelCall(e) ==
  \/ \E r \in AnswersOf(ex[e].at) : ConfirmStage(e, r)
  \/ MarkUnconfirmed(e)

ExecutorStep(e) ==
  \/ ConfirmDerivedStage(e)
  \/ LookUpStage(e)
  \/ DispatchStage(e)
  \/ SendStage(e)
  \/ EndModelCall(e)
  \/ AppendConfirmedEvent(e)
  \/ AppendUnconfirmedEvent(e)
  \/ RecordSceneCheckpoint(e)
  \/ PersistContextFreeze(e)
  \/ AppendQualifiedEvent(e)
  \/ SetAwaitingExternal(e)
  \/ AppendExternalEvent(e)
  \/ RecordFailedGate(e)
  \/ SetAwaitingRelease(e)
  \/ CommitReleasedCandidate(e)

Next ==
  \/ StartProduction
  \/ \E k \in CancelKeys : CancelProduction(k)
  \/ MaterialChanges
  \/ SettlementElsewhere
  \/ \E e \in Executors : BeginExecution(e) \/ ExecutorStep(e) \/ Crash(e)

Spec == Init /\ [][Next]_vars

\* The host keeps running a request it started: every step of an executor is
\* local or has a deadline (ModelRequest.absolute_deadline_ms).  Nothing is
\* assumed of the author, of the project or of new executions.
FairSpec == Spec /\ \A e \in Executors : WF_vars(ExecutorStep(e))

(***************************************************************************)
(* Properties                                                              *)
(***************************************************************************)

\* The results behind seen are exactly confirmed journal rows.
Backed(seen) ==
  \A s \in Stages : seen[s] # NoResult =>
    calls[s].state = "confirmed" /\ calls[s].result = seen[s]

\* A stage is dispatched only on exactly confirmed results: whatever order
\* executors, late answers and cancellation take, every result the input of
\* a journal row was built from is a confirmed row with that same result
\* (execute_model_stage, confirm_stage).
ConsumedOnlyConfirmed ==
  \A s \in Stages : Backed(calls[s].input.seen)

\* seen follows the route from the first stage on, and what it routes to
\* next is also seen or in goals.
FollowsRoute(seen, goals) ==
  /\ seen[First] # NoResult \/ First \in goals
  /\ \A s \in Stages : seen[s] # NoResult =>
       \/ Route[s][seen[s][1]] \in goals
       \/ /\ Route[s][seen[s][1]] \in Stages
          /\ seen[Route[s][seen[s][1]]] # NoResult

\* A released candidate went through every gate of its route and no gate
\* rejected it, and every receipt is still the confirmed row of the run
\* (author_run_execute, commit_released_candidate).
ReleaseBackedByGates ==
  releases > 0 => Backed(candidate) /\ FollowsRoute(candidate, {"release"})

\* A released candidate was written on the frozen context: the selection that
\* led to the freeze was made from the material that was frozen, although the
\* project may change between a crash and the next execution
\* (execute_model_stage, persist_writer_context_freeze).
ReleaseUsesFrozenContext ==
  releases > 0 =>
    \A s \in PoolStages :
      candidate[s] # NoResult /\ Route[s][candidate[s][1]] = FreezeBefore =>
        freezes[calls[s].input.material] # "absent"

\* Cancelling and releasing are mutually exclusive in the direction the code
\* enforces: a released run is never cancelled afterwards, so its receipts
\* and candidate stay untouched (cancel_production).
ReleaseIsFinal ==
  [][releases > 0 => candidate' = candidate /\ cancelRequested' = cancelRequested
                     /\ abandonedBy' = abandonedBy]_vars

\* A confirmed result never changes and is never withdrawn, whatever late or
\* second answer arrives (confirm_stage, cancel_production).
ConfirmedImmutable ==
  [][\A s \in Stages : calls[s].state = "confirmed" => calls'[s] = calls[s]]_vars

\* Once the run is cancelled its journal is closed: no stage is dispatched,
\* confirmed or marked any more, however late an answer is (dispatch_stage,
\* confirm_derived_stage, confirm_stage, mark_stage_unconfirmed).
CancelClosesJournal == [][cancelRequested => calls' = calls]_vars

\* A stage is sent to the model at most once, across crashes, failed
\* transports, contending requests and repeated executions
\* (execute_model_stage, GlobalDatabase::open).
SentAtMostOnce == \A s \in Stages : sent[s] <= 1

\* The model call budget bounds the requests really sent, crashes and
\* repeated executions included (dispatch_stage).
WithinBudget == Budget # NoBudget => requests <= Budget

\* Does not hold: the budget is exhausted by model calls only.  Stages Core
\* computes itself have rows too (dispatch_stage, confirm_derived_stage).
BudgetCountsModelCalls ==
  BudgetExhausted =>
    Cardinality({s \in Stages \ AlwaysDerived : calls[s].state # "absent"}) >= Budget

\* A cancelled run releases no candidate, although commit_released_candidate
\* looks at the run's status only and set_run_status overwrites it: the
\* context freeze and the derived surface stand before every release
\* (persist_writer_context_freeze, confirm_derived_stage).
CancelledNeverReleases == cancelRequested => releases = 0

\* An execution ends: it never waits forever on the journal, the model or
\* another executor (author_run_execute).
ExecutionEnds == \A e \in Executors : ex[e].pc # "idle" ~> ex[e].pc = "idle"
=============================================================================
