------------------------- MODULE ProductionRunProofs -------------------------
(***************************************************************************)
(* Proofs about ProductionRun, for every pipeline, every number of         *)
(* executors and every budget.                                             *)
(*                                                                         *)
(* The argument: confirmed journal rows only accumulate (Grows), so what   *)
(* an executor has consumed stays backed by the journal; an executor only  *)
(* moves along the route, so a release has passed every gate of its route. *)
(* The last part names the gates for the DRAFT route: it leads only to     *)
(* stages of higher number, so whatever was consumed was led to by a       *)
(* result that was consumed before, up to the first stage (PathInv).       *)
(***************************************************************************)
EXTENDS MCProductionRun, FiniteSetTheorems, TLAPS

\* Confirmed rows of journal c are the same rows in journal d.
Grows(c, d) == \A s \in Stages : c[s].state = "confirmed" => d[s] = c[s]

\* Every result in seen is a confirmed row of journal c.
BackedBy(c, seen) ==
  \A s \in Stages : seen[s] # NoResult =>
    c[s].state = "confirmed" /\ c[s].result = seen[s]

\* Result r of stage s is confirmed in journal c.
ConfirmedAs(c, s, r) == c[s].state = "confirmed" /\ c[s].result = r

\* Where the results an executor has consumed lead.
Goals(x) ==
  IF x.pc \in {"release_status", "commit"} THEN {"release"}
  ELSE IF x.pc = "fail_gate" THEN {"failed_gate"} ELSE {x.at}

\* What holds of one executor x beside journal c.
ExecutorOK(c, x) ==
  /\ BackedBy(c, x.seen)
  /\ x.pc # "idle" => FollowsRoute(x.seen, Goals(x))
  /\ x.pc \in {"confirmed_event", "checkpoint"} => ConfirmedAs(c, x.at, x.result)
  /\ x.pc \in {"release_status", "commit", "fail_gate"} => x.seen[x.at] # NoResult

\* What holds of a journal c of a run cancelled or not.
JournalOK(c, cancelled) ==
  /\ \A s \in Stages : c[s].state = "confirmed" => c[s].result \in Results
  /\ \A s \in Stages : BackedBy(c, c[s].input.seen)
  /\ cancelled => \A s \in Stages : c[s].state \notin {"dispatched", "unconfirmed"}

\* What holds of a release.
ReleaseOK(c, n, results) ==
  n > 0 => BackedBy(c, results) /\ FollowsRoute(results, {"release"})

\* The inductive invariant.
IInv ==
  /\ TypeOK
  /\ JournalOK(calls, cancelRequested)
  /\ \A e \in Executors : ExecutorOK(calls, ex[e])
  /\ ReleaseOK(calls, releases, candidate)

(***************************************************************************)
(* Lemmas on values                                                        *)
(***************************************************************************)

\* A result is not the mark for no result, and its verdict routes somewhere.
LEMMA ResultFacts ==
  ASSUME NEW r \in Results
  PROVE  r # NoResult /\ r[1] \in Verdicts
BY ProductionRunAssumption DEF Results, NoResult

\* What is backed by a journal stays backed as the journal grows.
LEMMA BackedGrows ==
  ASSUME NEW c, NEW d, NEW seen, Grows(c, d), BackedBy(c, seen)
  PROVE  BackedBy(d, seen)
BY DEF Grows, BackedBy

\* Consuming a confirmed result keeps the consumed results backed.
LEMMA BackedExtends ==
  ASSUME NEW c, NEW seen \in Seen, NEW s \in Stages, NEW r,
         BackedBy(c, seen), ConfirmedAs(c, s, r)
  PROVE  BackedBy(c, [seen EXCEPT ![s] = r])
BY DEF BackedBy, ConfirmedAs, Seen

\* Nothing consumed is backed by any journal.
LEMMA NothingBacked ==
  ASSUME NEW c
  PROVE  BackedBy(c, NothingSeen)
BY DEF BackedBy, NothingSeen

\* Consuming the result of the stage the route leads to stays on the route.
LEMMA RouteExtends ==
  ASSUME NEW seen \in Seen, NEW s \in Stages, NEW r \in Results,
         FollowsRoute(seen, {s})
  PROVE  FollowsRoute([seen EXCEPT ![s] = r], {Route[s][r[1]]})
BY ResultFacts, ProductionRunAssumption DEF FollowsRoute, Seen

\* An executor that leaves its request is in order.
LEMMA IdleOK ==
  ASSUME NEW c, NEW m \in Materials
  PROVE  IdleExecutor(m) \in Executor /\ ExecutorOK(c, IdleExecutor(m))
<1>1. NothingSeen \in Seen
  BY DEF NothingSeen, Seen
<1>2. IdleExecutor(m) \in Executor
  BY <1>1, ProductionRunAssumption DEF IdleExecutor, Executor, Pcs
<1>3. ExecutorOK(c, IdleExecutor(m))
  BY NothingBacked DEF ExecutorOK, IdleExecutor
<1> QED BY <1>2, <1>3

\* An executor stays in order as the journal grows around it.
LEMMA ExecutorGrows ==
  ASSUME NEW c \in [Stages -> Calls], NEW d, NEW x \in Executor,
         Grows(c, d), ExecutorOK(c, x)
  PROVE  ExecutorOK(d, x)
<1>1. x.at \in Stages
  BY DEF Executor
<1>2. BackedBy(d, x.seen)
  BY BackedGrows DEF ExecutorOK
<1> QED BY <1>1, <1>2 DEF ExecutorOK, ConfirmedAs, Grows

\* Moving an executor between the steps of one stage keeps it in order.
LEMMA MovedOK ==
  ASSUME NEW c, NEW x \in Executor, NEW pc \in Pcs, ExecutorOK(c, x),
         x.pc \notin {"idle", "release_status", "commit", "fail_gate"},
         pc \notin {"release_status", "commit", "fail_gate",
                    "confirmed_event", "checkpoint"}
  PROVE  [x EXCEPT !.pc = pc] \in Executor /\ ExecutorOK(c, [x EXCEPT !.pc = pc])
BY DEF Executor, ExecutorOK, Goals

\* Consuming a confirmed result: Advanced keeps an executor in order.
LEMMA AdvancedOK ==
  ASSUME NEW c, NEW x \in Executor, NEW r \in Results, NEW m \in Materials,
         ExecutorOK(c, x), ConfirmedAs(c, x.at, r),
         x.pc \notin {"idle", "release_status", "commit", "fail_gate"}
  PROVE  Advanced(x, r, m) \in Executor /\ ExecutorOK(c, Advanced(x, r, m))
<1> DEFINE next == Route[x.at][r[1]]
           y == Advanced(x, r, m)
<1>1. x.at \in Stages /\ x.seen \in Seen
  BY DEF Executor
<1>2. next \in Stages \cup Outcomes
  BY <1>1, ResultFacts, ProductionRunAssumption
<1>3. CASE next = "error"
  BY <1>3, IdleOK DEF Advanced
<1>4. CASE next # "error"
  <2> DEFINE seen2 == [x.seen EXCEPT ![x.at] = r]
  <2>1. y = [pc |-> IF next = "release" THEN "release_status"
                    ELSE IF next = "failed_gate" THEN "fail_gate"
                    ELSE EntryPc(next),
             at |-> IF next \in Stages THEN next ELSE x.at,
             seen |-> seen2, result |-> NoResult, material |-> m]
    BY <1>4 DEF Advanced
  <2>2. seen2 \in Seen
    BY <1>1 DEF Seen
  <2>3. y \in Executor
    <3>1. y.pc \in Pcs
      BY <2>1 DEF EntryPc, Pcs
    <3>2. y.at \in Stages
      BY <2>1, <1>1
    <3> QED BY <2>1, <2>2, <3>1, <3>2 DEF Executor
  <2>4. BackedBy(c, seen2)
    BY <1>1, BackedExtends DEF ExecutorOK
  <2>5. FollowsRoute(seen2, {next})
    <3>1. FollowsRoute(x.seen, {x.at})
      BY DEF ExecutorOK, Goals
    <3> QED BY <3>1, <1>1, RouteExtends
  <2>6. Goals(y) = {next}
    <3>1. CASE next = "release"
      BY <3>1, <2>1 DEF Goals
    <3>2. CASE next = "failed_gate"
      BY <3>2, <2>1 DEF Goals
    <3>3. CASE next \in Stages
      <4>1. next \notin {"release", "failed_gate"}
        BY <3>3, ProductionRunAssumption DEF Outcomes
      <4>2. y.at = next /\ y.pc \in {"freeze", "qualified_event", "stage"}
        BY <3>3, <4>1, <2>1 DEF EntryPc
      <4> QED BY <4>2 DEF Goals
    <3> QED BY <3>1, <3>2, <3>3, <1>2, <1>4 DEF Outcomes
  <2>7. y.pc \notin {"confirmed_event", "checkpoint"}
    BY <2>1 DEF EntryPc
  <2>8. y.seen = seen2
    BY <2>1
  <2>9. y.pc \in {"release_status", "commit", "fail_gate"} => seen2[y.at] # NoResult
    <3>1. CASE next \in Stages
      <4>1. next \notin {"release", "failed_gate"}
        BY <3>1, ProductionRunAssumption DEF Outcomes
      <4> QED BY <4>1, <2>1 DEF EntryPc
    <3>2. CASE next \notin Stages
      BY <3>2, <1>1, <2>1, ResultFacts DEF Seen
    <3> QED BY <3>1, <3>2
  <2> QED BY <2>3, <2>4, <2>5, <2>6, <2>7, <2>8, <2>9 DEF ExecutorOK
<1> QED BY <1>3, <1>4

\* Consumed either checkpoints a scene first or advances.
LEMMA ConsumedOK ==
  ASSUME NEW c, NEW x \in Executor, NEW r \in Results,
         ExecutorOK(c, x), ConfirmedAs(c, x.at, r),
         x.pc \notin {"idle", "release_status", "commit", "fail_gate"}
  PROVE  Consumed(x, r) \in Executor /\ ExecutorOK(c, Consumed(x, r))
<1>1. x.material \in Materials
  BY DEF Executor
<1>2. CASE x.at \in SceneStages /\ Route[x.at][r[1]] # "error"
  <2>1. Consumed(x, r) = [x EXCEPT !.pc = "checkpoint", !.result = r]
    BY <1>2 DEF Consumed
  <2>2. [x EXCEPT !.pc = "checkpoint", !.result = r] \in Executor
    BY DEF Executor, Pcs
  <2> QED BY <2>1, <2>2 DEF ExecutorOK, Goals, Executor
<1>3. CASE ~(x.at \in SceneStages /\ Route[x.at][r[1]] # "error")
  BY <1>1, <1>3, AdvancedOK DEF Consumed
<1> QED BY <1>2, <1>3

(***************************************************************************)
(* Lemmas on steps                                                         *)
(***************************************************************************)

\* The initial states satisfy the inductive invariant.
LEMMA InitIInv == Init => IInv
<1> SUFFICES ASSUME Init PROVE IInv
  OBVIOUS
<1>1. NothingSeen \in Seen
  BY DEF NothingSeen, Seen
<1>2. NoCall \in Calls
  BY <1>1 DEF NoCall, NoInput, Calls, CallStates, Inputs
<1>3. StateTypeOK
  BY <1>1, <1>2 DEF Init, StateTypeOK, RunStatuses
<1>4. ex \in [Executors -> Executor]
  BY IdleOK DEF Init
<1>5. JournalOK(calls, cancelRequested)
  BY NothingBacked DEF Init, JournalOK, NoCall, NoInput
<1>6. \A e \in Executors : ExecutorOK(calls, ex[e])
  BY IdleOK DEF Init
<1>7. ReleaseOK(calls, releases, candidate)
  BY DEF Init, ReleaseOK
<1> QED BY <1>3, <1>4, <1>5, <1>6, <1>7 DEF IInv, TypeOK

\* A step of one executor re-establishes the invariant if it leaves that
\* executor in order beside a journal in order that has only grown.
LEMMA ExecutorFrame ==
  ASSUME IInv, StateTypeOK', Grows(calls, calls'),
         JournalOK(calls', cancelRequested'),
         NEW e \in Executors, NEW y \in Executor, ExecutorOK(calls', y),
         ex' = [ex EXCEPT ![e] = y],
         ReleaseOK(calls', releases', candidate')
  PROVE  IInv'
<1>1. ex \in [Executors -> Executor] /\ calls \in [Stages -> Calls]
  BY DEF IInv, TypeOK, StateTypeOK
<1>2. ex' \in [Executors -> Executor]
  BY <1>1
<1>3. ASSUME NEW f \in Executors PROVE ExecutorOK(calls', ex'[f])
  <2>1. CASE f = e
    BY <2>1, <1>1
  <2>2. CASE f # e
    BY <2>2, <1>1, ExecutorGrows DEF IInv
  <2> QED BY <2>1, <2>2
<1> QED BY <1>2, <1>3 DEF IInv, TypeOK

\* A step that leaves the journal and the release alone keeps both in order.
LEMMA JournalFrame ==
  ASSUME IInv, calls' = calls
  PROVE  /\ Grows(calls, calls')
         /\ cancelRequested' = cancelRequested => JournalOK(calls', cancelRequested')
         /\ releases' = releases /\ candidate' = candidate
              => ReleaseOK(calls', releases', candidate')
BY DEF IInv, Grows

\* A release stays backed as the journal grows.
LEMMA ReleaseFrame ==
  ASSUME IInv, Grows(calls, calls'), UNCHANGED <<releases, candidate>>
  PROVE  ReleaseOK(calls', releases', candidate')
<1>1. ASSUME BackedBy(calls, candidate) PROVE BackedBy(calls', candidate)
  BY <1>1, BackedGrows
<1> QED BY <1>1 DEF IInv, ReleaseOK

\* Writing one row that was not confirmed grows the journal and keeps it in
\* order if the new row is built on backed results.
LEMMA RowWritten ==
  ASSUME IInv, NEW s \in Stages, NEW row \in Calls,
         calls' = [calls EXCEPT ![s] = row],
         calls[s].state # "confirmed",
         BackedBy(calls, row.input.seen),
         row.state = "confirmed" => row.result \in Results,
         cancelRequested' = cancelRequested,
         cancelRequested => row.state \notin {"dispatched", "unconfirmed"}
  PROVE  /\ calls' \in [Stages -> Calls]
         /\ Grows(calls, calls')
         /\ JournalOK(calls', cancelRequested')
<1>1. calls \in [Stages -> Calls] /\ JournalOK(calls, cancelRequested)
  BY DEF IInv, TypeOK, StateTypeOK
<1>2. calls' \in [Stages -> Calls]
  BY <1>1
<1>3. Grows(calls, calls')
  BY <1>1 DEF Grows
<1>4. ASSUME NEW t \in Stages PROVE BackedBy(calls', calls'[t].input.seen)
  <2>1. BackedBy(calls, calls'[t].input.seen)
    BY <1>1 DEF JournalOK
  <2> QED BY <2>1, <1>3, BackedGrows
<1>5. \A t \in Stages : calls'[t].state = "confirmed" => calls'[t].result \in Results
  BY <1>1 DEF JournalOK
<1>6. cancelRequested' => \A t \in Stages : calls'[t].state \notin {"dispatched", "unconfirmed"}
  BY <1>1 DEF JournalOK
<1> QED BY <1>2, <1>3, <1>4, <1>5, <1>6 DEF JournalOK

\* An executor that gives up its request keeps the invariant, whatever part
\* of the database other than the journal and the release has changed.
LEMMA ReturnOK ==
  ASSUME IInv, StateTypeOK', NEW e \in Executors, Return(e),
         UNCHANGED <<calls, cancelRequested, releases, candidate>>
  PROVE  IInv'
<1>1. ex[e] \in Executor /\ ex[e].material \in Materials
  BY DEF IInv, TypeOK, Executor
<1>2. /\ IdleExecutor(ex[e].material) \in Executor
      /\ ExecutorOK(calls', IdleExecutor(ex[e].material))
  BY <1>1, IdleOK
<1>3. /\ Grows(calls, calls') /\ JournalOK(calls', cancelRequested')
      /\ ReleaseOK(calls', releases', candidate')
  BY JournalFrame
<1> QED BY <1>2, <1>3, ExecutorFrame DEF Return

\* Likewise an executor that moves on within its stage.
LEMMA GoToOK ==
  ASSUME IInv, StateTypeOK', NEW e \in Executors, NEW pc \in Pcs, GoTo(e, pc),
         ex[e].pc \notin {"idle", "release_status", "commit", "fail_gate"},
         pc \notin {"release_status", "commit", "fail_gate",
                    "confirmed_event", "checkpoint"},
         Grows(calls, calls'), JournalOK(calls', cancelRequested'),
         UNCHANGED <<releases, candidate>>
  PROVE  IInv'
<1> DEFINE y == [ex[e] EXCEPT !.pc = pc]
<1>1. ex[e] \in Executor /\ calls \in [Stages -> Calls]
  BY DEF IInv, TypeOK, StateTypeOK
<1>2. ExecutorOK(calls', ex[e])
  BY <1>1, ExecutorGrows DEF IInv
<1>3. y \in Executor /\ ExecutorOK(calls', y)
  BY <1>1, <1>2, MovedOK
<1>4. ex' = [ex EXCEPT ![e] = y]
  BY DEF GoTo
<1>5. ReleaseOK(calls', releases', candidate')
  BY ReleaseFrame
<1> HIDE DEF y
<1> QED BY <1>3, <1>4, <1>5, ExecutorFrame

\* Likewise an executor that consumes a result confirmed in the journal.
LEMMA AdvanceOK ==
  ASSUME IInv, StateTypeOK', NEW e \in Executors, NEW r \in Results,
         NEW m \in Materials, Advance(e, r, m), ConfirmedAs(calls', ex[e].at, r),
         ex[e].pc \notin {"idle", "release_status", "commit", "fail_gate"},
         Grows(calls, calls'), JournalOK(calls', cancelRequested'),
         UNCHANGED <<releases, candidate>>
  PROVE  IInv'
<1>1. ex[e] \in Executor /\ calls \in [Stages -> Calls]
  BY DEF IInv, TypeOK, StateTypeOK
<1>2. ExecutorOK(calls', ex[e])
  BY <1>1, ExecutorGrows DEF IInv
<1>3. Advanced(ex[e], r, m) \in Executor /\ ExecutorOK(calls', Advanced(ex[e], r, m))
  BY <1>1, <1>2, AdvancedOK
<1>4. ReleaseOK(calls', releases', candidate')
  BY ReleaseFrame
<1> QED BY <1>3, <1>4, ExecutorFrame DEF Advance

\* Likewise an executor that consumes or checkpoints a confirmed result.
LEMMA ConsumeOK ==
  ASSUME IInv, StateTypeOK', NEW e \in Executors, NEW r \in Results,
         Consume(e, r), ConfirmedAs(calls, ex[e].at, r),
         ex[e].pc \notin {"idle", "release_status", "commit", "fail_gate"},
         UNCHANGED <<calls, cancelRequested, releases, candidate>>
  PROVE  IInv'
<1>1. ex[e] \in Executor /\ ExecutorOK(calls, ex[e])
  BY DEF IInv, TypeOK
<1>2. Consumed(ex[e], r) \in Executor /\ ExecutorOK(calls', Consumed(ex[e], r))
  BY <1>1, ConsumedOK
<1>3. /\ Grows(calls, calls') /\ JournalOK(calls', cancelRequested')
      /\ ReleaseOK(calls', releases', candidate')
  BY JournalFrame
<1> QED BY <1>2, <1>3, ExecutorFrame DEF Consume

(***************************************************************************)
(* One lemma per action that the invariant depends on                      *)
(***************************************************************************)

\* Cancelling closes the open rows and keeps the confirmed ones.
LEMMA CancelStep ==
  ASSUME IInv, NEW k \in CancelKeys, CancelProduction(k)
  PROVE  IInv'
<1>1. /\ calls \in [Stages -> Calls] /\ JournalOK(calls, cancelRequested)
      /\ ex \in [Executors -> Executor]
  BY DEF IInv, TypeOK, StateTypeOK
<1>2. \A s \in Stages : calls'[s] = IF calls[s].state \in {"dispatched", "unconfirmed"}
                                    THEN [calls[s] EXCEPT !.state = "cancelled"]
                                    ELSE calls[s]
  BY DEF CancelProduction
<1>3. calls' \in [Stages -> Calls]
  BY <1>1 DEF CancelProduction, Calls, CallStates
<1>4. StateTypeOK'
  BY <1>3 DEF IInv, TypeOK, StateTypeOK, CancelProduction, envVars, historyVars, RunStatuses
<1>5. Grows(calls, calls')
  BY <1>2 DEF Grows
<1>6. JournalOK(calls', cancelRequested')
  <2>1. ASSUME NEW s \in Stages PROVE BackedBy(calls', calls'[s].input.seen)
    <3>1. calls'[s].input = calls[s].input
      BY <1>1, <1>2 DEF Calls
    <3>2. BackedBy(calls, calls[s].input.seen)
      BY <1>1 DEF JournalOK
    <3> QED BY <3>1, <3>2, <1>5, BackedGrows
  <2>2. \A s \in Stages : /\ calls'[s].state \notin {"dispatched", "unconfirmed"}
                          /\ calls'[s].state = "confirmed" => calls'[s] = calls[s]
    BY <1>1, <1>2 DEF Calls
  <2> QED BY <1>1, <2>1, <2>2 DEF JournalOK
<1>7. \A e \in Executors : ExecutorOK(calls', ex'[e])
  BY <1>1, <1>5, ExecutorGrows DEF IInv, CancelProduction
<1>8. ReleaseOK(calls', releases', candidate')
  BY <1>5, ReleaseFrame DEF CancelProduction
<1>9. ex' \in [Executors -> Executor]
  BY <1>1 DEF CancelProduction
<1> QED BY <1>4, <1>6, <1>7, <1>8, <1>9 DEF IInv, TypeOK

\* The project and the start of the run touch neither journal nor executors.
LEMMA ProjectStep ==
  ASSUME IInv, StartProduction \/ MaterialChanges \/ SettlementElsewhere
  PROVE  IInv'
<1>1. UNCHANGED <<calls, cancelRequested, releases, candidate, ex>>
  BY DEF StartProduction, MaterialChanges, SettlementElsewhere, dbVars, envVars
<1>2. StateTypeOK'
  <2>1. CASE StartProduction
    BY <2>1 DEF IInv, TypeOK, StateTypeOK, StartProduction, envVars, historyVars, RunStatuses
  <2>2. CASE MaterialChanges
    BY <2>2 DEF IInv, TypeOK, StateTypeOK, MaterialChanges, dbVars, historyVars
  <2>3. CASE SettlementElsewhere
    <3>1. freezes' \in [Materials -> {"absent", "frozen", "stale_conflict"}]
      BY <2>3 DEF IInv, TypeOK, StateTypeOK, SettlementElsewhere
    <3> QED
      BY <2>3, <3>1 DEF IInv, TypeOK, StateTypeOK, SettlementElsewhere, historyVars
  <2> QED BY <2>1, <2>2, <2>3
<1> QED BY <1>1, <1>2 DEF IInv, TypeOK

\* A beginning execution has consumed nothing and aims at the first stage.
LEMMA BeginStep ==
  ASSUME IInv, NEW e \in Executors, BeginExecution(e)
  PROVE  IInv'
<1> DEFINE y == [IdleExecutor(material) EXCEPT !.pc = EntryPc(First)]
<1>1. StateTypeOK'
  BY DEF IInv, TypeOK, StateTypeOK, BeginExecution, dbVars, envVars
<1>2. material \in Materials
  BY DEF IInv, TypeOK, StateTypeOK
<1>3. IdleExecutor(material) \in Executor
  BY <1>2, IdleOK
<1>4. y \in Executor
  BY <1>3 DEF Executor, EntryPc, Pcs
<1>5. y.pc \in {"freeze", "qualified_event", "stage"} /\ y.at = First /\ y.seen = NothingSeen
  BY DEF IdleExecutor, EntryPc
<1>6. FollowsRoute(NothingSeen, {First})
  BY DEF FollowsRoute, NothingSeen
<1>7. ExecutorOK(calls', y)
  BY <1>5, <1>6, NothingBacked DEF ExecutorOK, Goals
<1>8. UNCHANGED <<calls, cancelRequested, releases, candidate>> /\ ex' = [ex EXCEPT ![e] = y]
  BY DEF BeginExecution, dbVars
<1>9. /\ Grows(calls, calls') /\ JournalOK(calls', cancelRequested')
      /\ ReleaseOK(calls', releases', candidate')
  BY <1>8, JournalFrame
<1> HIDE DEF y
<1> QED BY <1>1, <1>4, <1>7, <1>8, <1>9, ExecutorFrame

\* Core's own result enters the journal as confirmed and is consumed.
LEMMA DerivedStep ==
  ASSUME IInv, NEW e \in Executors, ConfirmDerivedStage(e)
  PROVE  IInv'
<1> DEFINE s == ex[e].at
           m == IF s \in PoolStages THEN material ELSE ex[e].material
           row == DerivedCall(s, ex[e].seen, m)
<1>1. /\ s \in Stages /\ ex[e].seen \in Seen /\ m \in Materials
      /\ ex[e].pc = "stage" /\ calls \in [Stages -> Calls]
  BY DEF IInv, TypeOK, StateTypeOK, Executor, ConfirmDerivedStage
<1>2. DerivedResult(ex[e].seen) \in Results
  <2>1. (CHOOSE v \in Variants : TRUE) \in Variants
    BY ProductionRunAssumption
  <2> QED BY <2>1, ProductionRunAssumption DEF DerivedResult, Results
<1>3. row \in Calls
  <2>1. InputOf(s, ex[e].seen, m) \in Inputs
    BY <1>1 DEF InputOf, Inputs
  <2> QED BY <2>1, <1>2 DEF DerivedCall, Calls, CallStates
<1>4. /\ row.state = "confirmed" /\ row.result \in Results
      /\ row.input.seen = ex[e].seen
  BY <1>2 DEF DerivedCall, InputOf
<1>5. BackedBy(calls, ex[e].seen)
  BY DEF IInv, ExecutorOK
<1> HIDE DEF row
<1>6. CASE /\ ~cancelRequested /\ calls[s].state = "absent"
           /\ calls' = [calls EXCEPT ![s] = row]
           /\ checkpoints' = checkpoints \cup {<<"derived", s, row.result>>}
           /\ events' = events + 1 /\ Advance(e, row.result, m)
  <2>1. UNCHANGED <<cancelRequested, releases, candidate>>
    BY DEF ConfirmDerivedStage
  <2>2. /\ calls' \in [Stages -> Calls] /\ Grows(calls, calls')
        /\ JournalOK(calls', cancelRequested')
    BY <1>1, <1>3, <1>4, <1>5, <1>6, <2>1, RowWritten
  <2>3. checkpoints' \in SUBSET ({"derived", "scene", "failed_gate", "user_visible_gate"}
                                 \X Stages \X Results)
    BY <1>1, <1>4, <1>6 DEF IInv, TypeOK, StateTypeOK
  <2>4. StateTypeOK'
    BY <1>6, <2>2, <2>3 DEF IInv, TypeOK, StateTypeOK, ConfirmDerivedStage, envVars, historyVars
  <2>5. ConfirmedAs(calls', s, row.result)
    BY <1>1, <1>4, <1>6 DEF ConfirmedAs
  <2> QED BY <1>1, <1>4, <1>6, <2>1, <2>2, <2>4, <2>5, AdvanceOK
<1>7. CASE /\ calls[s] = row /\ Advance(e, row.result, m)
           /\ UNCHANGED <<calls, checkpoints, events>>
  <2>1. UNCHANGED <<calls, cancelRequested, releases, candidate>>
    BY <1>7 DEF ConfirmDerivedStage
  <2>2. StateTypeOK'
    BY <1>7 DEF IInv, TypeOK, StateTypeOK, ConfirmDerivedStage, envVars, historyVars
  <2>3. Grows(calls, calls') /\ JournalOK(calls', cancelRequested')
    BY <2>1, JournalFrame
  <2>4. ConfirmedAs(calls', s, row.result)
    BY <1>4, <1>7 DEF ConfirmedAs
  <2> QED BY <1>1, <1>4, <1>7, <2>1, <2>2, <2>3, <2>4, AdvanceOK
<1>8. CASE Return(e) /\ UNCHANGED <<calls, checkpoints, events>>
  <2>1. StateTypeOK'
    BY <1>8 DEF IInv, TypeOK, StateTypeOK, ConfirmDerivedStage, envVars, historyVars
  <2> QED BY <1>8, <2>1, ReturnOK DEF ConfirmDerivedStage
<1> QED BY <1>6, <1>7, <1>8 DEF ConfirmDerivedStage, row

\* A stage is replayed only from its confirmed row.
LEMMA LookUpStep ==
  ASSUME IInv, NEW e \in Executors, LookUpStage(e)
  PROVE  IInv'
<1> DEFINE s == ex[e].at
           m == IF s \in PoolStages THEN material ELSE ex[e].material
<1>1. /\ ex[e] \in Executor /\ s \in Stages /\ m \in Materials /\ ex[e].pc = "stage"
  BY DEF IInv, TypeOK, StateTypeOK, Executor, LookUpStage
<1>2. UNCHANGED <<calls, cancelRequested, releases, candidate>> /\ StateTypeOK'
  BY DEF IInv, TypeOK, StateTypeOK, LookUpStage, dbVars, envVars, historyVars
<1>3. CASE ex' = [ex EXCEPT ![e] = [ex[e] EXCEPT !.pc = "dispatch", !.material = m]]
  <2> DEFINE y == [ex[e] EXCEPT !.pc = "dispatch", !.material = m]
  <2>1. ex' = [ex EXCEPT ![e] = y]
    BY <1>3
  <2>2. y \in Executor
    BY <1>1 DEF Executor, Pcs
  <2>3. ExecutorOK(calls', y)
    BY <1>1, <1>2 DEF IInv, ExecutorOK, Goals, Executor
  <2>4. /\ Grows(calls, calls') /\ JournalOK(calls', cancelRequested')
        /\ ReleaseOK(calls', releases', candidate')
    BY <1>2, JournalFrame
  <2> HIDE DEF y
  <2> QED BY <1>2, <2>1, <2>2, <2>3, <2>4, ExecutorFrame
<1>4. CASE MayReplay(s, ex[e].seen, m) /\ Consume(e, calls[s].result)
  <2>1. ConfirmedAs(calls, s, calls[s].result) /\ calls[s].result \in Results
    BY <1>1, <1>4 DEF MayReplay, ConfirmedAs, IInv, JournalOK
  <2> QED BY <1>1, <1>2, <1>4, <2>1, ConsumeOK
<1>5. CASE Return(e)
  BY <1>2, <1>5, ReturnOK
<1> QED BY <1>3, <1>4, <1>5 DEF LookUpStage

\* A dispatched row is built on what its executor has consumed.
LEMMA DispatchStep ==
  ASSUME IInv, NEW e \in Executors, DispatchStage(e)
  PROVE  IInv'
<1> DEFINE s == ex[e].at
           i == InputOf(s, ex[e].seen, ex[e].material)
           row == [state |-> "dispatched", input |-> i, result |-> NoResult]
<1>1. /\ s \in Stages /\ ex[e].seen \in Seen /\ ex[e].material \in Materials
      /\ ex[e].pc = "dispatch" /\ calls \in [Stages -> Calls]
  BY DEF IInv, TypeOK, StateTypeOK, Executor, DispatchStage
<1>2. i.seen = ex[e].seen /\ i \in Inputs
  BY <1>1 DEF InputOf, Inputs
<1>3. UNCHANGED <<cancelRequested, releases, candidate>>
  BY DEF DispatchStage
<1>4. BackedBy(calls, ex[e].seen)
  BY DEF IInv, ExecutorOK
<1> HIDE DEF i
<1>5. CASE /\ ~cancelRequested /\ calls[s].state = "absent"
           /\ calls' = [calls EXCEPT ![s] = row]
           /\ status' = "executing" /\ GoTo(e, "send")
  <2>1. row \in Calls /\ row.state = "dispatched" /\ row.input.seen = ex[e].seen
    BY <1>2 DEF Calls, CallStates
  <2> HIDE DEF row
  <2>2. /\ calls' \in [Stages -> Calls] /\ Grows(calls, calls')
        /\ JournalOK(calls', cancelRequested')
    BY <1>1, <1>3, <1>4, <1>5, <2>1, RowWritten
  <2>3. StateTypeOK'
    BY <1>5, <2>2 DEF IInv, TypeOK, StateTypeOK, DispatchStage, envVars, historyVars, RunStatuses
  <2> QED BY <1>1, <1>3, <1>5, <2>2, <2>3, GoToOK DEF Pcs
<1>6. CASE GoTo(e, "send") /\ UNCHANGED <<calls, status>>
  <2>1. StateTypeOK'
    BY <1>6 DEF IInv, TypeOK, StateTypeOK, DispatchStage, envVars, historyVars
  <2>2. Grows(calls, calls') /\ JournalOK(calls', cancelRequested')
    BY <1>3, <1>6, JournalFrame
  <2> QED BY <1>1, <1>3, <1>6, <2>1, <2>2, GoToOK DEF Pcs
<1>7. CASE Return(e) /\ UNCHANGED <<calls, status>>
  <2>1. StateTypeOK'
    BY <1>7 DEF IInv, TypeOK, StateTypeOK, DispatchStage, envVars, historyVars
  <2> QED BY <1>3, <1>7, <2>1, ReturnOK
<1> QED BY <1>5, <1>6, <1>7 DEF DispatchStage, DispatchRefused, i

\* The first answer is confirmed; a different later one is dropped.
LEMMA ConfirmStep ==
  ASSUME IInv, NEW e \in Executors, NEW r \in AnswersOf(ex[e].at), ConfirmStage(e, r)
  PROVE  IInv'
<1> DEFINE s == ex[e].at
           row == [calls[s] EXCEPT !.state = "confirmed", !.result = r]
           y == Confirmed(ex[e], r)
<1>1. /\ ex[e] \in Executor /\ s \in Stages /\ ex[e].pc = "await"
      /\ calls \in [Stages -> Calls]
  BY DEF IInv, TypeOK, StateTypeOK, Executor, ConfirmStage
<1>2. r \in Results
  BY <1>1, ProductionRunAssumption DEF AnswersOf, Results
<1>3. UNCHANGED <<cancelRequested, releases, candidate>>
  BY DEF ConfirmStage
<1>4. y \in Executor
  BY <1>1, <1>2 DEF Confirmed, Executor, Pcs
<1>5. ASSUME Grows(calls, calls'), ConfirmedAs(calls', s, r) PROVE ExecutorOK(calls', y)
  <2>1. ExecutorOK(calls', ex[e])
    BY <1>1, <1>5, ExecutorGrows DEF IInv
  <2> QED BY <1>1, <1>5, <2>1 DEF ExecutorOK, Confirmed, Goals, Executor
<1>6. CASE /\ calls[s].state \in {"dispatched", "unconfirmed"}
           /\ calls' = [calls EXCEPT ![s] = row]
           /\ ex' = [ex EXCEPT ![e] = y]
  <2>1. /\ row \in Calls /\ row.state = "confirmed" /\ row.result = r
        /\ row.input = calls[s].input
    BY <1>1, <1>2 DEF Calls, CallStates
  <2>2. BackedBy(calls, calls[s].input.seen)
    BY <1>1 DEF IInv, JournalOK
  <2> HIDE DEF row
  <2>3. /\ calls' \in [Stages -> Calls] /\ Grows(calls, calls')
        /\ JournalOK(calls', cancelRequested')
    BY <1>1, <1>2, <1>3, <1>6, <2>1, <2>2, RowWritten
  <2>4. StateTypeOK'
    BY <2>3 DEF IInv, TypeOK, StateTypeOK, ConfirmStage, envVars, historyVars
  <2>5. ExecutorOK(calls', y)
    BY <1>1, <1>5, <1>6, <2>1, <2>3 DEF ConfirmedAs
  <2>6. ReleaseOK(calls', releases', candidate')
    BY <1>3, <2>3, ReleaseFrame
  <2> HIDE DEF y
  <2> QED BY <1>4, <1>6, <2>3, <2>4, <2>5, <2>6, ExecutorFrame
<1>7. CASE /\ calls[s].state = "confirmed" /\ calls[s].result = r
           /\ ex' = [ex EXCEPT ![e] = y] /\ UNCHANGED calls
  <2>1. StateTypeOK'
    BY <1>7 DEF IInv, TypeOK, StateTypeOK, ConfirmStage, envVars, historyVars
  <2>2. /\ Grows(calls, calls') /\ JournalOK(calls', cancelRequested')
        /\ ReleaseOK(calls', releases', candidate')
    BY <1>3, <1>7, JournalFrame
  <2>3. ExecutorOK(calls', y)
    BY <1>5, <1>7, <2>2 DEF ConfirmedAs
  <2> HIDE DEF y
  <2> QED BY <1>4, <1>7, <2>1, <2>2, <2>3, ExecutorFrame
<1>8. CASE Return(e) /\ UNCHANGED calls
  <2>1. StateTypeOK'
    BY <1>8 DEF IInv, TypeOK, StateTypeOK, ConfirmStage, envVars, historyVars
  <2> QED BY <1>3, <1>8, <2>1, ReturnOK
<1> QED BY <1>6, <1>7, <1>8 DEF ConfirmStage

\* Marking a call unconfirmed never touches a confirmed row.
LEMMA UnconfirmedStep ==
  ASSUME IInv, NEW e \in Executors, MarkUnconfirmed(e)
  PROVE  IInv'
<1> DEFINE s == ex[e].at
           row == [calls[s] EXCEPT !.state = "unconfirmed"]
<1>1. /\ s \in Stages /\ ex[e].pc = "await" /\ calls \in [Stages -> Calls]
  BY DEF IInv, TypeOK, StateTypeOK, Executor, MarkUnconfirmed
<1>2. UNCHANGED <<cancelRequested, releases, candidate>>
  BY DEF MarkUnconfirmed
<1>3. CASE /\ calls[s].state \in {"dispatched", "unconfirmed"}
           /\ calls' = [calls EXCEPT ![s] = row]
           /\ GoTo(e, "unconfirmed_event")
  <2>1. row \in Calls /\ row.state = "unconfirmed" /\ row.input = calls[s].input
    BY <1>1 DEF Calls, CallStates
  <2>2. BackedBy(calls, calls[s].input.seen) /\ ~cancelRequested
    BY <1>1, <1>3 DEF IInv, JournalOK
  <2> HIDE DEF row
  <2>3. /\ calls' \in [Stages -> Calls] /\ Grows(calls, calls')
        /\ JournalOK(calls', cancelRequested')
    BY <1>1, <1>2, <1>3, <2>1, <2>2, RowWritten
  <2>4. StateTypeOK'
    BY <2>3 DEF IInv, TypeOK, StateTypeOK, MarkUnconfirmed, envVars, historyVars
  <2> QED BY <1>1, <1>2, <1>3, <2>3, <2>4, GoToOK DEF Pcs
<1>4. CASE Return(e) /\ UNCHANGED calls
  <2>1. StateTypeOK'
    BY <1>4 DEF IInv, TypeOK, StateTypeOK, MarkUnconfirmed, envVars, historyVars
  <2> QED BY <1>2, <1>4, <2>1, ReturnOK
<1> QED BY <1>3, <1>4 DEF MarkUnconfirmed

\* The event after a confirmation: the confirmed result is consumed.
LEMMA ConfirmedEventStep ==
  ASSUME IInv, NEW e \in Executors, AppendConfirmedEvent(e)
  PROVE  IInv'
<1>1. StateTypeOK'
  BY DEF IInv, TypeOK, StateTypeOK, AppendConfirmedEvent, envVars, historyVars
<1>2. ConfirmedAs(calls, ex[e].at, ex[e].result)
  BY DEF IInv, ExecutorOK, AppendConfirmedEvent
<1>3. ex[e].at \in Stages
  BY DEF IInv, TypeOK, Executor
<1>4. ex[e].result \in Results
  BY <1>2, <1>3 DEF IInv, JournalOK, ConfirmedAs
<1> QED BY <1>1, <1>2, <1>4, ConsumeOK DEF AppendConfirmedEvent

\* A scene is consumed after its checkpoint.
LEMMA CheckpointStep ==
  ASSUME IInv, NEW e \in Executors, RecordSceneCheckpoint(e)
  PROVE  IInv'
<1> DEFINE s == ex[e].at
           r == ex[e].result
<1>1. /\ s \in Stages /\ ex[e].material \in Materials /\ ex[e].pc = "checkpoint"
  BY DEF IInv, TypeOK, Executor, RecordSceneCheckpoint
<1>2. ConfirmedAs(calls, s, r) /\ r \in Results
  BY <1>1 DEF IInv, ExecutorOK, JournalOK, ConfirmedAs
<1>3. UNCHANGED <<calls, cancelRequested, releases, candidate>>
  BY DEF RecordSceneCheckpoint
<1>4. CASE /\ checkpoints' = checkpoints \cup {<<"scene", s, r>>}
           /\ Advance(e, r, ex[e].material)
  <2>1. checkpoints' \in SUBSET ({"derived", "scene", "failed_gate", "user_visible_gate"}
                                 \X Stages \X Results)
    BY <1>1, <1>2, <1>4 DEF IInv, TypeOK, StateTypeOK
  <2>2. StateTypeOK'
    BY <2>1 DEF IInv, TypeOK, StateTypeOK, RecordSceneCheckpoint, envVars, historyVars
  <2>3. Grows(calls, calls') /\ JournalOK(calls', cancelRequested')
    BY <1>3, JournalFrame
  <2>4. ConfirmedAs(calls', s, r)
    BY <1>2, <1>3
  <2> QED BY <1>1, <1>2, <1>3, <1>4, <2>2, <2>3, <2>4, AdvanceOK
<1>5. CASE Return(e) /\ UNCHANGED checkpoints
  <2>1. StateTypeOK'
    BY <1>5 DEF IInv, TypeOK, StateTypeOK, RecordSceneCheckpoint, envVars, historyVars
  <2> QED BY <1>3, <1>5, <2>1, ReturnOK
<1> QED BY <1>4, <1>5 DEF RecordSceneCheckpoint

\* Freezing the writer context touches neither the journal nor a release.
LEMMA FreezeStep ==
  ASSUME IInv, NEW e \in Executors, PersistContextFreeze(e)
  PROVE  IInv'
<1>1. /\ ex[e].pc = "freeze"
      /\ UNCHANGED <<calls, cancelRequested, releases, candidate>>
  BY DEF PersistContextFreeze
<1>2. StateTypeOK'
  <2>1. freezes' \in [Materials -> {"absent", "frozen", "stale_conflict"}]
    BY DEF IInv, TypeOK, StateTypeOK, PersistContextFreeze
  <2> QED BY <2>1 DEF IInv, TypeOK, StateTypeOK, PersistContextFreeze, envVars, historyVars
<1>3. Grows(calls, calls') /\ JournalOK(calls', cancelRequested')
  BY <1>1, JournalFrame
<1>4. CASE GoTo(e, "stage")
  BY <1>1, <1>2, <1>3, <1>4, GoToOK DEF Pcs
<1>5. CASE Return(e)
  BY <1>1, <1>2, <1>5, ReturnOK
<1> QED BY <1>4, <1>5 DEF PersistContextFreeze

\* Sending a request and the announcements before the independent gate.
LEMMA AnnounceStep ==
  ASSUME IInv, NEW e \in Executors,
         \/ SendStage(e) \/ AppendQualifiedEvent(e)
         \/ SetAwaitingExternal(e) \/ AppendExternalEvent(e)
  PROVE  IInv'
<1>1. StateTypeOK'
  <2>1. CASE SendStage(e)
    <3>1. ex[e].at \in Stages
      BY DEF IInv, TypeOK, Executor
    <3>2. sent' \in [Stages -> Nat] /\ requests' \in Nat
      BY <2>1, <3>1 DEF IInv, TypeOK, StateTypeOK, SendStage
    <3> QED BY <2>1, <3>2 DEF IInv, TypeOK, StateTypeOK, SendStage, dbVars, envVars
  <2>2. CASE AppendQualifiedEvent(e)
    BY <2>2 DEF IInv, TypeOK, StateTypeOK, AppendQualifiedEvent, envVars, historyVars
  <2>3. CASE SetAwaitingExternal(e)
    BY <2>3 DEF IInv, TypeOK, StateTypeOK, SetAwaitingExternal, envVars, historyVars, RunStatuses
  <2>4. CASE AppendExternalEvent(e)
    BY <2>4 DEF IInv, TypeOK, StateTypeOK, AppendExternalEvent, envVars, historyVars
  <2> QED BY <2>1, <2>2, <2>3, <2>4
<1>2. UNCHANGED <<calls, cancelRequested, releases, candidate>>
  BY DEF SendStage, AppendQualifiedEvent, SetAwaitingExternal, AppendExternalEvent, dbVars
<1>3. Grows(calls, calls') /\ JournalOK(calls', cancelRequested')
  BY <1>2, JournalFrame
<1>4. /\ ex[e].pc \in {"send", "qualified_event", "external_status", "external_event"}
      /\ GoTo(e, "await") \/ GoTo(e, "external_status") \/ GoTo(e, "external_event")
           \/ GoTo(e, "stage")
  BY DEF SendStage, AppendQualifiedEvent, SetAwaitingExternal, AppendExternalEvent
<1> QED BY <1>1, <1>2, <1>3, <1>4, GoToOK DEF Pcs

\* A request that ends without a release.
LEMMA EndStep ==
  ASSUME IInv, NEW e \in Executors,
         AppendUnconfirmedEvent(e) \/ RecordFailedGate(e) \/ Crash(e)
  PROVE  IInv'
<1>1. StateTypeOK'
  <2>1. CASE AppendUnconfirmedEvent(e)
    BY <2>1 DEF IInv, TypeOK, StateTypeOK, AppendUnconfirmedEvent, envVars, historyVars
  <2>2. CASE RecordFailedGate(e)
    <3>1. ex[e].at \in Stages /\ ex[e].seen \in Seen
      BY DEF IInv, TypeOK, Executor
    <3>2. ex[e].seen[ex[e].at] \in Results
      BY <2>2, <3>1 DEF IInv, ExecutorOK, RecordFailedGate, Seen
    <3>3. checkpoints' \in SUBSET ({"derived", "scene", "failed_gate", "user_visible_gate"}
                                   \X Stages \X Results)
      BY <2>2, <3>1, <3>2 DEF IInv, TypeOK, StateTypeOK, RecordFailedGate
    <3> QED BY <2>2, <3>3
            DEF IInv, TypeOK, StateTypeOK, RecordFailedGate, envVars, historyVars, RunStatuses
  <2>3. CASE Crash(e)
    BY <2>3 DEF IInv, TypeOK, StateTypeOK, Crash, dbVars, envVars, historyVars
  <2> QED BY <2>1, <2>2, <2>3
<1>2. UNCHANGED <<calls, cancelRequested, releases, candidate>> /\ Return(e)
  BY DEF AppendUnconfirmedEvent, RecordFailedGate, Crash, dbVars
<1> QED BY <1>1, <1>2, ReturnOK

\* Announcing the release keeps the route that leads to it.
LEMMA AwaitReleaseStep ==
  ASSUME IInv, NEW e \in Executors, SetAwaitingRelease(e)
  PROVE  IInv'
<1> DEFINE y == [ex[e] EXCEPT !.pc = "commit"]
<1>1. StateTypeOK'
  BY DEF IInv, TypeOK, StateTypeOK, SetAwaitingRelease, envVars, historyVars, RunStatuses
<1>2. UNCHANGED <<calls, cancelRequested, releases, candidate>> /\ ex[e].pc = "release_status"
  BY DEF SetAwaitingRelease
<1>3. ex[e] \in Executor /\ ExecutorOK(calls, ex[e])
  BY DEF IInv, TypeOK
<1>4. y \in Executor /\ ExecutorOK(calls', y)
  BY <1>2, <1>3 DEF Executor, ExecutorOK, Goals, Pcs
<1>5. /\ Grows(calls, calls') /\ JournalOK(calls', cancelRequested')
      /\ ReleaseOK(calls', releases', candidate')
  BY <1>2, JournalFrame
<1>6. ex' = [ex EXCEPT ![e] = y]
  BY DEF SetAwaitingRelease, GoTo
<1> HIDE DEF y
<1> QED BY <1>1, <1>4, <1>5, <1>6, ExecutorFrame

\* What is released followed its route to the release.
LEMMA CommitStep ==
  ASSUME IInv, NEW e \in Executors, CommitReleasedCandidate(e)
  PROVE  IInv'
<1>1. /\ ex[e] \in Executor /\ ex[e].at \in Stages /\ ex[e].seen \in Seen
      /\ ex[e].material \in Materials /\ ex[e].pc = "commit"
  BY DEF IInv, TypeOK, Executor, CommitReleasedCandidate
<1>2. UNCHANGED <<calls, cancelRequested>> /\ Return(e)
  BY DEF CommitReleasedCandidate
<1>3. CASE /\ candidate' = ex[e].seen /\ releases' = releases + 1
           /\ checkpoints' = checkpoints
                \cup {<<"user_visible_gate", ex[e].at, ex[e].seen[ex[e].at]>>}
           /\ status' = "review" /\ events' = events + 1
  <2>1. ExecutorOK(calls, ex[e])
    BY DEF IInv
  <2>2. ex[e].seen[ex[e].at] \in Results
    BY <1>1, <2>1 DEF ExecutorOK, Seen
  <2>3. checkpoints' \in SUBSET ({"derived", "scene", "failed_gate", "user_visible_gate"}
                                 \X Stages \X Results)
    BY <1>1, <1>3, <2>2 DEF IInv, TypeOK, StateTypeOK
  <2>4. StateTypeOK'
    BY <1>1, <1>3, <2>3 DEF IInv, TypeOK, StateTypeOK, CommitReleasedCandidate, envVars,
       historyVars, RunStatuses
  <2>5. ReleaseOK(calls', releases', candidate')
    BY <1>1, <1>2, <1>3, <2>1 DEF ReleaseOK, ExecutorOK, Goals
  <2>6. Grows(calls, calls') /\ JournalOK(calls', cancelRequested')
    BY <1>2, JournalFrame
  <2>7. /\ IdleExecutor(ex[e].material) \in Executor
        /\ ExecutorOK(calls', IdleExecutor(ex[e].material))
    BY <1>1, IdleOK
  <2> QED BY <1>2, <2>4, <2>5, <2>6, <2>7, ExecutorFrame DEF Return
<1>4. CASE UNCHANGED <<candidate, releases, checkpoints, status, events>>
  <2>1. StateTypeOK'
    BY <1>4 DEF IInv, TypeOK, StateTypeOK, CommitReleasedCandidate, envVars, historyVars
  <2> QED BY <1>2, <1>4, <2>1, ReturnOK
<1> QED BY <1>3, <1>4 DEF CommitReleasedCandidate

\* The inductive invariant holds in every next state.
LEMMA NextIInv == IInv /\ [Next]_vars => IInv'
<1> SUFFICES ASSUME IInv, [Next]_vars PROVE IInv'
  OBVIOUS
<1>1. ASSUME NEW k \in CancelKeys, CancelProduction(k) PROVE IInv'
  BY <1>1, CancelStep
<1>2. CASE StartProduction \/ MaterialChanges \/ SettlementElsewhere
  BY <1>2, ProjectStep
<1>3. ASSUME NEW e \in Executors, BeginExecution(e) \/ ExecutorStep(e) \/ Crash(e)
      PROVE IInv'
  <2>1. CASE BeginExecution(e)
    BY <2>1, BeginStep
  <2>2. CASE ConfirmDerivedStage(e) \/ LookUpStage(e) \/ DispatchStage(e)
    BY <2>2, DerivedStep, LookUpStep, DispatchStep
  <2>3. CASE EndModelCall(e)
    BY <2>3, ConfirmStep, UnconfirmedStep DEF EndModelCall
  <2>4. CASE AppendConfirmedEvent(e) \/ RecordSceneCheckpoint(e) \/ PersistContextFreeze(e)
    BY <2>4, ConfirmedEventStep, CheckpointStep, FreezeStep
  <2>5. CASE \/ SendStage(e) \/ AppendQualifiedEvent(e)
             \/ SetAwaitingExternal(e) \/ AppendExternalEvent(e)
    BY <2>5, AnnounceStep
  <2>6. CASE AppendUnconfirmedEvent(e) \/ RecordFailedGate(e) \/ Crash(e)
    BY <2>6, EndStep
  <2>7. CASE SetAwaitingRelease(e)
    BY <2>7, AwaitReleaseStep
  <2>8. CASE CommitReleasedCandidate(e)
    BY <2>8, CommitStep
  <2> QED BY <1>3, <2>1, <2>2, <2>3, <2>4, <2>5, <2>6, <2>7, <2>8 DEF ExecutorStep
<1>4. CASE UNCHANGED vars
  BY <1>4 DEF vars, dbVars, envVars, historyVars, IInv, TypeOK, StateTypeOK
<1> QED BY <1>1, <1>2, <1>3, <1>4 DEF Next

\* The only actions that write journal rows.
LEMMA JournalWriters ==
  ASSUME [Next]_vars
  PROVE  \/ calls' = calls
         \/ \E k \in CancelKeys : CancelProduction(k)
         \/ \E e \in Executors :
              ConfirmDerivedStage(e) \/ DispatchStage(e) \/ EndModelCall(e)
<1>1. CASE StartProduction \/ MaterialChanges \/ SettlementElsewhere
  BY <1>1 DEF StartProduction, MaterialChanges, SettlementElsewhere, dbVars
<1>2. ASSUME NEW e \in Executors, BeginExecution(e) \/ ExecutorStep(e) \/ Crash(e)
      PROVE  \/ calls' = calls
             \/ ConfirmDerivedStage(e) \/ DispatchStage(e) \/ EndModelCall(e)
  BY <1>2 DEF ExecutorStep, BeginExecution, Crash, LookUpStage, SendStage,
     AppendConfirmedEvent, AppendUnconfirmedEvent, RecordSceneCheckpoint,
     PersistContextFreeze, AppendQualifiedEvent, SetAwaitingExternal,
     AppendExternalEvent, RecordFailedGate, SetAwaitingRelease,
     CommitReleasedCandidate, dbVars
<1>3. CASE UNCHANGED vars
  BY <1>3 DEF vars, dbVars
<1> QED BY <1>1, <1>2, <1>3 DEF Next

\* No step changes a confirmed row.
LEMMA JournalGrows == TypeOK /\ [Next]_vars => Grows(calls, calls')
<1> SUFFICES ASSUME TypeOK, [Next]_vars PROVE Grows(calls, calls')
  OBVIOUS
<1>1. calls \in [Stages -> Calls]
  BY DEF TypeOK, StateTypeOK
<1>2. ASSUME NEW k \in CancelKeys, CancelProduction(k) PROVE Grows(calls, calls')
  BY <1>2 DEF CancelProduction, Grows
<1>3. ASSUME NEW e \in Executors,
             ConfirmDerivedStage(e) \/ DispatchStage(e) \/ EndModelCall(e)
      PROVE  Grows(calls, calls')
  <2>1. CASE ConfirmDerivedStage(e)
    BY <1>1, <2>1 DEF ConfirmDerivedStage, Grows
  <2>2. CASE DispatchStage(e)
    BY <1>1, <2>2 DEF DispatchStage, Grows
  <2>3. CASE EndModelCall(e)
    BY <1>1, <2>3 DEF EndModelCall, ConfirmStage, MarkUnconfirmed, Grows
  <2> QED BY <1>3, <2>1, <2>2, <2>3
<1> QED BY <1>2, <1>3, JournalWriters DEF Grows

\* No step changes the journal of a cancelled run.
LEMMA CancelledJournal == IInv /\ cancelRequested /\ [Next]_vars => calls' = calls
<1> SUFFICES ASSUME IInv, cancelRequested, [Next]_vars PROVE calls' = calls
  OBVIOUS
<1>1. /\ calls \in [Stages -> Calls]
      /\ \A s \in Stages : calls[s].state \notin {"dispatched", "unconfirmed"}
  BY DEF IInv, TypeOK, StateTypeOK, JournalOK
<1>2. ASSUME NEW k \in CancelKeys, CancelProduction(k) PROVE calls' = calls
  BY <1>1, <1>2 DEF CancelProduction
<1>3. ASSUME NEW e \in Executors,
             ConfirmDerivedStage(e) \/ DispatchStage(e) \/ EndModelCall(e)
      PROVE  calls' = calls
  <2>1. ex[e].at \in Stages
    BY DEF IInv, TypeOK, Executor
  <2>2. CASE ConfirmDerivedStage(e)
    BY <2>2 DEF ConfirmDerivedStage
  <2>3. CASE DispatchStage(e)
    BY <2>3 DEF DispatchStage, DispatchRefused
  <2>4. CASE EndModelCall(e)
    BY <1>1, <2>1, <2>4 DEF EndModelCall, ConfirmStage, MarkUnconfirmed
  <2> QED BY <1>3, <2>2, <2>3, <2>4
<1> QED BY <1>2, <1>3, JournalWriters

\* A released run keeps its candidate and is not cancelled any more.
LEMMA ReleaseKept ==
  ASSUME [Next]_vars, releases > 0, releases \in Nat
  PROVE  /\ candidate' = candidate /\ cancelRequested' = cancelRequested
         /\ abandonedBy' = abandonedBy
<1>1. CASE StartProduction \/ MaterialChanges \/ SettlementElsewhere
  BY <1>1 DEF StartProduction, MaterialChanges, SettlementElsewhere, dbVars
<1>2. ASSUME NEW k \in CancelKeys, CancelProduction(k) PROVE FALSE
  BY <1>2 DEF CancelProduction
<1>3. ASSUME NEW e \in Executors, BeginExecution(e) \/ ExecutorStep(e) \/ Crash(e)
      PROVE  /\ candidate' = candidate /\ cancelRequested' = cancelRequested
             /\ abandonedBy' = abandonedBy
  <2>1. CASE BeginExecution(e) \/ Crash(e) \/ LookUpStage(e) \/ SendStage(e)
    BY <2>1 DEF BeginExecution, Crash, LookUpStage, SendStage, dbVars
  <2>2. CASE ConfirmDerivedStage(e)
    BY <2>2 DEF ConfirmDerivedStage
  <2>3. CASE DispatchStage(e)
    BY <2>3 DEF DispatchStage
  <2>4. CASE EndModelCall(e)
    BY <2>4 DEF EndModelCall, ConfirmStage, MarkUnconfirmed
  <2>5. CASE AppendConfirmedEvent(e) \/ AppendUnconfirmedEvent(e)
    BY <2>5 DEF AppendConfirmedEvent, AppendUnconfirmedEvent
  <2>6. CASE RecordSceneCheckpoint(e) \/ PersistContextFreeze(e)
    BY <2>6 DEF RecordSceneCheckpoint, PersistContextFreeze
  <2>7. CASE AppendQualifiedEvent(e) \/ SetAwaitingExternal(e) \/ AppendExternalEvent(e)
    BY <2>7 DEF AppendQualifiedEvent, SetAwaitingExternal, AppendExternalEvent
  <2>8. CASE RecordFailedGate(e) \/ SetAwaitingRelease(e)
    BY <2>8 DEF RecordFailedGate, SetAwaitingRelease
  <2>9. CASE CommitReleasedCandidate(e)
    BY <2>9 DEF CommitReleasedCandidate, Releasable
  <2> QED BY <1>3, <2>1, <2>2, <2>3, <2>4, <2>5, <2>6, <2>7, <2>8, <2>9 DEF ExecutorStep
<1>4. CASE UNCHANGED vars
  BY <1>4 DEF vars, dbVars
<1> QED BY <1>1, <1>2, <1>3, <1>4 DEF Next

(***************************************************************************)
(* A stage is sent at most once                                            *)
(*                                                                         *)
(* The lock lets one executor work at a time; a row exists before its      *)
(* request is sent and never disappears, so no later execution finds the   *)
(* stage absent and sends it again.                                        *)
(***************************************************************************)

\* An executor x about to dispatch or to send, beside journal c and counts n.
SenderOK(c, n, x) ==
  /\ x.pc = "dispatch" => c[x.at].state = "absent"
  /\ x.pc = "send" => c[x.at].state # "absent" /\ n[x.at] = 0

\* Requests sent are journalled.
CountsOK(c, n) ==
  \A s \in Stages : n[s] <= 1 /\ (c[s].state = "absent" => n[s] = 0)

\* The part of the inductive invariant that SentAtMostOnce needs.
SentInv ==
  /\ \A e, f \in Executors : ex[e].pc # "idle" /\ ex[f].pc # "idle" => e = f
  /\ \A e \in Executors : SenderOK(calls, sent, ex[e])
  /\ CountsOK(calls, sent)

\* No step but LookUpStage and DispatchStage leads to a sender.
LEMMA NoSender ==
  ASSUME NEW x, NEW r, NEW m
  PROVE  /\ IdleExecutor(m).pc \notin {"dispatch", "send"}
         /\ Advanced(x, r, m).pc \notin {"dispatch", "send"}
<1>1. IdleExecutor(m).pc = "idle"
  BY DEF IdleExecutor
<1>2. \A s : EntryPc(s) \in {"freeze", "qualified_event", "stage"}
  BY DEF EntryPc
<1> QED BY <1>1, <1>2 DEF Advanced

\* A step of the only busy executor e keeps the invariant if the executor,
\* the journal and the counts are in order afterwards.
LEMMA SentFrame ==
  ASSUME TypeOK, NEW e \in Executors, NEW y,
         \A f \in Executors \ {e} : ex[f].pc = "idle",
         ex' = [ex EXCEPT ![e] = y],
         SenderOK(calls', sent', y), CountsOK(calls', sent')
  PROVE  SentInv'
<1>1. ex'[e] = y /\ \A f \in Executors \ {e} : ex'[f] = ex[f]
  BY DEF TypeOK
<1>2. \A f \in Executors \ {e} : SenderOK(calls', sent', ex'[f])
  BY <1>1 DEF SenderOK
<1> QED BY <1>1, <1>2 DEF SentInv

\* Rows never disappear.
LEMMA RowsStay ==
  ASSUME TypeOK, [Next]_vars, NEW s \in Stages, calls'[s].state = "absent"
  PROVE  calls[s].state = "absent"
<1>1. calls \in [Stages -> Calls]
  BY DEF TypeOK, StateTypeOK
<1>2. ASSUME NEW k \in CancelKeys, CancelProduction(k) PROVE calls[s].state = "absent"
  BY <1>1, <1>2 DEF CancelProduction, Calls
<1>3. ASSUME NEW e \in Executors,
             ConfirmDerivedStage(e) \/ DispatchStage(e) \/ EndModelCall(e)
      PROVE  calls[s].state = "absent"
  <2>1. CASE ConfirmDerivedStage(e)
    BY <1>1, <2>1 DEF ConfirmDerivedStage, DerivedCall
  <2>2. CASE DispatchStage(e)
    BY <1>1, <2>2 DEF DispatchStage
  <2>3. CASE EndModelCall(e)
    BY <1>1, <2>3 DEF EndModelCall, ConfirmStage, MarkUnconfirmed, Calls
  <2> QED BY <1>3, <2>1, <2>2, <2>3
<1> QED BY <1>2, <1>3, JournalWriters

\* While one executor works, every other one is idle.
LEMMA OthersIdle ==
  ASSUME SentInv, NEW e \in Executors, BeginExecution(e) \/ ExecutorStep(e) \/ Crash(e)
  PROVE  \A f \in Executors \ {e} : ex[f].pc = "idle"
<1>1. CASE BeginExecution(e)
  BY <1>1 DEF BeginExecution, RuntimeFree
<1>2. CASE ExecutorStep(e) \/ Crash(e)
  <2>1. ex[e].pc # "idle"
    BY <1>2 DEF ExecutorStep, Crash, ConfirmDerivedStage, LookUpStage, DispatchStage,
       SendStage, EndModelCall, ConfirmStage, MarkUnconfirmed, AppendConfirmedEvent,
       AppendUnconfirmedEvent, RecordSceneCheckpoint, PersistContextFreeze,
       AppendQualifiedEvent, SetAwaitingExternal, AppendExternalEvent,
       RecordFailedGate, SetAwaitingRelease, CommitReleasedCandidate
  <2> QED BY <2>1 DEF SentInv
<1> QED BY <1>1, <1>2

\* Every step of an executor keeps the invariant.
LEMMA SentExecutorStep ==
  ASSUME IInv, SentInv, NEW e \in Executors,
         BeginExecution(e) \/ ExecutorStep(e) \/ Crash(e)
  PROVE  SentInv'
<1>1. /\ TypeOK /\ [Next]_vars /\ ex \in [Executors -> Executor]
      /\ ex[e].at \in Stages /\ calls \in [Stages -> Calls] /\ sent \in [Stages -> Nat]
  BY DEF IInv, TypeOK, StateTypeOK, Executor, Next
<1>2. \A f \in Executors \ {e} : ex[f].pc = "idle"
  BY OthersIdle
<1>3. ASSUME sent' = sent PROVE CountsOK(calls', sent')
  BY <1>1, <1>3, RowsStay DEF SentInv, CountsOK
<1>4. ASSUME NEW y, y.pc \notin {"dispatch", "send"}, ex' = [ex EXCEPT ![e] = y], sent' = sent
      PROVE  SentInv'
  <2>1. SenderOK(calls', sent', y)
    BY <1>4 DEF SenderOK
  <2> QED BY <1>1, <1>2, <1>3, <1>4, <2>1, SentFrame
<1>5. ASSUME NEW pc, pc \notin {"dispatch", "send"}, GoTo(e, pc), sent' = sent PROVE SentInv'
  <2> DEFINE y == [ex[e] EXCEPT !.pc = pc]
  <2>1. y.pc \notin {"dispatch", "send"} /\ ex' = [ex EXCEPT ![e] = y]
    BY <1>1, <1>5 DEF GoTo, Executor
  <2> HIDE DEF y
  <2> QED BY <1>4, <1>5, <2>1
<1>6. ASSUME Return(e), sent' = sent PROVE SentInv'
  BY <1>4, <1>6, NoSender DEF Return
<1>7. ASSUME NEW r, NEW m, Advance(e, r, m), sent' = sent PROVE SentInv'
  BY <1>4, <1>7, NoSender DEF Advance
<1>8. ASSUME NEW r, Consume(e, r), sent' = sent PROVE SentInv'
  <2>1. Consumed(ex[e], r).pc \notin {"dispatch", "send"}
    BY <1>1, NoSender DEF Consumed, Executor
  <2> QED BY <1>4, <1>8, <2>1 DEF Consume
<1>9. CASE BeginExecution(e)
  <2> DEFINE y == [IdleExecutor(material) EXCEPT !.pc = EntryPc(First)]
  <2>1. y.pc \notin {"dispatch", "send"}
    BY DEF IdleExecutor, EntryPc
  <2> HIDE DEF y
  <2> QED BY <1>4, <1>9, <2>1 DEF BeginExecution, y
<1>10. CASE ConfirmDerivedStage(e)
  BY <1>6, <1>7, <1>10 DEF ConfirmDerivedStage, historyVars
<1>11. CASE LookUpStage(e)
  <2>1. sent' = sent /\ calls' = calls
    BY <1>11 DEF LookUpStage, historyVars, dbVars
  <2>2. ASSUME NEW m, calls[ex[e].at].state = "absent",
               ex' = [ex EXCEPT ![e] = [ex[e] EXCEPT !.pc = "dispatch", !.material = m]]
        PROVE  SentInv'
    <3> DEFINE y == [ex[e] EXCEPT !.pc = "dispatch", !.material = m]
    <3>1. y.pc = "dispatch" /\ y.at = ex[e].at
      BY <1>1 DEF Executor
    <3> HIDE DEF y
    <3>2. SenderOK(calls', sent', y)
      BY <2>1, <2>2, <3>1 DEF SenderOK
    <3> QED BY <1>1, <1>2, <1>3, <2>1, <2>2, <3>2, SentFrame DEF y
  <2> QED BY <1>6, <1>8, <1>11, <2>1, <2>2 DEF LookUpStage
<1>12. CASE DispatchStage(e)
  <2> DEFINE y == [ex[e] EXCEPT !.pc = "send"]
  <2>1. sent' = sent /\ calls[ex[e].at].state = "absent"
    BY <1>12 DEF DispatchStage, historyVars, SentInv, SenderOK
  <2>2. CASE GoTo(e, "send") /\ ~DispatchRefused(ex[e].at, InputOf(ex[e].at, ex[e].seen, ex[e].material))
    <3>1. y.pc = "send" /\ y.at = ex[e].at /\ ex' = [ex EXCEPT ![e] = y]
      BY <1>1, <2>2 DEF Executor, GoTo
    <3>2. calls'[ex[e].at].state = "dispatched"
      BY <1>1, <1>12, <2>1, <2>2 DEF DispatchStage
    <3>3. sent'[ex[e].at] = 0
      BY <1>1, <2>1 DEF SentInv, CountsOK
    <3> HIDE DEF y
    <3>4. SenderOK(calls', sent', y)
      BY <3>1, <3>2, <3>3 DEF SenderOK
    <3> QED BY <1>1, <1>2, <1>3, <2>1, <3>1, <3>4, SentFrame
  <2>3. CASE Return(e)
    BY <1>6, <2>1, <2>3
  <2> QED BY <1>12, <2>2, <2>3 DEF DispatchStage
<1>13. CASE SendStage(e)
  <2> DEFINE y == [ex[e] EXCEPT !.pc = "await"]
  <2>1. y.pc = "await" /\ ex' = [ex EXCEPT ![e] = y]
    BY <1>1, <1>13 DEF Executor, SendStage, GoTo
  <2>2. calls' = calls /\ sent[ex[e].at] = 0 /\ calls[ex[e].at].state # "absent"
    BY <1>13 DEF SendStage, dbVars, SentInv, SenderOK
  <2>3. sent' = [sent EXCEPT ![ex[e].at] = 1]
    BY <1>1, <1>13, <2>2 DEF SendStage
  <2>4. CountsOK(calls', sent')
    BY <1>1, <2>2, <2>3 DEF SentInv, CountsOK
  <2> HIDE DEF y
  <2>5. SenderOK(calls', sent', y)
    BY <2>1 DEF SenderOK
  <2> QED BY <1>1, <1>2, <2>1, <2>4, <2>5, SentFrame
<1>14. CASE EndModelCall(e)
  <2>1. ASSUME NEW r, ex' = [ex EXCEPT ![e] = Confirmed(ex[e], r)], sent' = sent PROVE SentInv'
    <3>1. Confirmed(ex[e], r).pc \notin {"dispatch", "send"}
      BY <1>1 DEF Confirmed, Executor
    <3> QED BY <1>4, <2>1, <3>1
  <2>2. ASSUME NEW r, ConfirmStage(e, r) PROVE SentInv'
    BY <1>6, <2>1, <2>2 DEF ConfirmStage, historyVars
  <2>3. CASE MarkUnconfirmed(e)
    BY <1>5, <1>6, <2>3 DEF MarkUnconfirmed, historyVars
  <2> QED BY <1>14, <2>2, <2>3 DEF EndModelCall
<1>15. CASE AppendConfirmedEvent(e)
  BY <1>8, <1>15 DEF AppendConfirmedEvent, historyVars
<1>16. CASE RecordSceneCheckpoint(e)
  BY <1>6, <1>7, <1>16 DEF RecordSceneCheckpoint, historyVars
<1>17. CASE PersistContextFreeze(e)
  BY <1>5, <1>6, <1>17 DEF PersistContextFreeze, historyVars
<1>18. CASE \/ AppendQualifiedEvent(e) \/ SetAwaitingExternal(e)
            \/ AppendExternalEvent(e) \/ SetAwaitingRelease(e)
  BY <1>5, <1>18 DEF AppendQualifiedEvent, SetAwaitingExternal, AppendExternalEvent,
     SetAwaitingRelease, historyVars
<1>19. CASE \/ AppendUnconfirmedEvent(e) \/ RecordFailedGate(e)
            \/ CommitReleasedCandidate(e) \/ Crash(e)
  BY <1>6, <1>19 DEF AppendUnconfirmedEvent, RecordFailedGate, CommitReleasedCandidate,
     Crash, historyVars
<1> QED BY <1>9, <1>10, <1>11, <1>12, <1>13, <1>14, <1>15, <1>16, <1>17, <1>18, <1>19
        DEF ExecutorStep

\* Every step keeps the invariant.
LEMMA SentStep == IInv /\ SentInv /\ [Next]_vars => SentInv'
<1> SUFFICES ASSUME IInv, SentInv, [Next]_vars PROVE SentInv'
  OBVIOUS
<1>1. ASSUME UNCHANGED <<ex, sent>>, RuntimeFree PROVE SentInv'
  <2>1. \A e \in Executors : ex'[e].pc = "idle"
    BY <1>1 DEF RuntimeFree
  <2>2. CountsOK(calls', sent')
    BY <1>1, RowsStay DEF IInv, SentInv, CountsOK
  <2> QED BY <2>1, <2>2 DEF SentInv, SenderOK
<1>2. CASE StartProduction \/ MaterialChanges \/ SettlementElsewhere
  BY <1>1, <1>2 DEF StartProduction, MaterialChanges, SettlementElsewhere, historyVars
<1>3. ASSUME NEW k \in CancelKeys, CancelProduction(k) PROVE SentInv'
  BY <1>1, <1>3 DEF CancelProduction, historyVars
<1>4. CASE UNCHANGED vars
  BY <1>4 DEF vars, dbVars, historyVars, SentInv
<1> QED BY <1>2, <1>3, <1>4, SentExecutorStep DEF Next

(***************************************************************************)
(* How executors move                                                      *)
(***************************************************************************)

\* Moves that keep an executor at its stage.
StepsWithinStage ==
  {<<"stage", "dispatch">>, <<"stage", "checkpoint">>, <<"dispatch", "send">>,
   <<"send", "await">>, <<"await", "confirmed_event">>, <<"await", "unconfirmed_event">>,
   <<"confirmed_event", "checkpoint">>, <<"freeze", "stage">>,
   <<"qualified_event", "external_status">>, <<"external_status", "external_event">>,
   <<"external_event", "stage">>, <<"release_status", "commit">>}

\* The tables an executor x reads for its stage.
TablesOf(x) == IF x.at \in PoolStages THEN material ELSE x.material

\* The row of executor x's stage was built from the tables m.
RowReads(x, m) ==
  x.at \in PoolStages => calls'[x.at].state # "absent" /\ calls'[x.at].input.material = m

\* The move of an executor from x to y within its stage.
MovesWithin(x, y) ==
  /\ <<x.pc, y.pc>> \in StepsWithinStage
  /\ y.at = x.at /\ y.seen = x.seen
  /\ y.material = x.material \/ (x.pc = "stage" /\ y.material = TablesOf(x))
  /\ cancelRequested => x.pc # "freeze"
  /\ x.pc = "freeze" => freezes'[x.material] # "absent"
  /\ x.pc = "dispatch" => ~BudgetExhausted /\ RowReads(x, x.material)
  /\ <<x.pc, y.pc>> = <<"stage", "checkpoint">> => RowReads(x, TablesOf(x))

\* The move of an executor from x to y with the result of its stage.
MovesOn(x, y) ==
  \E r \in Results, m \in Materials :
    /\ y = Advanced(x, r, m)
    /\ \/ x.pc = "stage" /\ m = TablesOf(x) /\ RowReads(x, m)
       \/ x.pc = "stage" /\ m = x.material /\ RowReads(x, TablesOf(x))
       \/ x.pc \in {"confirmed_event", "checkpoint"} /\ m = x.material

\* The move of an executor from x to y in one step.
Moves(x, y) ==
  \/ y.pc = "idle"
  \/ x.pc = "idle" /\ y = [IdleExecutor(material) EXCEPT !.pc = EntryPc(First)]
  \/ MovesWithin(x, y)
  \/ MovesOn(x, y)

\* Every step of an executor is one of these moves.
LEMMA ExecutorMoves ==
  ASSUME IInv, NEW e \in Executors, BeginExecution(e) \/ ExecutorStep(e) \/ Crash(e)
  PROVE  ex' = [ex EXCEPT ![e] = ex'[e]] /\ Moves(ex[e], ex'[e])
<1> DEFINE x == ex[e]
           m == TablesOf(x)
<1>1. /\ ex \in [Executors -> Executor] /\ x \in Executor /\ x.at \in Stages
      /\ calls \in [Stages -> Calls] /\ material \in Materials /\ x.material \in Materials
      /\ freezes \in [Materials -> {"absent", "frozen", "stale_conflict"}]
      /\ m \in Materials /\ x.result \in Results \cup {NoResult}
  BY DEF IInv, TypeOK, StateTypeOK, Executor, TablesOf
<1>2. ASSUME NEW y, ex' = [ex EXCEPT ![e] = y] PROVE ex'[e] = y /\ ex' = [ex EXCEPT ![e] = ex'[e]]
  BY <1>1, <1>2
<1>3. ASSUME Return(e) PROVE ex' = [ex EXCEPT ![e] = ex'[e]] /\ ex'[e].pc = "idle"
  BY <1>1, <1>3 DEF Return, IdleExecutor
<1>4. ASSUME NEW pc, GoTo(e, pc)
      PROVE  /\ ex' = [ex EXCEPT ![e] = ex'[e]] /\ ex'[e].pc = pc /\ ex'[e].at = x.at
             /\ ex'[e].seen = x.seen /\ ex'[e].material = x.material
  BY <1>1, <1>4 DEF GoTo, Executor
<1>5. ASSUME NEW r \in Results, Consume(e, r), x.pc = "confirmed_event" \/ (x.pc = "stage" /\ RowReads(x, m))
      PROVE  ex' = [ex EXCEPT ![e] = ex'[e]] /\ Moves(x, ex'[e])
  <2>1. ex' = [ex EXCEPT ![e] = ex'[e]] /\ ex'[e] = Consumed(x, r)
    BY <1>2, <1>5 DEF Consume
  <2>2. CASE ex'[e] = Advanced(x, r, x.material)
    <3>1. MovesOn(x, ex'[e])
      BY <1>1, <1>5, <2>2 DEF MovesOn
    <3> QED BY <2>1, <3>1 DEF Moves
  <2>3. CASE ex'[e] = [x EXCEPT !.pc = "checkpoint", !.result = r]
    <3>1. /\ ex'[e].pc = "checkpoint" /\ ex'[e].at = x.at
          /\ ex'[e].seen = x.seen /\ ex'[e].material = x.material
      BY <1>1, <2>3 DEF Executor
    <3>2. MovesWithin(x, ex'[e])
      BY <1>5, <3>1 DEF MovesWithin, StepsWithinStage
    <3> QED BY <2>1, <3>2 DEF Moves
  <2> QED BY <2>1, <2>2, <2>3 DEF Consumed
<1>6. CASE BeginExecution(e)
  BY <1>2, <1>6 DEF BeginExecution, RuntimeFree, Moves
<1>7. CASE ConfirmDerivedStage(e)
  <2> DEFINE row == DerivedCall(x.at, x.seen, m)
  <2>1. x.pc = "stage"
    BY <1>7 DEF ConfirmDerivedStage
  <2>2. row.state = "confirmed" /\ (x.at \in PoolStages => row.input.material = m)
    BY DEF DerivedCall, InputOf
  <2>3. row.result \in Results
    BY ProductionRunAssumption DEF DerivedCall, DerivedResult, Results
  <2>4. ASSUME Advance(e, row.result, m), calls'[x.at] = row
        PROVE  ex' = [ex EXCEPT ![e] = ex'[e]] /\ Moves(x, ex'[e])
    <3> HIDE DEF row
    <3>1. RowReads(x, m)
      BY <2>2, <2>4 DEF RowReads
    <3>2. MovesOn(x, ex'[e])
      BY <1>1, <1>2, <2>1, <2>3, <2>4, <3>1 DEF Advance, MovesOn
    <3> QED BY <1>2, <2>4, <3>2 DEF Advance, Moves
  <2>5. \/ Return(e)
        \/ Advance(e, row.result, m) /\ calls'[x.at] = row
    BY <1>1, <1>7 DEF ConfirmDerivedStage, TablesOf
  <2> HIDE DEF row
  <2> QED BY <1>3, <2>4, <2>5 DEF Moves
<1>8. CASE LookUpStage(e)
  <2>1. x.pc = "stage" /\ calls' = calls
    BY <1>8 DEF LookUpStage, dbVars
  <2>2. CASE ex' = [ex EXCEPT ![e] = [x EXCEPT !.pc = "dispatch", !.material = m]]
    <3>1. /\ ex' = [ex EXCEPT ![e] = ex'[e]] /\ ex'[e].pc = "dispatch" /\ ex'[e].at = x.at
          /\ ex'[e].seen = x.seen /\ ex'[e].material = m
      BY <1>1, <2>2 DEF Executor
    <3>2. MovesWithin(x, ex'[e])
      BY <2>1, <3>1 DEF MovesWithin, StepsWithinStage
    <3> QED BY <3>1, <3>2 DEF Moves
  <2>3. CASE MayReplay(x.at, x.seen, m) /\ Consume(e, calls[x.at].result)
    <3>1. calls[x.at].state = "confirmed" /\ calls[x.at].result \in Results
      BY <1>1, <2>3 DEF MayReplay, IInv, JournalOK
    <3>2. RowReads(x, m)
      BY <2>1, <2>3, <3>1, ProductionRunAssumption DEF RowReads, MayReplay, InputOf
    <3> QED BY <1>5, <2>1, <2>3, <3>1, <3>2
  <2> QED BY <1>3, <1>8, <2>2, <2>3 DEF LookUpStage, TablesOf, Moves
<1>9. CASE DispatchStage(e)
  <2> DEFINE i == InputOf(x.at, x.seen, x.material)
  <2>1. x.pc = "dispatch"
    BY <1>9 DEF DispatchStage
  <2>2. CASE GoTo(e, "send") /\ ~DispatchRefused(x.at, i)
    <3>1. calls'[x.at].state # "absent" /\ calls'[x.at].input = i
      BY <1>1, <1>9, <2>2 DEF DispatchStage, DispatchRefused
    <3>2. RowReads(x, x.material)
      BY <3>1 DEF RowReads, InputOf
    <3>3. MovesWithin(x, ex'[e])
      BY <1>4, <2>1, <2>2, <3>2 DEF MovesWithin, StepsWithinStage, DispatchRefused
    <3> QED BY <1>4, <2>2, <3>3 DEF Moves
  <2> QED BY <1>3, <1>9, <2>2 DEF DispatchStage, Moves
<1>10. CASE SendStage(e) \/ AppendQualifiedEvent(e) \/ SetAwaitingExternal(e)
            \/ AppendExternalEvent(e) \/ SetAwaitingRelease(e)
  <2>1. PICK pc : GoTo(e, pc) /\ <<x.pc, pc>> \in
          {<<"send", "await">>, <<"qualified_event", "external_status">>,
           <<"external_status", "external_event">>, <<"external_event", "stage">>,
           <<"release_status", "commit">>}
    BY <1>10 DEF SendStage, AppendQualifiedEvent, SetAwaitingExternal,
       AppendExternalEvent, SetAwaitingRelease
  <2>2. MovesWithin(x, ex'[e])
    BY <1>4, <2>1 DEF MovesWithin, StepsWithinStage
  <2> QED BY <1>4, <2>1, <2>2 DEF Moves
<1>11. CASE EndModelCall(e)
  <2>1. x.pc = "await"
    BY <1>11 DEF EndModelCall, ConfirmStage, MarkUnconfirmed
  <2>2. ASSUME NEW r, ex' = [ex EXCEPT ![e] = Confirmed(x, r)]
        PROVE  ex' = [ex EXCEPT ![e] = ex'[e]] /\ Moves(x, ex'[e])
    <3>1. /\ ex' = [ex EXCEPT ![e] = ex'[e]] /\ ex'[e].pc = "confirmed_event"
          /\ ex'[e].at = x.at /\ ex'[e].seen = x.seen /\ ex'[e].material = x.material
      BY <1>1, <2>2 DEF Executor, Confirmed
    <3>2. MovesWithin(x, ex'[e])
      BY <2>1, <3>1 DEF MovesWithin, StepsWithinStage
    <3> QED BY <3>1, <3>2 DEF Moves
  <2>3. CASE GoTo(e, "unconfirmed_event")
    <3>1. MovesWithin(x, ex'[e])
      BY <1>4, <2>1, <2>3 DEF MovesWithin, StepsWithinStage
    <3> QED BY <1>4, <2>3, <3>1 DEF Moves
  <2>4. \/ Return(e) \/ GoTo(e, "unconfirmed_event")
        \/ \E r : ex' = [ex EXCEPT ![e] = Confirmed(x, r)]
    BY <1>11 DEF EndModelCall, ConfirmStage, MarkUnconfirmed
  <2> QED BY <1>3, <2>2, <2>3, <2>4 DEF Moves
<1>12. CASE AppendConfirmedEvent(e)
  <2>1. x.pc = "confirmed_event" /\ Consume(e, x.result)
    BY <1>12 DEF AppendConfirmedEvent
  <2>2. x.result \in Results
    BY <1>1, <2>1 DEF IInv, ExecutorOK, ConfirmedAs, JournalOK
  <2> QED BY <1>5, <2>1, <2>2
<1>13. CASE RecordSceneCheckpoint(e)
  <2>1. x.pc = "checkpoint" /\ (Return(e) \/ Advance(e, x.result, x.material))
    BY <1>13 DEF RecordSceneCheckpoint
  <2>2. x.result \in Results
    BY <1>1, <2>1 DEF IInv, ExecutorOK, ConfirmedAs, JournalOK
  <2>3. CASE Advance(e, x.result, x.material)
    <3>1. MovesOn(x, ex'[e])
      BY <1>1, <1>2, <2>1, <2>2, <2>3 DEF Advance, MovesOn
    <3> QED BY <1>2, <2>3, <3>1 DEF Advance, Moves
  <2> QED BY <1>3, <2>1, <2>3 DEF Moves
<1>14. CASE PersistContextFreeze(e)
  <2>1. CASE GoTo(e, "stage") /\ ~cancelRequested /\ freezes' = [freezes EXCEPT ![x.material] = "frozen"]
    <3>1. freezes'[x.material] # "absent" /\ x.pc = "freeze"
      BY <1>1, <1>14, <2>1 DEF PersistContextFreeze
    <3>2. MovesWithin(x, ex'[e])
      BY <1>4, <2>1, <3>1 DEF MovesWithin, StepsWithinStage
    <3> QED BY <1>4, <2>1, <3>2 DEF Moves
  <2> QED BY <1>3, <1>14, <2>1 DEF PersistContextFreeze, Moves
<1>15. CASE \/ AppendUnconfirmedEvent(e) \/ RecordFailedGate(e)
            \/ CommitReleasedCandidate(e) \/ Crash(e)
  <2>1. Return(e)
    BY <1>15 DEF AppendUnconfirmedEvent, RecordFailedGate, CommitReleasedCandidate, Crash
  <2> QED BY <1>3, <2>1 DEF Moves
<1> QED BY <1>6, <1>7, <1>8, <1>9, <1>10, <1>11, <1>12, <1>13, <1>14, <1>15 DEF ExecutorStep

(***************************************************************************)
(* The budget bounds the requests                                          *)
(*                                                                         *)
(* Each request has a row of its own, written while there were fewer rows  *)
(* than the budget; rows of stages Core computes come on top.              *)
(***************************************************************************)

\* The stages the model was asked for.
SentStages(n) == {s \in Stages : n[s] = 1}

\* The part of the inductive invariant that WithinBudget needs.
BudgetInv ==
  /\ requests = Cardinality(SentStages(sent))
  /\ Budget # NoBudget =>
       requests <= Budget /\ \A e \in Executors : ex[e].pc = "send" => requests < Budget

\* Sets of stages are finite.
LEMMA StageSets ==
  ASSUME NEW S \in SUBSET Stages
  PROVE  IsFiniteSet(S) /\ Cardinality(S) \in Nat
BY ProductionRunAssumption, FS_Subset, FS_CardinalityType

\* Requests never outnumber the rows of the journal.
LEMMA RequestsHaveRows ==
  ASSUME IInv, SentInv
  PROVE  Cardinality(SentStages(sent)) <= CallCount /\ CallCount \in Nat
<1> DEFINE Rows == {s \in Stages : calls[s].state # "absent"}
<1>1. SentStages(sent) \in SUBSET Rows
  BY DEF SentStages, SentInv, CountsOK
<1>2. IsFiniteSet(Rows) /\ Cardinality(Rows) \in Nat
  BY StageSets
<1>3. CallCount = Cardinality(Rows)
  BY DEF CallCount
<1> HIDE DEF Rows
<1> QED BY <1>1, <1>2, <1>3, FS_Subset

\* A request adds one stage to those the model was asked for.
LEMMA RequestCounted ==
  ASSUME IInv, SentInv, NEW e \in Executors, SendStage(e)
  PROVE  /\ Cardinality(SentStages(sent')) = Cardinality(SentStages(sent)) + 1
         /\ requests' = requests + 1
<1>1. ex[e].at \in Stages /\ sent \in [Stages -> Nat] /\ ex[e].pc = "send"
  BY DEF IInv, TypeOK, StateTypeOK, Executor, SendStage
<1>2. sent[ex[e].at] = 0
  BY <1>1 DEF SentInv, SenderOK
<1>3. sent' = [sent EXCEPT ![ex[e].at] = 1]
  BY <1>1, <1>2 DEF SendStage
<1>4. SentStages(sent') = SentStages(sent) \cup {ex[e].at} /\ ex[e].at \notin SentStages(sent)
  BY <1>1, <1>2, <1>3 DEF SentStages
<1>5. IsFiniteSet(SentStages(sent))
  BY StageSets DEF SentStages
<1> QED BY <1>4, <1>5, FS_AddElement DEF SendStage

\* Only SendStage sends.
LEMMA OnlySendSends ==
  ASSUME NEW e \in Executors, BeginExecution(e) \/ ExecutorStep(e) \/ Crash(e), ~SendStage(e)
  PROVE  requests' = requests /\ sent' = sent
BY DEF BeginExecution, ExecutorStep, Crash, ConfirmDerivedStage, LookUpStage, DispatchStage,
   EndModelCall, ConfirmStage, MarkUnconfirmed, AppendConfirmedEvent,
   AppendUnconfirmedEvent, RecordSceneCheckpoint, PersistContextFreeze,
   AppendQualifiedEvent, SetAwaitingExternal, AppendExternalEvent,
   RecordFailedGate, SetAwaitingRelease, CommitReleasedCandidate, historyVars

\* An executor is about to send only after a dispatch within the budget.
LEMMA SenderDispatched ==
  ASSUME NEW x \in Executor, NEW y, Moves(x, y), y.pc = "send"
  PROVE  ~BudgetExhausted
<1>1. ~MovesOn(x, y)
  BY NoSender DEF MovesOn
<1>2. [IdleExecutor(material) EXCEPT !.pc = EntryPc(First)].pc # "send"
  BY DEF IdleExecutor, EntryPc
<1> QED BY <1>1, <1>2 DEF Moves, MovesWithin, StepsWithinStage

\* Every step keeps the invariant.
LEMMA BudgetStep == IInv /\ SentInv /\ BudgetInv /\ [Next]_vars => BudgetInv'
<1> SUFFICES ASSUME IInv, SentInv, BudgetInv, [Next]_vars PROVE BudgetInv'
  OBVIOUS
<1>1. ASSUME UNCHANGED <<ex, sent, requests>> PROVE BudgetInv'
  BY <1>1 DEF BudgetInv
<1>2. CASE StartProduction \/ MaterialChanges \/ SettlementElsewhere
  BY <1>1, <1>2 DEF StartProduction, MaterialChanges, SettlementElsewhere, historyVars
<1>3. ASSUME NEW k \in CancelKeys, CancelProduction(k) PROVE BudgetInv'
  BY <1>1, <1>3 DEF CancelProduction, historyVars
<1>4. ASSUME NEW e \in Executors, BeginExecution(e) \/ ExecutorStep(e) \/ Crash(e)
      PROVE  BudgetInv'
  <2>1. /\ ex' = [ex EXCEPT ![e] = ex'[e]] /\ Moves(ex[e], ex'[e])
        /\ \A f \in Executors \ {e} : ex[f].pc = "idle"
    BY <1>4, ExecutorMoves, OthersIdle
  <2>2. ex \in [Executors -> Executor] /\ requests \in Nat
    BY DEF IInv, TypeOK, StateTypeOK
  <2>3. \A f \in Executors \ {e} : ex'[f].pc # "send"
    BY <2>1, <2>2
  <2>4. CASE SendStage(e)
    <3>1. ex'[e].pc = "await" /\ ex[e].pc = "send"
      BY <2>2, <2>4 DEF SendStage, GoTo, Executor
    <3>2. requests' = Cardinality(SentStages(sent'))
      BY <2>4, RequestCounted DEF BudgetInv
    <3>3. Budget # NoBudget => requests' <= Budget
      BY <2>2, <2>4, <3>1, RequestCounted, ProductionRunAssumption DEF BudgetInv
    <3> QED BY <2>3, <3>1, <3>2, <3>3 DEF BudgetInv
  <2>5. CASE ~SendStage(e)
    <3>1. requests' = requests /\ sent' = sent
      BY <1>4, <2>5, OnlySendSends
    <3>2. ex'[e].pc = "send" => ~BudgetExhausted
      BY <2>1, <2>2, SenderDispatched
    <3>3. ~BudgetExhausted /\ Budget # NoBudget => requests < Budget
      BY <2>2, RequestsHaveRows, ProductionRunAssumption DEF BudgetInv, BudgetExhausted
    <3> QED BY <2>3, <3>1, <3>2, <3>3 DEF BudgetInv
  <2> QED BY <2>4, <2>5
<1>5. CASE UNCHANGED vars
  BY <1>1, <1>5 DEF vars, historyVars
<1> QED BY <1>2, <1>3, <1>4, <1>5 DEF Next

(***************************************************************************)
(* A cancelled run does not release                                        *)
(*                                                                         *)
(* Nobody executes when the run is cancelled, and an execution begun later *)
(* never gets past the freeze, because no route leads around it.           *)
(***************************************************************************)

\* An executor x that has not passed the freeze.
BeforeFreeze(x) ==
  \/ x.pc = "freeze" /\ x.at = FreezeBefore
  \/ x.at \in Unfrozen /\ x.pc \notin {"freeze", "release_status", "commit"}

\* The part of the inductive invariant that CancelledNeverReleases needs.
CancelInv ==
  cancelRequested =>
    releases = 0 /\ \A e \in Executors : ex[e].pc # "idle" => BeforeFreeze(ex[e])

\* From a stage before the freeze the route leads to the freeze at most.
LEMMA AdvancedBeforeFreeze ==
  ASSUME NEW x \in Executor, NEW r \in Results, NEW m, x.at \in Unfrozen
  PROVE  LET y == Advanced(x, r, m) IN y.pc = "idle" \/ BeforeFreeze(y)
<1> DEFINE y == Advanced(x, r, m)
           next == Route[x.at][r[1]]
<1>1. next \in Unfrozen \cup {FreezeBefore, "failed_gate", "error"}
  BY ResultFacts, FreezeAssumption
<1>2. CASE next = "error"
  BY <1>2 DEF Advanced, IdleExecutor
<1>3. CASE next = "failed_gate"
  <2>1. next \notin Stages
    BY <1>3, ProductionRunAssumption DEF Outcomes
  <2>2. y.pc = "fail_gate" /\ y.at = x.at
    BY <1>3, <2>1 DEF Advanced
  <2> QED BY <2>2 DEF BeforeFreeze
<1>4. CASE next \in Unfrozen \cup {FreezeBefore}
  <2>1. next \in Stages /\ next \notin {"release", "failed_gate", "error"}
    BY <1>4, FreezeAssumption, ProductionRunAssumption DEF Outcomes
  <2>2. y.pc = EntryPc(next) /\ y.at = next
    BY <2>1 DEF Advanced
  <2> QED BY <1>4, <2>2, FreezeAssumption DEF BeforeFreeze, EntryPc
<1> QED BY <1>1, <1>2, <1>3, <1>4

\* In a cancelled run no move passes the freeze.
LEMMA MovesBeforeFreeze ==
  ASSUME NEW x \in Executor, NEW y, Moves(x, y), cancelRequested,
         x.pc # "idle" => BeforeFreeze(x)
  PROVE  y.pc = "idle" \/ BeforeFreeze(y)
<1>1. CASE y = [IdleExecutor(material) EXCEPT !.pc = EntryPc(First)]
  <2>1. y.pc = EntryPc(First) /\ y.at = First
    BY <1>1 DEF IdleExecutor
  <2> QED BY <2>1, FreezeAssumption DEF BeforeFreeze, EntryPc
<1>2. CASE MovesWithin(x, y)
  BY <1>2 DEF MovesWithin, StepsWithinStage, BeforeFreeze
<1>3. CASE MovesOn(x, y)
  <2>1. x.pc \in {"stage", "confirmed_event", "checkpoint"}
    BY <1>3 DEF MovesOn
  <2>2. x.at \in Unfrozen
    BY <2>1 DEF BeforeFreeze
  <2> QED BY <1>3, <2>2, AdvancedBeforeFreeze DEF MovesOn
<1> QED BY <1>1, <1>2, <1>3 DEF Moves

\* No executor cancels the run, and only a commit releases.
LEMMA ExecutorRelease ==
  ASSUME NEW e \in Executors, BeginExecution(e) \/ ExecutorStep(e) \/ Crash(e)
  PROVE  /\ cancelRequested' = cancelRequested
         /\ UNCHANGED <<releases, candidate>> \/ CommitReleasedCandidate(e)
BY DEF BeginExecution, ExecutorStep, Crash, ConfirmDerivedStage, LookUpStage,
   DispatchStage, SendStage, EndModelCall, ConfirmStage, MarkUnconfirmed,
   AppendConfirmedEvent, AppendUnconfirmedEvent, RecordSceneCheckpoint,
   PersistContextFreeze, AppendQualifiedEvent, SetAwaitingExternal, AppendExternalEvent,
   RecordFailedGate, SetAwaitingRelease, CommitReleasedCandidate, dbVars

\* Every step keeps the invariant.
LEMMA CancelInvStep == IInv /\ CancelInv /\ [Next]_vars => CancelInv'
<1> SUFFICES ASSUME IInv, CancelInv, [Next]_vars, cancelRequested'
             PROVE  /\ releases' = 0
                    /\ \A e \in Executors : ex'[e].pc # "idle" => BeforeFreeze(ex'[e])
  BY DEF CancelInv, BeforeFreeze
<1>1. ex \in [Executors -> Executor]
  BY DEF IInv, TypeOK
<1>2. ASSUME NEW k \in CancelKeys, CancelProduction(k)
      PROVE  /\ releases' = 0
             /\ \A e \in Executors : ex'[e].pc # "idle" => BeforeFreeze(ex'[e])
  BY <1>2 DEF CancelProduction, RuntimeFree
<1>3. CASE UNCHANGED <<cancelRequested, releases, ex>>
  BY <1>3 DEF CancelInv
<1>4. ASSUME NEW e \in Executors, BeginExecution(e) \/ ExecutorStep(e) \/ Crash(e)
      PROVE  /\ releases' = 0
             /\ \A f \in Executors : ex'[f].pc # "idle" => BeforeFreeze(ex'[f])
  <2>1. cancelRequested
    BY <1>4, ExecutorRelease
  <2>2. ex' = [ex EXCEPT ![e] = ex'[e]] /\ Moves(ex[e], ex'[e])
    BY <1>4, ExecutorMoves
  <2>3. ex'[e].pc = "idle" \/ BeforeFreeze(ex'[e])
    BY <1>1, <2>1, <2>2, MovesBeforeFreeze DEF CancelInv
  <2>4. \A f \in Executors \ {e} : ex'[f] = ex[f]
    BY <1>1, <2>2
  <2>5. ~CommitReleasedCandidate(e)
    BY <2>1 DEF CancelInv, BeforeFreeze, CommitReleasedCandidate
  <2> QED BY <1>4, <2>1, <2>3, <2>4, <2>5, ExecutorRelease DEF CancelInv
<1>5. CASE StartProduction \/ MaterialChanges \/ SettlementElsewhere \/ UNCHANGED vars
  BY <1>3, <1>5 DEF StartProduction, MaterialChanges, SettlementElsewhere, vars, dbVars
<1> QED BY <1>2, <1>4, <1>5 DEF Next

(***************************************************************************)
(* A release uses the frozen context                                       *)
(*                                                                         *)
(* While an executor works the project's tables stand still, so every      *)
(* selection it consumed was made from the tables it then froze; inputs of *)
(* journal rows never change, and a freeze never disappears.               *)
(***************************************************************************)

\* Between the look-up of a stage and its result.
CallPcs == {"send", "await", "confirmed_event", "unconfirmed_event", "checkpoint"}

\* A selection among the results seen led to the freeze.
SelectionMade(seen) ==
  \E s \in PoolStages : seen[s] # NoResult /\ Route[s][seen[s][1]] = FreezeBefore

\* An executor x at work, beside journal c, freezes z and tables m.
ContextOK(c, z, m, x) ==
  /\ x.material = m
  /\ \A s \in PoolStages : x.seen[s] # NoResult => c[s].input.material = m
  /\ x.pc \in CallPcs /\ x.at \in PoolStages =>
       c[x.at].state # "absent" /\ c[x.at].input.material = m
  /\ SelectionMade(x.seen) => x.pc = "freeze" \/ z[m] # "absent"

\* The row of a pool stage names the tables it was built from.
PoolRowsRead(c) ==
  \A s \in PoolStages : c[s].state # "absent" => c[s].input.material \in Materials

\* The part of the inductive invariant that ReleaseUsesFrozenContext needs.
ContextInv ==
  /\ PoolRowsRead(calls)
  /\ \A e \in Executors : ex[e].pc # "idle" => ContextOK(calls, freezes, material, ex[e])
  /\ ReleaseUsesFrozenContext

\* The input of a row never changes, and the row never disappears.
LEMMA InputsStay ==
  ASSUME TypeOK, [Next]_vars, NEW s \in Stages, calls[s].state # "absent"
  PROVE  calls'[s].state # "absent" /\ calls'[s].input = calls[s].input
<1>1. calls \in [Stages -> Calls]
  BY DEF TypeOK, StateTypeOK
<1>2. calls'[s].state # "absent"
  BY RowsStay
<1>3. ASSUME NEW k \in CancelKeys, CancelProduction(k) PROVE calls'[s].input = calls[s].input
  BY <1>1, <1>3 DEF CancelProduction, Calls
<1>4. ASSUME NEW e \in Executors,
             ConfirmDerivedStage(e) \/ DispatchStage(e) \/ EndModelCall(e)
      PROVE  calls'[s].input = calls[s].input
  <2>1. CASE ConfirmDerivedStage(e)
    BY <1>1, <2>1 DEF ConfirmDerivedStage
  <2>2. CASE DispatchStage(e)
    BY <1>1, <2>2 DEF DispatchStage
  <2>3. CASE EndModelCall(e)
    <3> DEFINE old == calls[ex[e].at]
    <3>1. old \in Calls
      BY <1>1 DEF TypeOK, Executor
    <3>2. ASSUME NEW r, ConfirmStage(e, r)
          PROVE  calls' = calls \/ \E row : calls' = [calls EXCEPT ![ex[e].at] = row]
                                           /\ row.input = old.input
      <4> DEFINE row == [old EXCEPT !.state = "confirmed", !.result = r]
      <4>1. row.input = old.input
        BY <3>1 DEF Calls
      <4>2. calls' = calls \/ calls' = [calls EXCEPT ![ex[e].at] = row]
        BY <3>2 DEF ConfirmStage
      <4> QED BY <4>1, <4>2
    <3>3. ASSUME MarkUnconfirmed(e)
          PROVE  calls' = calls \/ \E row : calls' = [calls EXCEPT ![ex[e].at] = row]
                                           /\ row.input = old.input
      <4> DEFINE row == [old EXCEPT !.state = "unconfirmed"]
      <4>1. row.input = old.input
        BY <3>1 DEF Calls
      <4>2. calls' = calls \/ calls' = [calls EXCEPT ![ex[e].at] = row]
        BY <3>3 DEF MarkUnconfirmed
      <4> QED BY <4>1, <4>2
    <3> QED BY <1>1, <2>3, <3>2, <3>3 DEF EndModelCall
  <2> QED BY <1>4, <2>1, <2>2, <2>3
<1> QED BY <1>2, <1>3, <1>4, JournalWriters

\* A freeze never disappears.
LEMMA FreezesStay ==
  ASSUME TypeOK, [Next]_vars, NEW m \in Materials, freezes[m] # "absent"
  PROVE  freezes'[m] # "absent"
<1>1. freezes \in [Materials -> {"absent", "frozen", "stale_conflict"}]
  BY DEF TypeOK, StateTypeOK
<1>2. CASE SettlementElsewhere
  BY <1>1, <1>2 DEF SettlementElsewhere
<1>3. ASSUME NEW e \in Executors, PersistContextFreeze(e) PROVE freezes'[m] # "absent"
  BY <1>1, <1>3 DEF PersistContextFreeze
<1>4. ASSUME NEW e \in Executors, BeginExecution(e) \/ ExecutorStep(e) \/ Crash(e)
      PROVE  freezes' = freezes \/ PersistContextFreeze(e)
  BY <1>4 DEF BeginExecution, ExecutorStep, Crash, ConfirmDerivedStage, LookUpStage,
     DispatchStage, SendStage, EndModelCall, ConfirmStage, MarkUnconfirmed,
     AppendConfirmedEvent, AppendUnconfirmedEvent, RecordSceneCheckpoint,
     AppendQualifiedEvent, SetAwaitingExternal, AppendExternalEvent,
     RecordFailedGate, SetAwaitingRelease, CommitReleasedCandidate, dbVars
<1>5. CASE StartProduction \/ MaterialChanges \/ UNCHANGED vars
  BY <1>5 DEF StartProduction, MaterialChanges, vars, dbVars
<1>6. ASSUME NEW k \in CancelKeys, CancelProduction(k) PROVE freezes' = freezes
  BY <1>6 DEF CancelProduction
<1> QED BY <1>2, <1>3, <1>4, <1>5, <1>6 DEF Next

\* A released candidate keeps its frozen context.
LEMMA ReleaseContextStays ==
  ASSUME IInv, ContextInv, [Next]_vars, releases > 0
  PROVE  ReleaseUsesFrozenContext'
<1>1. candidate' = candidate
  BY ReleaseKept DEF IInv, TypeOK, StateTypeOK
<1> SUFFICES ASSUME NEW s \in PoolStages, candidate[s] # NoResult,
                    Route[s][candidate[s][1]] = FreezeBefore
             PROVE  freezes'[calls'[s].input.material] # "absent"
  BY <1>1 DEF ReleaseUsesFrozenContext
<1>3. s \in Stages /\ calls[s].state = "confirmed"
  BY ProductionRunAssumption DEF IInv, ReleaseOK, BackedBy
<1>4. calls'[s].input = calls[s].input
  BY <1>3, InputsStay DEF IInv
<1>5. freezes[calls[s].input.material] # "absent" /\ calls[s].input.material \in Materials
  BY <1>3 DEF ContextInv, PoolRowsRead, ReleaseUsesFrozenContext
<1> QED BY <1>4, <1>5, FreezesStay DEF IInv

\* New rows of pool stages name their tables.
LEMMA PoolRowsStep == IInv /\ PoolRowsRead(calls) /\ [Next]_vars => PoolRowsRead(calls')
<1> SUFFICES ASSUME IInv, PoolRowsRead(calls), [Next]_vars, NEW s \in PoolStages,
                    calls'[s].state # "absent", calls[s].state = "absent"
             PROVE  calls'[s].input.material \in Materials
  <2>1. \A s \in PoolStages : s \in Stages
    BY ProductionRunAssumption
  <2> QED BY <2>1, InputsStay DEF PoolRowsRead, IInv
<1>1. calls \in [Stages -> Calls] /\ s \in Stages /\ material \in Materials
  BY ProductionRunAssumption DEF IInv, TypeOK, StateTypeOK
<1>2. ASSUME NEW k \in CancelKeys, CancelProduction(k) PROVE FALSE
  BY <1>1, <1>2 DEF CancelProduction
<1>3. ASSUME NEW e \in Executors,
             ConfirmDerivedStage(e) \/ DispatchStage(e) \/ EndModelCall(e)
      PROVE  calls'[s].input.material \in Materials
  <2>1. ex[e].material \in Materials
    BY DEF IInv, TypeOK, Executor
  <2>2. CASE ConfirmDerivedStage(e)
    BY <1>1, <2>1, <2>2 DEF ConfirmDerivedStage, DerivedCall, InputOf
  <2>3. CASE DispatchStage(e)
    BY <1>1, <2>1, <2>3 DEF DispatchStage, InputOf
  <2>4. CASE EndModelCall(e)
    <3>1. calls'[s] = calls[s]
      BY <1>1, <2>4 DEF EndModelCall, ConfirmStage, MarkUnconfirmed
    <3> QED BY <3>1
  <2> QED BY <1>3, <2>2, <2>3, <2>4
<1> QED BY <1>2, <1>3, JournalWriters

\* Consuming the result of a stage built on the tables m keeps the context.
LEMMA AdvancedContext ==
  ASSUME NEW c, NEW z, NEW m, NEW x \in Executor, NEW r \in Results,
         \A s \in PoolStages : x.seen[s] # NoResult => c[s].input.material = m,
         SelectionMade(x.seen) => z[m] # "absent",
         x.at \in PoolStages => c[x.at].input.material = m,
         Advanced(x, r, m).pc # "idle"
  PROVE  ContextOK(c, z, m, Advanced(x, r, m))
<1> DEFINE y == Advanced(x, r, m)
           next == Route[x.at][r[1]]
           seen2 == [x.seen EXCEPT ![x.at] = r]
<1>1. x.at \in Stages /\ x.seen \in Seen /\ PoolStages \subseteq Stages
  BY ProductionRunAssumption DEF Executor
<1>2. /\ y.material = m /\ y.seen = seen2
      /\ y.pc = IF next = "release" THEN "release_status"
                ELSE IF next = "failed_gate" THEN "fail_gate" ELSE EntryPc(next)
  BY DEF Advanced, IdleExecutor
<1>3. \A s \in PoolStages : seen2[s] # NoResult => c[s].input.material = m
  BY <1>1 DEF Seen
<1>4. y.pc \notin CallPcs
  BY <1>2 DEF EntryPc, CallPcs
<1>5. ASSUME SelectionMade(seen2) PROVE y.pc = "freeze" \/ z[m] # "absent"
  <2>1. PICK s \in PoolStages : seen2[s] # NoResult /\ Route[s][seen2[s][1]] = FreezeBefore
    BY <1>5 DEF SelectionMade
  <2>2. CASE s = x.at
    <3>1. next = FreezeBefore
      BY <1>1, <2>1, <2>2 DEF Seen
    <3>2. next \notin {"release", "failed_gate"}
      BY <3>1, ProductionRunAssumption DEF Outcomes
    <3> QED BY <1>2, <3>1, <3>2 DEF EntryPc
  <2>3. CASE s # x.at
    BY <1>1, <2>1, <2>3 DEF SelectionMade, Seen
  <2> QED BY <2>2, <2>3
<1> QED BY <1>2, <1>3, <1>4, <1>5 DEF ContextOK

\* A move of the executor keeps its context in order.
LEMMA MovesContext ==
  ASSUME IInv, ContextInv, [Next]_vars, NEW e \in Executors, NEW y,
         Moves(ex[e], y), y.pc # "idle", material' = material
  PROVE  ContextOK(calls', freezes', material', y)
<1> DEFINE x == ex[e]
<1>1. /\ x \in Executor /\ x.at \in Stages /\ x.seen \in Seen /\ PoolStages \subseteq Stages
      /\ TypeOK /\ material \in Materials
  BY ProductionRunAssumption DEF IInv, TypeOK, StateTypeOK, Executor
<1>2. CASE y = [IdleExecutor(material) EXCEPT !.pc = EntryPc(First)]
  <2>1. y.material = material /\ y.seen = NothingSeen /\ y.pc = EntryPc(First)
    BY <1>2 DEF IdleExecutor
  <2>2. y.pc \notin CallPcs
    BY <2>1 DEF EntryPc, CallPcs
  <2>3. ~SelectionMade(y.seen) /\ \A s \in PoolStages : y.seen[s] = NoResult
    BY <1>1, <2>1 DEF SelectionMade, NothingSeen
  <2> QED BY <2>1, <2>2, <2>3 DEF ContextOK
<1>3. ASSUME x.pc # "idle"
      PROVE  /\ x.material = material
             /\ \A s \in PoolStages : x.seen[s] # NoResult => calls'[s].input.material = material
             /\ x.pc \in CallPcs /\ x.at \in PoolStages =>
                  calls'[x.at].state # "absent" /\ calls'[x.at].input.material = material
             /\ SelectionMade(x.seen) => x.pc = "freeze" \/ freezes'[material] # "absent"
  <2>1. ContextOK(calls, freezes, material, x)
    BY <1>3 DEF ContextInv
  <2>2. \A s \in PoolStages : x.seen[s] # NoResult => calls'[s].input = calls[s].input
    BY <1>1, InputsStay DEF IInv, ExecutorOK, BackedBy
  <2>3. calls[x.at].state # "absent" =>
          calls'[x.at].state # "absent" /\ calls'[x.at].input = calls[x.at].input
    BY <1>1, InputsStay
  <2> QED BY <1>1, <2>1, <2>2, <2>3, FreezesStay DEF ContextOK
<1>4. CASE MovesWithin(x, y)
  <2>1. x.pc # "idle" /\ y.at = x.at /\ y.seen = x.seen
    BY <1>4 DEF MovesWithin, StepsWithinStage
  <2>2. y.material = material
    BY <1>3, <1>4, <2>1 DEF MovesWithin, TablesOf
  <2>3. ASSUME y.pc \in CallPcs, y.at \in PoolStages
        PROVE  calls'[y.at].state # "absent" /\ calls'[y.at].input.material = material
    <3>1. \/ x.pc \in CallPcs
          \/ x.pc = "dispatch" /\ RowReads(x, x.material)
          \/ x.pc = "stage" /\ RowReads(x, TablesOf(x))
      BY <1>4, <2>3 DEF MovesWithin, StepsWithinStage, CallPcs
    <3> QED BY <1>3, <2>1, <2>3, <3>1 DEF RowReads, TablesOf
  <2>4. SelectionMade(y.seen) => freezes'[material] # "absent"
    BY <1>3, <1>4, <2>1 DEF MovesWithin
  <2> QED BY <1>3, <2>1, <2>2, <2>3, <2>4 DEF ContextOK
<1>5. CASE MovesOn(x, y)
  <2>1. PICK r \in Results, m \in Materials :
          /\ y = Advanced(x, r, m)
          /\ \/ x.pc = "stage" /\ m = TablesOf(x) /\ RowReads(x, m)
             \/ x.pc = "stage" /\ m = x.material /\ RowReads(x, TablesOf(x))
             \/ x.pc \in {"confirmed_event", "checkpoint"} /\ m = x.material
    BY <1>5 DEF MovesOn
  <2>2. x.pc \in {"stage", "confirmed_event", "checkpoint"} /\ m = material
    BY <1>3, <2>1 DEF TablesOf
  <2>3. x.at \in PoolStages => calls'[x.at].input.material = material
    BY <1>3, <2>1, <2>2 DEF RowReads, TablesOf, CallPcs
  <2>4. SelectionMade(x.seen) => freezes'[material] # "absent"
    BY <1>3, <2>2
  <2> QED BY <1>1, <1>3, <2>1, <2>2, <2>3, <2>4, AdvancedContext
<1> QED BY <1>2, <1>4, <1>5 DEF Moves

\* Only the project changes its tables, and only while nobody executes.
LEMMA ExecutorKeepsTables ==
  ASSUME NEW e \in Executors, BeginExecution(e) \/ ExecutorStep(e) \/ Crash(e)
  PROVE  material' = material
BY DEF BeginExecution, ExecutorStep, Crash, ConfirmDerivedStage, LookUpStage,
   DispatchStage, SendStage, EndModelCall, ConfirmStage, MarkUnconfirmed,
   AppendConfirmedEvent, AppendUnconfirmedEvent, RecordSceneCheckpoint,
   PersistContextFreeze, AppendQualifiedEvent, SetAwaitingExternal, AppendExternalEvent,
   RecordFailedGate, SetAwaitingRelease, CommitReleasedCandidate, envVars

\* A commit releases what was written on the frozen context.
LEMMA CommitContext ==
  ASSUME IInv, ContextInv, NEW e \in Executors, CommitReleasedCandidate(e),
         candidate' = ex[e].seen
  PROVE  ReleaseUsesFrozenContext'
<1>1. ContextOK(calls, freezes, material, ex[e]) /\ ex[e].pc = "commit"
  BY DEF CommitReleasedCandidate, ContextInv
<1>2. calls' = calls /\ freezes' = freezes
  BY DEF CommitReleasedCandidate
<1> QED BY <1>1, <1>2 DEF ReleaseUsesFrozenContext, ContextOK, SelectionMade

\* Every step keeps the invariant.
LEMMA ContextStep == IInv /\ SentInv /\ ContextInv /\ [Next]_vars => ContextInv'
<1> SUFFICES ASSUME IInv, SentInv, ContextInv, [Next]_vars PROVE ContextInv'
  OBVIOUS
<1>1. PoolRowsRead(calls)'
  BY PoolRowsStep DEF ContextInv, PoolRowsRead
<1>2. ASSUME UNCHANGED <<releases, candidate>> PROVE ReleaseUsesFrozenContext'
  <2>1. CASE releases > 0
    BY <2>1, ReleaseContextStays
  <2>2. CASE ~(releases > 0)
    BY <1>2, <2>2 DEF ReleaseUsesFrozenContext
  <2> QED BY <2>1, <2>2
<1>3. ASSUME UNCHANGED <<ex, releases, candidate>>, RuntimeFree PROVE ContextInv'
  BY <1>1, <1>2, <1>3 DEF ContextInv, RuntimeFree
<1>4. CASE StartProduction \/ MaterialChanges \/ SettlementElsewhere
  BY <1>3, <1>4 DEF StartProduction, MaterialChanges, SettlementElsewhere, dbVars
<1>5. ASSUME NEW k \in CancelKeys, CancelProduction(k) PROVE ContextInv'
  BY <1>3, <1>5 DEF CancelProduction
<1>6. ASSUME NEW e \in Executors, BeginExecution(e) \/ ExecutorStep(e) \/ Crash(e)
      PROVE  ContextInv'
  <2>1. /\ ex' = [ex EXCEPT ![e] = ex'[e]] /\ Moves(ex[e], ex'[e])
        /\ \A f \in Executors \ {e} : ex[f].pc = "idle"
        /\ ex \in [Executors -> Executor] /\ material' = material
    BY <1>6, ExecutorMoves, OthersIdle, ExecutorKeepsTables DEF IInv, TypeOK
  <2>2. \A f \in Executors \ {e} : ex'[f].pc = "idle"
    BY <2>1
  <2>3. ex'[e].pc # "idle" => ContextOK(calls', freezes', material', ex'[e])
    BY <2>1, MovesContext
  <2>4. ReleaseUsesFrozenContext'
    <3>1. CASE CommitReleasedCandidate(e) /\ candidate' = ex[e].seen
      BY <3>1, CommitContext
    <3>2. CASE UNCHANGED <<releases, candidate>>
      BY <1>2, <3>2
    <3> QED BY <1>6, <3>1, <3>2, ExecutorRelease DEF CommitReleasedCandidate
  <2>5. \A f \in Executors : ex'[f].pc # "idle" => ContextOK(calls', freezes', material', ex'[f])
    BY <2>2, <2>3
  <2> QED BY <1>1, <2>4, <2>5 DEF ContextInv
<1>7. CASE UNCHANGED vars
  BY <1>7 DEF vars, dbVars, envVars, ContextInv, ReleaseUsesFrozenContext
<1> QED BY <1>4, <1>5, <1>6, <1>7 DEF Next

(***************************************************************************)
(* A DRAFT passes its gates                                                *)
(*                                                                         *)
(* A route whose stages are numbered in the order it leads through them    *)
(* comes to no stage twice, so every result that was consumed is the       *)
(* reason why its stage was left, and every stage was led to.  Over the    *)
(* DRAFT route this tells which gates have accepted.                       *)
(***************************************************************************)

\* The route leads to stages of higher number only.
Ordered(rank) ==
  /\ rank \in [Stages -> Nat]
  /\ \A s \in Stages, v \in Verdicts :
       Route[s][v] \in Stages => rank[s] < rank[Route[s][v]]

\* The results in seen lead to stage s.
LedTo(seen, s) == s = First \/ \E t \in Stages : seen[t] # NoResult /\ Route[t][seen[t][1]] = s

\* An executor x at work was led to its stage and to those behind it.
PathOK(rank, x) ==
  /\ LedTo(x.seen, x.at)
  /\ \A s \in Stages : x.seen[s] # NoResult =>
       /\ LedTo(x.seen, s)
       /\ rank[s] < rank[x.at] \/ x.pc \in {"release_status", "commit", "fail_gate"}

\* Executors and the release keep to the path.
PathInv(rank) ==
  /\ \A e \in Executors : ex[e].pc # "idle" => PathOK(rank, ex[e])
  /\ releases > 0 => \A s \in Stages : candidate[s] # NoResult => LedTo(candidate, s)

\* What the model said is an answer it can give for the stage.
AnswersInv ==
  \A s \in Stages \ (AlwaysDerived \cup PoolStages) :
    calls[s].state = "confirmed" => calls[s].result[1] \in Answers[s]

\* Consuming a result leads on.
LEMMA AdvancedPath ==
  ASSUME NEW rank, Ordered(rank), NEW x \in Executor, NEW r \in Results, NEW m,
         x.pc \notin {"release_status", "commit", "fail_gate"}, PathOK(rank, x)
  PROVE  LET y == Advanced(x, r, m) IN y.pc = "idle" \/ PathOK(rank, y)
<1> DEFINE y == Advanced(x, r, m)
           next == Route[x.at][r[1]]
           seen == [x.seen EXCEPT ![x.at] = r]
<1>1. x.at \in Stages /\ x.seen \in Seen /\ r # NoResult /\ r[1] \in Verdicts
  BY ResultFacts DEF Executor
<1>2. rank \in [Stages -> Nat] /\ next \in Stages \cup Outcomes
  BY <1>1, ProductionRunAssumption DEF Ordered
<1>3. x.seen[x.at] = NoResult
  BY <1>1, <1>2 DEF PathOK
<1>4. seen[x.at] = r /\ \A s \in Stages \ {x.at} : seen[s] = x.seen[s]
  BY <1>1 DEF Seen
<1>5. ASSUME NEW s, LedTo(x.seen, s) PROVE LedTo(seen, s)
  <2> SUFFICES ASSUME NEW t \in Stages, x.seen[t] # NoResult, Route[t][x.seen[t][1]] = s
               PROVE  LedTo(seen, s)
    BY <1>5 DEF LedTo
  <2>1. t # x.at /\ seen[t] = x.seen[t]
    BY <1>3, <1>4
  <2> QED BY <2>1 DEF LedTo
<1>6. LedTo(seen, next)
  BY <1>1, <1>4 DEF LedTo
<1>7. \A s \in Stages : seen[s] # NoResult => LedTo(seen, s) /\ (s = x.at \/ rank[s] < rank[x.at])
  <2> SUFFICES ASSUME NEW s \in Stages, seen[s] # NoResult
               PROVE  LedTo(seen, s) /\ (s = x.at \/ rank[s] < rank[x.at])
    OBVIOUS
  <2>1. CASE s = x.at
    BY <1>5, <2>1 DEF PathOK
  <2>2. CASE s # x.at
    BY <1>4, <1>5, <2>2 DEF PathOK
  <2> QED BY <2>1, <2>2
<1>8. CASE next = "error"
  BY <1>8 DEF Advanced, IdleExecutor
<1>9. CASE next \in {"release", "failed_gate"}
  <2>1. next \notin Stages
    BY <1>9, ProductionRunAssumption DEF Outcomes
  <2>2. y.pc \in {"release_status", "fail_gate"} /\ y.at = x.at /\ y.seen = seen
    BY <1>9, <2>1 DEF Advanced
  <2>3. LedTo(seen, x.at)
    BY <1>5 DEF PathOK
  <2> QED BY <1>7, <2>2, <2>3 DEF PathOK
<1>10. CASE next \in Stages
  <2>1. next \notin {"release", "failed_gate", "error"}
    BY <1>10, ProductionRunAssumption DEF Outcomes
  <2>2. y.at = next /\ y.seen = seen
    BY <1>10, <2>1 DEF Advanced
  <2>3. rank[x.at] < rank[next] /\ rank[x.at] \in Nat /\ rank[next] \in Nat
    BY <1>1, <1>2, <1>10 DEF Ordered
  <2>4. ASSUME NEW s \in Stages, seen[s] # NoResult PROVE LedTo(seen, s) /\ rank[s] < rank[next]
    <3>1. rank[s] \in Nat
      BY <1>2
    <3> QED BY <1>7, <2>3, <2>4, <3>1
  <2> HIDE DEF next, seen
  <2> QED BY <1>6, <2>2, <2>4 DEF PathOK
<1> QED BY <1>2, <1>8, <1>9, <1>10 DEF Outcomes

\* Every move keeps to the path.
LEMMA MovesPath ==
  ASSUME NEW rank, Ordered(rank), NEW x \in Executor, NEW y, Moves(x, y),
         x.pc # "idle" => PathOK(rank, x)
  PROVE  y.pc = "idle" \/ PathOK(rank, y)
<1>1. CASE y = [IdleExecutor(material) EXCEPT !.pc = EntryPc(First)]
  <2>1. y.at = First /\ y.seen = NothingSeen
    BY <1>1 DEF IdleExecutor
  <2> QED BY <2>1 DEF PathOK, LedTo, NothingSeen
<1>2. CASE MovesWithin(x, y)
  BY <1>2 DEF MovesWithin, StepsWithinStage, PathOK
<1>3. CASE MovesOn(x, y)
  <2>1. x.pc \in {"stage", "confirmed_event", "checkpoint"}
    BY <1>3 DEF MovesOn
  <2> QED BY <1>3, <2>1, AdvancedPath DEF MovesOn
<1> QED BY <1>1, <1>2, <1>3 DEF Moves

\* Every step keeps the executors and the release on the path.
LEMMA PathStep ==
  ASSUME NEW rank, Ordered(rank)
  PROVE  IInv /\ PathInv(rank) /\ [Next]_vars => PathInv(rank)'
<1> SUFFICES ASSUME IInv, PathInv(rank), [Next]_vars PROVE PathInv(rank)'
  OBVIOUS
<1>1. ex \in [Executors -> Executor]
  BY DEF IInv, TypeOK
<1>2. ASSUME UNCHANGED <<ex, releases, candidate>> PROVE PathInv(rank)'
  BY <1>2 DEF PathInv
<1>3. ASSUME NEW k \in CancelKeys, CancelProduction(k) PROVE PathInv(rank)'
  BY <1>2, <1>3 DEF CancelProduction
<1>4. CASE StartProduction \/ MaterialChanges \/ SettlementElsewhere \/ UNCHANGED vars
  BY <1>2, <1>4 DEF StartProduction, MaterialChanges, SettlementElsewhere, vars, dbVars
<1>5. ASSUME NEW e \in Executors, BeginExecution(e) \/ ExecutorStep(e) \/ Crash(e)
      PROVE  PathInv(rank)'
  <2>1. ex' = [ex EXCEPT ![e] = ex'[e]] /\ Moves(ex[e], ex'[e])
    BY <1>5, ExecutorMoves
  <2>2. ex'[e].pc = "idle" \/ PathOK(rank, ex'[e])
    BY <1>1, <2>1, MovesPath DEF PathInv
  <2>3. \A f \in Executors \ {e} : ex'[f] = ex[f]
    BY <1>1, <2>1
  <2>4. \A f \in Executors : ex'[f].pc # "idle" => PathOK(rank, ex'[f])
    BY <2>2, <2>3 DEF PathInv
  <2>5. UNCHANGED <<releases, candidate>>
          \/ (ex[e].pc = "commit" /\ candidate' = ex[e].seen)
    BY <1>5, ExecutorRelease DEF CommitReleasedCandidate
  <2>6. releases' > 0 => \A s \in Stages : candidate'[s] # NoResult => LedTo(candidate', s)
    BY <2>5 DEF PathInv, PathOK
  <2> QED BY <2>4, <2>6 DEF PathInv
<1> QED BY <1>3, <1>4, <1>5 DEF Next

\* Only confirm_stage and confirm_derived_stage write results.
LEMMA AnswersStep == IInv /\ AnswersInv /\ [Next]_vars => AnswersInv'
<1> SUFFICES ASSUME IInv, AnswersInv, [Next]_vars,
                    NEW s \in Stages \ (AlwaysDerived \cup PoolStages),
                    calls'[s].state = "confirmed"
             PROVE  calls'[s].result[1] \in Answers[s]
  BY DEF AnswersInv
<1>1. calls \in [Stages -> Calls] /\ (calls[s].state = "confirmed" => calls'[s] = calls[s])
  BY JournalGrows DEF IInv, TypeOK, StateTypeOK, Grows
<1>2. CASE calls'[s] = calls[s]
  BY <1>2 DEF AnswersInv
<1>3. ASSUME NEW k \in CancelKeys, CancelProduction(k) PROVE calls'[s] = calls[s]
  BY <1>1, <1>3 DEF CancelProduction
<1>4. ASSUME NEW e \in Executors, ConfirmDerivedStage(e) PROVE calls'[s] = calls[s]
  BY <1>1, <1>4 DEF ConfirmDerivedStage, IsDerived
<1>5. ASSUME NEW e \in Executors, DispatchStage(e) PROVE calls'[s] = calls[s]
  BY <1>1, <1>5 DEF DispatchStage
<1>6. ASSUME NEW e \in Executors, EndModelCall(e), calls'[s] # calls[s]
      PROVE  calls'[s].result[1] \in Answers[s]
  <2>1. CASE MarkUnconfirmed(e)
    BY <1>1, <1>6, <2>1 DEF MarkUnconfirmed, Calls
  <2>2. ASSUME NEW r \in AnswersOf(ex[e].at), ConfirmStage(e, r)
        PROVE  calls'[s].result[1] \in Answers[s]
    <3>1. s = ex[e].at /\ calls'[s].result = r
      BY <1>1, <1>6, <2>2 DEF ConfirmStage, Calls
    <3> QED BY <2>2, <3>1 DEF AnswersOf
  <2> QED BY <1>6, <2>1, <2>2 DEF EndModelCall
<1> QED BY <1>2, <1>3, <1>4, <1>5, <1>6, JournalWriters

\* A run of the DRAFT route.
Draft ==
  /\ Stages = DraftStages /\ First = "context_query_plan" /\ Route = DraftRoute
  /\ Verdicts = Verdict /\ Answers = DraftAnswers
  /\ AlwaysDerived = DraftDerived /\ PoolStages = DraftPools

\* The order in which it leads through its stages.
DraftRank ==
  [context_query_plan |-> 1, context_greenlight |-> 2, corpus_greenlight |-> 3,
   preference_greenlight |-> 4, character_simulation |-> 5, scene_resolution |-> 6,
   surface_scene_0001 |-> 7, surface_realization |-> 8, chapter_length_gate |-> 9,
   surface_hard_rule_audit |-> 10, surface_hard_rule_audit_contract_repair |-> 11,
   reader_engagement |-> 12, continuity_rule_audit |-> 13, candidate_self_audit |-> 14,
   settlement_tracking_projection |-> 15, settlement_tracking_projection_schema_repair |-> 16,
   settlement_tracking_projection_semantic_repair |-> 17, settlement_tracking_audit |-> 18,
   settlement_tracking_projection_audit_repair |-> 19, settlement_tracking_audit_repair |-> 20,
   settlement_tracking_projection_audit_repair_2 |-> 21, settlement_tracking_audit_repair_2 |-> 22,
   settlement_tracking_projection_audit_repair_3 |-> 23, settlement_tracking_audit_repair_3 |-> 24,
   independent_semantic_gate |-> 25]

\* Two routes put together.
LEMMA Merged ==
  ASSUME NEW f, NEW g
  PROVE  /\ DOMAIN Merge(f, g) = DOMAIN f \cup DOMAIN g
         /\ \A s \in DOMAIN f : Merge(f, g)[s] = f[s]
         /\ \A s \in DOMAIN g \ DOMAIN f : Merge(f, g)[s] = g[s]
BY DEF Merge

\* Where the kinds of stages lead.
LEMMA Leads ==
  ASSUME NEW v \in Verdict, NEW next, NEW repair
  PROVE  /\ Plain(next)[v] = IF v = "malformed" THEN "error" ELSE next
         /\ Gate(next)[v] = IF v = "malformed" THEN "error" ELSE IF v = "reject" THEN "failed_gate" ELSE next
         /\ Projection(next, repair)[v] = IF v = "malformed" THEN repair ELSE next
         /\ Audit(next, repair)[v] = IF v = "malformed" THEN "error" ELSE IF v = "reject" THEN repair ELSE next
<1>1. Plain(next)[v] = IF v = "malformed" THEN "error" ELSE next
  BY DEF Plain
<1>2. Gate(next)[v] = IF v = "malformed" THEN "error" ELSE IF v = "reject" THEN "failed_gate" ELSE next
  BY DEF Gate
<1>3. Projection(next, repair)[v] = IF v = "malformed" THEN repair ELSE next
  BY DEF Projection
<1>4. Audit(next, repair)[v] = IF v = "malformed" THEN "error" ELSE IF v = "reject" THEN repair ELSE next
  BY DEF Audit
<1> QED BY <1>1, <1>2, <1>3, <1>4

\* The stages of the parts of the DRAFT route.
LEMMA DraftParts ==
  /\ DOMAIN SelectionRoute = {"context_query_plan", "context_greenlight", "corpus_greenlight",
                              "preference_greenlight"}
  /\ DOMAIN SurfaceRoute = {"character_simulation", "scene_resolution", "surface_scene_0001",
                            "surface_realization", "chapter_length_gate"}
  /\ DOMAIN ProseGateRoute = {"surface_hard_rule_audit", "surface_hard_rule_audit_contract_repair",
                              "reader_engagement", "continuity_rule_audit", "candidate_self_audit"}
  /\ DOMAIN ProjectionRoute = {"settlement_tracking_projection",
                               "settlement_tracking_projection_schema_repair",
                               "settlement_tracking_projection_semantic_repair"}
  /\ DOMAIN AuditRoute = {"settlement_tracking_audit", "settlement_tracking_projection_audit_repair",
                          "settlement_tracking_audit_repair",
                          "settlement_tracking_projection_audit_repair_2",
                          "settlement_tracking_audit_repair_2",
                          "settlement_tracking_projection_audit_repair_3",
                          "settlement_tracking_audit_repair_3"}
  /\ DOMAIN ReleaseRoute = {"independent_semantic_gate"}
<1>1. DOMAIN SelectionRoute = {"context_query_plan", "context_greenlight", "corpus_greenlight",
                               "preference_greenlight"}
  BY DEF SelectionRoute
<1>2. DOMAIN SurfaceRoute = {"character_simulation", "scene_resolution", "surface_scene_0001",
                             "surface_realization", "chapter_length_gate"}
  BY DEF SurfaceRoute
<1>3. DOMAIN ProseGateRoute = {"surface_hard_rule_audit", "surface_hard_rule_audit_contract_repair",
                               "reader_engagement", "continuity_rule_audit", "candidate_self_audit"}
  BY DEF ProseGateRoute
<1>4. DOMAIN ProjectionRoute = {"settlement_tracking_projection",
                                "settlement_tracking_projection_schema_repair",
                                "settlement_tracking_projection_semantic_repair"}
  BY DEF ProjectionRoute
<1>5. DOMAIN AuditRoute = {"settlement_tracking_audit", "settlement_tracking_projection_audit_repair",
                           "settlement_tracking_audit_repair",
                           "settlement_tracking_projection_audit_repair_2",
                           "settlement_tracking_audit_repair_2",
                           "settlement_tracking_projection_audit_repair_3",
                           "settlement_tracking_audit_repair_3"}
  BY DEF AuditRoute
<1>6. DOMAIN ReleaseRoute = {"independent_semantic_gate"}
  BY DEF ReleaseRoute
<1> QED BY <1>1, <1>2, <1>3, <1>4, <1>5, <1>6

\* The DRAFT route is its parts.
LEMMA DraftRouteParts ==
  /\ DraftStages = DOMAIN SelectionRoute \cup DOMAIN SurfaceRoute \cup DOMAIN ProseGateRoute
                   \cup DOMAIN ProjectionRoute \cup DOMAIN AuditRoute \cup DOMAIN ReleaseRoute
  /\ \A s \in DOMAIN SelectionRoute : DraftRoute[s] = SelectionRoute[s]
  /\ \A s \in DOMAIN SurfaceRoute : DraftRoute[s] = SurfaceRoute[s]
  /\ \A s \in DOMAIN ProseGateRoute : DraftRoute[s] = ProseGateRoute[s]
  /\ \A s \in DOMAIN ProjectionRoute : DraftRoute[s] = ProjectionRoute[s]
  /\ \A s \in DOMAIN AuditRoute : DraftRoute[s] = AuditRoute[s]
  /\ \A s \in DOMAIN ReleaseRoute : DraftRoute[s] = ReleaseRoute[s]
<1> DEFINE r5 == Merge(AuditRoute, ReleaseRoute)
           r4 == Merge(ProjectionRoute, r5)
           r3 == Merge(ProseGateRoute, r4)
           r2 == Merge(SurfaceRoute, r3)
<1>1. DraftRoute = Merge(SelectionRoute, r2) /\ DraftStages = DOMAIN DraftRoute
  BY DEF DraftRoute, DraftStages
<1>2. DOMAIN r5 = DOMAIN AuditRoute \cup DOMAIN ReleaseRoute
  BY Merged
<1>3. DOMAIN r4 = DOMAIN ProjectionRoute \cup DOMAIN r5
  BY Merged
<1>4. DOMAIN r3 = DOMAIN ProseGateRoute \cup DOMAIN r4
  BY Merged
<1>5. DOMAIN r2 = DOMAIN SurfaceRoute \cup DOMAIN r3
  BY Merged
<1>6. DraftStages = DOMAIN SelectionRoute \cup DOMAIN r2
  BY <1>1, Merged
<1>7. /\ \A s \in DOMAIN ReleaseRoute : s \notin DOMAIN AuditRoute
      /\ \A s \in DOMAIN AuditRoute \cup DOMAIN ReleaseRoute : s \notin DOMAIN ProjectionRoute
      /\ \A s \in DOMAIN ProjectionRoute \cup DOMAIN AuditRoute \cup DOMAIN ReleaseRoute :
           s \notin DOMAIN ProseGateRoute
      /\ \A s \in DOMAIN ProseGateRoute \cup DOMAIN ProjectionRoute \cup DOMAIN AuditRoute
                \cup DOMAIN ReleaseRoute : s \notin DOMAIN SurfaceRoute
      /\ \A s \in DOMAIN SurfaceRoute \cup DOMAIN ProseGateRoute \cup DOMAIN ProjectionRoute
                \cup DOMAIN AuditRoute \cup DOMAIN ReleaseRoute : s \notin DOMAIN SelectionRoute
  BY DraftParts
<1>8. /\ \A s \in DOMAIN AuditRoute : r5[s] = AuditRoute[s]
      /\ \A s \in DOMAIN ReleaseRoute \ DOMAIN AuditRoute : r5[s] = ReleaseRoute[s]
  BY Merged
<1>9. /\ \A s \in DOMAIN ProjectionRoute : r4[s] = ProjectionRoute[s]
      /\ \A s \in DOMAIN r5 \ DOMAIN ProjectionRoute : r4[s] = r5[s]
  BY Merged
<1>10. /\ \A s \in DOMAIN ProseGateRoute : r3[s] = ProseGateRoute[s]
       /\ \A s \in DOMAIN r4 \ DOMAIN ProseGateRoute : r3[s] = r4[s]
  BY Merged
<1>11. /\ \A s \in DOMAIN SurfaceRoute : r2[s] = SurfaceRoute[s]
       /\ \A s \in DOMAIN r3 \ DOMAIN SurfaceRoute : r2[s] = r3[s]
  BY Merged
<1> HIDE DEF r2, r3, r4, r5
<1>12. /\ \A s \in DOMAIN SelectionRoute : DraftRoute[s] = SelectionRoute[s]
       /\ \A s \in DOMAIN r2 \ DOMAIN SelectionRoute : DraftRoute[s] = r2[s]
  <2>1. /\ \A s \in DOMAIN SelectionRoute : Merge(SelectionRoute, r2)[s] = SelectionRoute[s]
        /\ \A s \in DOMAIN r2 \ DOMAIN SelectionRoute : Merge(SelectionRoute, r2)[s] = r2[s]
    BY Merged
  <2> QED BY <1>1, <2>1
<1> QED BY <1>2, <1>3, <1>4, <1>5, <1>6, <1>7, <1>8, <1>9, <1>10, <1>11, <1>12

\* Where the selections lead.
LEMMA SelectionLeads ==
  /\ DraftRoute["context_query_plan"] = Plain("context_greenlight")
  /\ DraftRoute["context_greenlight"] = Plain("corpus_greenlight")
  /\ DraftRoute["corpus_greenlight"] = Plain("preference_greenlight")
  /\ DraftRoute["preference_greenlight"] = Plain("character_simulation")
BY DraftParts, DraftRouteParts DEF SelectionRoute

\* Where the stages that write the chapter lead.
LEMMA SurfaceLeads ==
  /\ DraftRoute["character_simulation"] = Plain("scene_resolution")
  /\ DraftRoute["scene_resolution"] = Plain("surface_scene_0001")
  /\ DraftRoute["surface_scene_0001"] = Plain("surface_realization")
  /\ \A v \in Verdict :
       /\ DraftRoute["surface_realization"][v] =
            IF v = "short" THEN "chapter_length_gate" ELSE "surface_hard_rule_audit"
       /\ DraftRoute["chapter_length_gate"][v] = "failed_gate"
<1>1. /\ DraftRoute["surface_realization"] =
           [v \in Verdict |-> IF v = "short" THEN "chapter_length_gate"
                              ELSE "surface_hard_rule_audit"]
      /\ DraftRoute["chapter_length_gate"] = [v \in Verdict |-> "failed_gate"]
  BY DraftParts, DraftRouteParts DEF SurfaceRoute
<1>2. \A v \in Verdict :
        /\ DraftRoute["surface_realization"][v] =
             IF v = "short" THEN "chapter_length_gate" ELSE "surface_hard_rule_audit"
        /\ DraftRoute["chapter_length_gate"][v] = "failed_gate"
  BY <1>1
<1> QED BY <1>2, DraftParts, DraftRouteParts DEF SurfaceRoute

\* Where the gates on the prose lead.
LEMMA ProseLeads ==
  /\ \A v \in Verdict :
       /\ DraftRoute["surface_hard_rule_audit"][v] =
            IF v = "inexact" THEN "surface_hard_rule_audit_contract_repair"
            ELSE Gate("reader_engagement")[v]
       /\ DraftRoute["surface_hard_rule_audit_contract_repair"][v] =
            IF v = "inexact" THEN "error" ELSE Gate("reader_engagement")[v]
  /\ DraftRoute["reader_engagement"] = Gate("continuity_rule_audit")
  /\ DraftRoute["continuity_rule_audit"] = Gate("candidate_self_audit")
  /\ DraftRoute["candidate_self_audit"] = Gate("settlement_tracking_projection")
<1>1. /\ \A v \in Verdict :
           /\ DraftRoute["surface_hard_rule_audit"][v] =
                IF v = "inexact" THEN "surface_hard_rule_audit_contract_repair"
                ELSE Gate("reader_engagement")[v]
           /\ DraftRoute["surface_hard_rule_audit_contract_repair"][v] =
                IF v = "inexact" THEN "error" ELSE Gate("reader_engagement")[v]
  BY DraftParts, DraftRouteParts DEF ProseGateRoute, Gate
<1> QED BY <1>1, DraftParts, DraftRouteParts DEF ProseGateRoute

\* Where the tracking projections lead.
LEMMA ProjectionLeads ==
  /\ DraftRoute["settlement_tracking_projection"] =
       Projection("settlement_tracking_audit", "settlement_tracking_projection_schema_repair")
  /\ DraftRoute["settlement_tracking_projection_schema_repair"] =
       Projection("settlement_tracking_audit", "settlement_tracking_projection_semantic_repair")
  /\ DraftRoute["settlement_tracking_projection_semantic_repair"] =
       Plain("settlement_tracking_audit")
BY DraftParts, DraftRouteParts DEF ProjectionRoute

\* Where the tracking audits and the independent review lead.
LEMMA AuditLeads ==
  /\ DraftRoute["settlement_tracking_audit"] =
       Audit("independent_semantic_gate", "settlement_tracking_projection_audit_repair")
  /\ DraftRoute["settlement_tracking_projection_audit_repair"] =
       Plain("settlement_tracking_audit_repair")
  /\ DraftRoute["settlement_tracking_audit_repair"] =
       Audit("independent_semantic_gate", "settlement_tracking_projection_audit_repair_2")
  /\ DraftRoute["settlement_tracking_projection_audit_repair_2"] =
       Plain("settlement_tracking_audit_repair_2")
  /\ DraftRoute["settlement_tracking_audit_repair_2"] =
       Audit("independent_semantic_gate", "settlement_tracking_projection_audit_repair_3")
  /\ DraftRoute["settlement_tracking_projection_audit_repair_3"] =
       Plain("settlement_tracking_audit_repair_3")
  /\ DraftRoute["settlement_tracking_audit_repair_3"] = Gate("independent_semantic_gate")
  /\ DraftRoute["independent_semantic_gate"] = Gate("release")
BY DraftParts, DraftRouteParts DEF AuditRoute, ReleaseRoute

\* The DRAFT route leads through its stages in order.
LEMMA DraftOrdered ==
  ASSUME Draft
  PROVE  Ordered(DraftRank)
<1>1. DraftRank \in [Stages -> Nat]
  BY DraftParts, DraftRouteParts DEF DraftRank, Draft
<1>2. \A s \in Stages, v \in Verdict : Route[s][v] \in Stages => DraftRank[s] < DraftRank[Route[s][v]]
  <2> SUFFICES ASSUME NEW s \in DraftStages, NEW v \in Verdict,
                      DraftRoute[s][v] \notin {"release", "failed_gate", "error"}
               PROVE  DraftRank[s] < DraftRank[DraftRoute[s][v]]
    BY ProductionRunAssumption DEF Draft, Outcomes
  <2>1. CASE s \in DOMAIN SelectionRoute
    BY <2>1, DraftParts, SelectionLeads, Leads DEF DraftRank
  <2>2. CASE s \in DOMAIN SurfaceRoute
    BY <2>2, DraftParts, SurfaceLeads, Leads DEF DraftRank
  <2>3. CASE s \in DOMAIN ProseGateRoute
    BY <2>3, DraftParts, ProseLeads, Leads DEF DraftRank
  <2>4. CASE s \in DOMAIN ProjectionRoute
    BY <2>4, DraftParts, ProjectionLeads, Leads DEF DraftRank
  <2>5. CASE s \in DOMAIN AuditRoute \cup DOMAIN ReleaseRoute
    BY <2>5, DraftParts, AuditLeads, Leads DEF DraftRank
  <2> QED BY <2>1, <2>2, <2>3, <2>4, <2>5, DraftRouteParts
<1> QED BY <1>1, <1>2 DEF Ordered, Draft

\* An audit is repeated only after a repair, and a repair follows a rejection.
LEMMA AuditsLedTo ==
  ASSUME NEW t \in DraftStages, NEW v \in Verdict
  PROVE  /\ DraftRoute[t][v] = "settlement_tracking_projection_audit_repair"
              => t = "settlement_tracking_audit" /\ v = "reject"
         /\ DraftRoute[t][v] = "settlement_tracking_audit_repair"
              => t = "settlement_tracking_projection_audit_repair"
         /\ DraftRoute[t][v] = "settlement_tracking_projection_audit_repair_2"
              => t = "settlement_tracking_audit_repair" /\ v = "reject"
         /\ DraftRoute[t][v] = "settlement_tracking_audit_repair_2"
              => t = "settlement_tracking_projection_audit_repair_2"
         /\ DraftRoute[t][v] = "settlement_tracking_projection_audit_repair_3"
              => t = "settlement_tracking_audit_repair_2" /\ v = "reject"
         /\ DraftRoute[t][v] = "settlement_tracking_audit_repair_3"
              => t = "settlement_tracking_projection_audit_repair_3"
<1>1. CASE t \in DOMAIN SelectionRoute
  BY <1>1, DraftParts, SelectionLeads, Leads
<1>2. CASE t \in DOMAIN SurfaceRoute
  BY <1>2, DraftParts, SurfaceLeads, Leads
<1>3. CASE t \in DOMAIN ProseGateRoute
  BY <1>3, DraftParts, ProseLeads, Leads
<1>4. CASE t \in DOMAIN ProjectionRoute
  BY <1>4, DraftParts, ProjectionLeads, Leads
<1>5. CASE t \in DOMAIN AuditRoute \cup DOMAIN ReleaseRoute
  BY <1>5, DraftParts, AuditLeads, Leads
<1> QED BY <1>1, <1>2, <1>3, <1>4, <1>5, DraftRouteParts

\* A gate or an audit accepts or rejects.
LEMMA GatesAnswer ==
  ASSUME NEW g \in DraftGates \cup DraftAudits
  PROVE  g \in DraftStages \ (DraftDerived \cup DraftPools) /\ DraftAnswers[g] = {"accept", "reject"}
<1>1. g \in DraftStages \ (DraftDerived \cup DraftPools)
  BY DraftParts, DraftRouteParts DEF DraftGates, DraftAudits, DraftDerived, DraftPools
<1>2. g \notin {"surface_scene_0001", "surface_hard_rule_audit",
                "surface_hard_rule_audit_contract_repair", "settlement_tracking_projection",
                "settlement_tracking_projection_schema_repair",
                "settlement_tracking_projection_semantic_repair"}
  BY DEF DraftGates, DraftAudits
<1>3. DraftAnswers[g] = {"accept", "reject"}
  BY <1>1, <1>2, Zenon DEF DraftAnswers
<1> QED BY <1>1, <1>3

\* What the Surface audit and its repair can answer.
LEMMA SurfaceAuditAnswers ==
  /\ {"surface_hard_rule_audit", "surface_hard_rule_audit_contract_repair"}
       \subseteq DraftStages \ (DraftDerived \cup DraftPools)
  /\ DraftAnswers["surface_hard_rule_audit"] = {"accept", "reject", "inexact", "malformed"}
  /\ DraftAnswers["surface_hard_rule_audit_contract_repair"] = {"accept", "reject", "inexact"}
<1>1. {"surface_hard_rule_audit", "surface_hard_rule_audit_contract_repair"}
        \subseteq DraftStages \ (DraftDerived \cup DraftPools)
  BY DraftParts, DraftRouteParts DEF DraftDerived, DraftPools
<1>2. ASSUME NEW s \in DraftStages, s = "surface_hard_rule_audit"
      PROVE  DraftAnswers[s] = {"accept", "reject", "inexact", "malformed"}
  <2>1. s # "surface_scene_0001"
    BY <1>2
  <2>2. s # "surface_hard_rule_audit_contract_repair"
    BY <1>2
  <2>3. s \notin {"settlement_tracking_projection", "settlement_tracking_projection_schema_repair",
                 "settlement_tracking_projection_semantic_repair"} \cup (DraftGates \cup DraftAudits)
    BY <1>2 DEF DraftGates, DraftAudits
  <2> QED BY <1>2, <2>1, <2>2, <2>3, Zenon DEF DraftAnswers
<1>3. ASSUME NEW s \in DraftStages, s = "surface_hard_rule_audit_contract_repair"
      PROVE  DraftAnswers[s] = {"accept", "reject", "inexact"}
  <2>1. s # "surface_scene_0001"
    BY <1>3
  <2>2. s # "surface_hard_rule_audit"
    BY <1>3
  <2>3. s \notin {"settlement_tracking_projection", "settlement_tracking_projection_schema_repair",
                 "settlement_tracking_projection_semantic_repair"} \cup (DraftGates \cup DraftAudits)
    BY <1>3 DEF DraftGates, DraftAudits
  <2> QED BY <1>3, <2>1, <2>2, <2>3, Zenon DEF DraftAnswers
<1> QED BY <1>1, <1>2, <1>3

\* The repair of the Surface audit follows only its inexact answer.
LEMMA SurfaceRepairLedTo ==
  ASSUME NEW t \in DraftStages, NEW v \in Verdict,
         DraftRoute[t][v] = "surface_hard_rule_audit_contract_repair"
  PROVE  t = "surface_hard_rule_audit" /\ v = "inexact"
<1>1. CASE t \in DOMAIN SelectionRoute
  BY <1>1, DraftParts, SelectionLeads, Leads
<1>2. CASE t \in DOMAIN SurfaceRoute
  BY <1>2, DraftParts, SurfaceLeads, Leads
<1>3. CASE t \in DOMAIN ProseGateRoute
  BY <1>3, DraftParts, ProseLeads, Leads
<1>4. CASE t \in DOMAIN ProjectionRoute
  BY <1>4, DraftParts, ProjectionLeads, Leads
<1>5. CASE t \in DOMAIN AuditRoute \cup DOMAIN ReleaseRoute
  BY <1>5, DraftParts, AuditLeads, Leads
<1> QED BY <1>1, <1>2, <1>3, <1>4, <1>5, DraftRouteParts

\* A result on the way to the release leads to another one, or to the release.
LEMMA OnTheWay ==
  ASSUME Draft, NEW seen \in Seen, FollowsRoute(seen, {"release"}), NEW s \in DraftStages,
         seen[s] # NoResult
  PROVE  /\ seen[s][1] \in Verdict
         /\ DraftRoute[s][seen[s][1]] \notin {"error", "failed_gate"}
         /\ DraftRoute[s][seen[s][1]] # "release" => seen[DraftRoute[s][seen[s][1]]] # NoResult
<1>1. seen[s] \in Results /\ s \in Stages
  BY DEF Seen, Draft
<1> QED BY <1>1, ResultFacts, ProductionRunAssumption DEF Draft, FollowsRoute, Outcomes

\* The Surface audit accepts, or the repair of its inexact answer does.
SurfaceAudited(seen) ==
  LET audit == seen["surface_hard_rule_audit"]
      repair == seen["surface_hard_rule_audit_contract_repair"]
  IN  /\ audit # NoResult
      /\ \/ audit[1] = "accept" /\ repair = NoResult
         \/ audit[1] = "inexact" /\ repair # NoResult /\ repair[1] = "accept"

\* The DRAFT route leads to the release only through its gates.
LEMMA DraftGatesPassed ==
  ASSUME Draft, NEW seen \in Seen, FollowsRoute(seen, {"release"}),
         \A s \in Stages : seen[s] # NoResult => LedTo(seen, s),
         \A g \in DraftGates \cup DraftAudits : seen[g] # NoResult => seen[g][1] \in {"accept", "reject"},
         seen["surface_hard_rule_audit"] # NoResult => seen["surface_hard_rule_audit"][1] # "short",
         seen["surface_hard_rule_audit_contract_repair"] # NoResult
           => seen["surface_hard_rule_audit_contract_repair"][1] # "short"
  PROVE  /\ SurfaceAudited(seen)
         /\ \A g \in DraftGates : seen[g] # NoResult /\ seen[g][1] = "accept"
         /\ seen["chapter_length_gate"] = NoResult
         /\ \E a \in DraftAudits :
              /\ seen[a] # NoResult /\ seen[a][1] = "accept"
              /\ \A b \in DraftAudits \ {a} : seen[b] # NoResult => seen[b][1] = "reject"
<1> DEFINE Has(s) == seen[s] # NoResult
           Says(s, v) == seen[s] # NoResult /\ seen[s][1] = v
           Way(s) == /\ seen[s][1] \in Verdict
                     /\ DraftRoute[s][seen[s][1]] \notin {"error", "failed_gate"}
                     /\ DraftRoute[s][seen[s][1]] # "release" => Has(DraftRoute[s][seen[s][1]])
<1>1. \A s \in DraftStages : Has(s) => Way(s)
  BY OnTheWay
<1>2. Stages = DraftStages /\ First = "context_query_plan" /\ Route = DraftRoute
  BY DEF Draft
<1>stages. DraftStages = DOMAIN DraftRank
  BY DraftParts, DraftRouteParts DEF DraftRank
<1>plain. ASSUME NEW s \in DraftStages, NEW next, DraftRoute[s] = Plain(next), next # "release", Has(s)
          PROVE  Has(next)
  BY <1>1, <1>plain, Leads
<1>gate. ASSUME NEW s \in DraftStages, NEW next, DraftRoute[s] = Gate(next), Has(s)
         PROVE  ~Says(s, "reject") /\ (next # "release" => Has(next))
  BY <1>1, <1>gate, Leads
<1>3. Has("preference_greenlight") /\ Has("character_simulation")
  <2>1. Has("context_query_plan")
    BY <1>2, DraftParts, DraftRouteParts, ProductionRunAssumption DEF FollowsRoute
  <2>2. Has("context_greenlight")
    BY <1>plain, <2>1, <1>stages, SelectionLeads DEF DraftRank
  <2>3. Has("corpus_greenlight")
    BY <1>plain, <2>2, <1>stages, SelectionLeads DEF DraftRank
  <2>4. Has("preference_greenlight")
    BY <1>plain, <2>3, <1>stages, SelectionLeads DEF DraftRank
  <2> QED BY <1>plain, <2>4, <1>stages, SelectionLeads DEF DraftRank
<1>4. ~Has("chapter_length_gate")
  BY <1>1, DraftParts, DraftRouteParts, SurfaceLeads
<1>5. Has("surface_hard_rule_audit")
  <2>1. Has("scene_resolution")
    BY <1>plain, <1>3, <1>stages, SurfaceLeads DEF DraftRank
  <2>2. Has("surface_scene_0001")
    BY <1>plain, <2>1, <1>stages, SurfaceLeads DEF DraftRank
  <2>3. Has("surface_realization")
    BY <1>plain, <2>2, <1>stages, SurfaceLeads DEF DraftRank
  <2> QED BY <1>1, <1>4, <2>3, DraftParts, DraftRouteParts, SurfaceLeads
<1>6. Has("reader_engagement")
  <2>1. Has("surface_hard_rule_audit_contract_repair") => Has("reader_engagement")
    BY <1>1, DraftParts, DraftRouteParts, ProseLeads, Leads
  <2> QED BY <1>1, <1>5, <2>1, DraftParts, DraftRouteParts, ProseLeads, Leads
<1>7. Says("reader_engagement", "accept") /\ Has("continuity_rule_audit")
  BY <1>gate, <1>6, <1>stages, ProseLeads DEF DraftRank, DraftGates
<1>8. Says("continuity_rule_audit", "accept") /\ Has("candidate_self_audit")
  BY <1>gate, <1>7, <1>stages, ProseLeads DEF DraftRank, DraftGates
<1>9. Says("candidate_self_audit", "accept") /\ Has("settlement_tracking_projection")
  BY <1>gate, <1>8, <1>stages, ProseLeads DEF DraftRank, DraftGates
<1>10. Has("settlement_tracking_audit")
  <2>1. Has("settlement_tracking_projection_semantic_repair") => Has("settlement_tracking_audit")
    BY <1>plain, <1>stages, ProjectionLeads DEF DraftRank
  <2>2. Has("settlement_tracking_projection_schema_repair") => Has("settlement_tracking_audit")
    BY <1>1, <2>1, DraftParts, DraftRouteParts, ProjectionLeads, Leads
  <2> QED BY <1>1, <1>9, <2>2, DraftParts, DraftRouteParts, ProjectionLeads, Leads
<1>11. ASSUME NEW s \in DraftStages, Has(s), s # "context_query_plan"
       PROVE  \E t \in DraftStages : Has(t) /\ seen[t][1] \in Verdict /\ DraftRoute[t][seen[t][1]] = s
  BY <1>1, <1>2, <1>11 DEF LedTo
<1>12. /\ Has("settlement_tracking_audit_repair") => Says("settlement_tracking_audit", "reject")
       /\ Has("settlement_tracking_audit_repair_2") => Says("settlement_tracking_audit_repair", "reject")
       /\ Has("settlement_tracking_audit_repair_3") => Says("settlement_tracking_audit_repair_2", "reject")
  <2> DEFINE p1 == "settlement_tracking_projection_audit_repair"
             p2 == "settlement_tracking_projection_audit_repair_2"
             p3 == "settlement_tracking_projection_audit_repair_3"
  <2>1. /\ {p1, p2, p3} \subseteq DraftStages /\ DraftAudits \subseteq DraftStages
        /\ "context_query_plan" \notin DraftAudits \cup {p1, p2, p3}
    BY DraftParts, DraftRouteParts DEF DraftAudits
  <2>2. /\ Has("settlement_tracking_audit_repair") => Has(p1)
        /\ Has("settlement_tracking_audit_repair_2") => Has(p2)
        /\ Has("settlement_tracking_audit_repair_3") => Has(p3)
    BY <1>11, <2>1, AuditsLedTo DEF DraftAudits
  <2>3. /\ Has(p1) => Says("settlement_tracking_audit", "reject")
        /\ Has(p2) => Says("settlement_tracking_audit_repair", "reject")
        /\ Has(p3) => Says("settlement_tracking_audit_repair_2", "reject")
    BY <1>11, <2>1, AuditsLedTo
  <2> QED BY <2>2, <2>3
<1>13. /\ Says("settlement_tracking_audit", "reject") => Has("settlement_tracking_audit_repair")
       /\ Says("settlement_tracking_audit_repair", "reject") => Has("settlement_tracking_audit_repair_2")
       /\ Says("settlement_tracking_audit_repair_2", "reject") => Has("settlement_tracking_audit_repair_3")
       /\ ~Says("settlement_tracking_audit_repair_3", "reject")
  <2>1. /\ DraftRoute["settlement_tracking_audit"]["reject"] = "settlement_tracking_projection_audit_repair"
        /\ DraftRoute["settlement_tracking_audit_repair"]["reject"] =
             "settlement_tracking_projection_audit_repair_2"
        /\ DraftRoute["settlement_tracking_audit_repair_2"]["reject"] =
             "settlement_tracking_projection_audit_repair_3"
        /\ DraftRoute["settlement_tracking_audit_repair_3"]["reject"] = "failed_gate"
    BY AuditLeads, Leads DEF Verdict
  <2>2. /\ Says("settlement_tracking_audit", "reject")
             => Has("settlement_tracking_projection_audit_repair")
        /\ Says("settlement_tracking_audit_repair", "reject")
             => Has("settlement_tracking_projection_audit_repair_2")
        /\ Says("settlement_tracking_audit_repair_2", "reject")
             => Has("settlement_tracking_projection_audit_repair_3")
        /\ ~Says("settlement_tracking_audit_repair_3", "reject")
    BY <1>1, <2>1, DraftParts, DraftRouteParts
  <2>3. Has("settlement_tracking_projection_audit_repair") => Has("settlement_tracking_audit_repair")
    BY <1>plain, <1>stages, AuditLeads DEF DraftRank
  <2>4. Has("settlement_tracking_projection_audit_repair_2") => Has("settlement_tracking_audit_repair_2")
    BY <1>plain, <1>stages, AuditLeads DEF DraftRank
  <2>5. Has("settlement_tracking_projection_audit_repair_3") => Has("settlement_tracking_audit_repair_3")
    BY <1>plain, <1>stages, AuditLeads DEF DraftRank
  <2> QED BY <2>2, <2>3, <2>4, <2>5
<1>14. \A a \in DraftAudits : Has(a) => Says(a, "accept") \/ Says(a, "reject")
  OBVIOUS
<1>15. PICK a \in DraftAudits :
         Says(a, "accept") /\ \A b \in DraftAudits \ {a} : Has(b) => Says(b, "reject")
  <2> DEFINE a1 == "settlement_tracking_audit"
             a2 == "settlement_tracking_audit_repair"
             a3 == "settlement_tracking_audit_repair_2"
             a4 == "settlement_tracking_audit_repair_3"
  <2>1. DraftAudits = {a1, a2, a3, a4}
    BY DEF DraftAudits
  <2>2. \A s : Says(s, "accept") => ~Says(s, "reject")
    OBVIOUS
  <2> HIDE DEF Has, Says, a1, a2, a3, a4
  <2>3. CASE Says(a1, "accept")
    BY <1>12, <2>1, <2>2, <2>3 DEF Has, Says, a1, a2, a3, a4
  <2>4. CASE Says(a2, "accept")
    BY <1>12, <2>1, <2>2, <2>4 DEF Has, Says, a1, a2, a3, a4
  <2>5. CASE Says(a3, "accept")
    BY <1>12, <2>1, <2>2, <2>5 DEF Has, Says, a1, a2, a3, a4
  <2>6. CASE Says(a4, "accept")
    BY <1>12, <2>1, <2>2, <2>6 DEF Has, Says, a1, a2, a3, a4
  <2> QED BY <1>10, <1>13, <1>14, <2>1, <2>3, <2>4, <2>5, <2>6 DEF a1, a2, a3, a4
<1>16. Says("independent_semantic_gate", "accept")
  <2>1. a \in DraftAudits => Has("independent_semantic_gate")
    BY <1>1, <1>15, DraftParts, DraftRouteParts, AuditLeads, Leads DEF DraftAudits
  <2> QED BY <1>gate, <2>1, <1>15, <1>stages, AuditLeads DEF DraftRank, DraftGates
<1>17. SurfaceAudited(seen)
  <2> DEFINE audit == "surface_hard_rule_audit"
             repair == "surface_hard_rule_audit_contract_repair"
  <2>1. audit \in DraftStages /\ repair \in DraftStages /\ repair # "context_query_plan"
    BY SurfaceAuditAnswers
  <2>2. Has(repair) => Says(audit, "inexact")
    BY <1>11, <2>1, SurfaceRepairLedTo
  <2>3. /\ DraftRoute[audit]["inexact"] = repair
        /\ DraftRoute[audit]["reject"] = "failed_gate" /\ DraftRoute[audit]["malformed"] = "error"
        /\ DraftRoute[repair]["inexact"] = "error"
        /\ DraftRoute[repair]["reject"] = "failed_gate" /\ DraftRoute[repair]["malformed"] = "error"
    BY ProseLeads DEF Gate, Verdict
  <2>4. Says(audit, "accept") \/ (Says(audit, "inexact") /\ Has(repair))
    <3>1. Has(audit) /\ Way(audit)
      BY <1>1, <1>5, <2>1
    <3>2. seen[audit][1] \in {"accept", "inexact"}
      BY <3>1, <2>3 DEF Verdict
    <3>3. seen[audit][1] = "inexact" => Has(repair)
      BY <3>1, <2>3
    <3> QED BY <3>1, <3>2, <3>3
  <2>5. Has(repair) => Says(repair, "accept")
    BY <1>1, <2>1, <2>3 DEF Verdict
  <2> QED BY <2>2, <2>4, <2>5 DEF SurfaceAudited
<1> QED BY <1>4, <1>7, <1>8, <1>9, <1>15, <1>16, <1>17 DEF DraftGates

(***************************************************************************)
(* Theorems                                                                *)
(***************************************************************************)

\* The inductive invariant holds of every behaviour.
THEOREM Invariance == Spec => []IInv
BY InitIInv, NextIInv, PTL DEF Spec

\* Every variable keeps its type, for every pipeline and number of executors.
THEOREM TypeCorrect == Spec => []TypeOK
<1>1. IInv => TypeOK
  BY DEF IInv
<1> QED BY <1>1, Invariance, PTL

\* Every row of the journal is built on exactly confirmed results
\* (execute_model_stage, confirm_stage, cancel_production).
THEOREM InputsConfirmed == Spec => []ConsumedOnlyConfirmed
<1>1. IInv => ConsumedOnlyConfirmed
  BY DEF IInv, JournalOK, ConsumedOnlyConfirmed, Backed, BackedBy
<1> QED BY <1>1, Invariance, PTL

\* Whatever the pipeline, however many executors race and whenever they
\* crash, a released candidate followed its route through every gate to the
\* release and is backed by the journal (author_run_execute,
\* commit_released_candidate).
THEOREM ReleasesBacked == Spec => []ReleaseBackedByGates
<1>1. IInv => ReleaseBackedByGates
  BY DEF IInv, ReleaseOK, ReleaseBackedByGates, Backed, BackedBy
<1> QED BY <1>1, Invariance, PTL

\* Confirmed rows never change (confirm_stage, cancel_production).
THEOREM JournalImmutable == Spec => ConfirmedImmutable
<1>1. IInv /\ [Next]_vars
        => [\A s \in Stages : calls[s].state = "confirmed" => calls'[s] = calls[s]]_vars
  BY JournalGrows DEF Grows, IInv
<1> QED BY <1>1, Invariance, PTL DEF Spec, ConfirmedImmutable

\* The journal of a cancelled run is closed (dispatch_stage, confirm_stage,
\* confirm_derived_stage, mark_stage_unconfirmed).
THEOREM CancelledJournalClosed == Spec => CancelClosesJournal
<1>1. IInv /\ [Next]_vars => [cancelRequested => calls' = calls]_vars
  BY CancelledJournal
<1> QED BY <1>1, Invariance, PTL DEF Spec, CancelClosesJournal

\* A released run is not cancelled and keeps its candidate
\* (cancel_production, commit_released_candidate).
THEOREM ReleaseStays == Spec => ReleaseIsFinal
<1>1. IInv /\ [Next]_vars
        => [releases > 0 => candidate' = candidate /\ cancelRequested' = cancelRequested
                            /\ abandonedBy' = abandonedBy]_vars
  BY ReleaseKept DEF IInv, TypeOK, StateTypeOK
<1> QED BY <1>1, Invariance, PTL DEF Spec, ReleaseIsFinal

\* However many requests contend, however often one crashes, loses its answer
\* or is repeated, no stage of the run is sent to the model twice
\* (execute_model_stage, dispatch_stage, GlobalDatabase::open).
THEOREM StagesSentOnce == Spec => []SentAtMostOnce
<1>1. Init => SentInv
  BY DEF Init, SentInv, SenderOK, CountsOK, IdleExecutor
<1>2. SentInv => SentAtMostOnce
  BY DEF SentInv, CountsOK, SentAtMostOnce
<1> QED BY <1>1, <1>2, Invariance, SentStep, PTL DEF Spec

\* The model call budget of the run bounds the requests sent, whatever crashes
\* and repeats (dispatch_stage counts the rows of the journal).
THEOREM BudgetKept == Spec => []WithinBudget
<1>1. Init => SentInv
  BY DEF Init, SentInv, SenderOK, CountsOK, IdleExecutor
<1>2. Init => BudgetInv
  <2>1. ASSUME Init PROVE SentStages(sent) = {}
    BY <2>1 DEF Init, SentStages
  <2>2. Init => requests = 0 /\ \A e \in Executors : ex[e].pc # "send"
    BY DEF Init, IdleExecutor
  <2>3. Cardinality({}) = 0 /\ (Budget # NoBudget => Budget \in Nat)
    BY FS_EmptySet, ProductionRunAssumption
  <2> QED BY <2>1, <2>2, <2>3 DEF BudgetInv
<1>3. BudgetInv => WithinBudget
  BY DEF BudgetInv, WithinBudget
<1> QED BY <1>1, <1>2, <1>3, Invariance, SentStep, BudgetStep, PTL DEF Spec

\* A run cancelled before its release never releases, for every pipeline whose
\* route has no way around the freeze (cancel_production,
\* persist_writer_context_freeze).
THEOREM CancellationHolds == Spec => []CancelledNeverReleases
<1>1. Init => CancelInv
  BY DEF Init, CancelInv
<1>2. CancelInv => CancelledNeverReleases
  BY DEF CancelInv, CancelledNeverReleases
<1> QED BY <1>1, <1>2, Invariance, CancelInvStep, PTL DEF Spec

\* What a released candidate was written on is what the run froze, however the
\* project changes between its executions (execute_model_stage,
\* persist_writer_context_freeze).
THEOREM ContextFrozen == Spec => []ReleaseUsesFrozenContext
<1>1. Init => SentInv
  BY DEF Init, SentInv, SenderOK, CountsOK, IdleExecutor
<1>2. Init => ContextInv
  <2>1. PoolStages \subseteq Stages
    BY ProductionRunAssumption
  <2>2. Init => PoolRowsRead(calls) /\ \A e \in Executors : ex[e].pc = "idle"
    BY <2>1 DEF Init, PoolRowsRead, NoCall, IdleExecutor
  <2> QED BY <2>2 DEF Init, ContextInv, ReleaseUsesFrozenContext
<1>3. ContextInv => ReleaseUsesFrozenContext
  BY DEF ContextInv
<1> QED BY <1>1, <1>2, <1>3, Invariance, SentStep, ContextStep, PTL DEF Spec

\* A DRAFT chapter is released only when every gate on its prose (the Surface
\* audit by its own answer or by the repair of an inexact one), the last
\* tracking audit it reached and the independent review accepted it, and its
\* length gate did not fire, whatever crashes, repeats and contends
\* (author_run_execute).
THEOREM GatesPassed ==
  ASSUME Draft
  PROVE  Spec => []ReleasedPassedGates
<1>1. Ordered(DraftRank)
  BY DraftOrdered
<1>2. Init => PathInv(DraftRank) /\ AnswersInv
  BY DEF Init, PathInv, AnswersInv, IdleExecutor, NoCall
<1>3. IInv /\ PathInv(DraftRank) /\ [Next]_vars => PathInv(DraftRank)'
  BY <1>1, PathStep
<1>4. IInv /\ PathInv(DraftRank) /\ AnswersInv => ReleasedPassedGates
  <2> SUFFICES ASSUME IInv, PathInv(DraftRank), AnswersInv, releases > 0 PROVE ReleasedPassedGates
    BY DEF ReleasedPassedGates
  <2>1. /\ candidate \in Seen /\ FollowsRoute(candidate, {"release"}) /\ BackedBy(calls, candidate)
        /\ \A s \in Stages : candidate[s] # NoResult => LedTo(candidate, s)
    BY DEF IInv, TypeOK, StateTypeOK, ReleaseOK, PathInv
  <2>2. ASSUME NEW g \in DraftGates \cup DraftAudits, candidate[g] # NoResult
        PROVE  candidate[g][1] \in {"accept", "reject"}
    <3>1. /\ g \in Stages \ (AlwaysDerived \cup PoolStages) /\ Answers[g] = {"accept", "reject"}
      BY GatesAnswer DEF Draft
    <3>2. calls[g].state = "confirmed" /\ calls[g].result = candidate[g]
      BY <2>1, <2>2, <3>1 DEF BackedBy
    <3> QED BY <3>1, <3>2 DEF AnswersInv
  <2>3. ASSUME NEW g \in {"surface_hard_rule_audit", "surface_hard_rule_audit_contract_repair"},
               candidate[g] # NoResult
        PROVE  candidate[g][1] # "short"
    <3>1. /\ g \in Stages \ (AlwaysDerived \cup PoolStages)
          /\ Answers[g] \subseteq {"accept", "reject", "inexact", "malformed"}
      BY SurfaceAuditAnswers DEF Draft
    <3>2. calls[g].state = "confirmed" /\ calls[g].result = candidate[g]
      BY <2>1, <2>3, <3>1 DEF BackedBy
    <3> QED BY <3>1, <3>2 DEF AnswersInv
  <2>4. SurfaceAudited(candidate)
        /\ (\A g \in DraftGates : candidate[g] # NoResult /\ candidate[g][1] = "accept")
        /\ candidate["chapter_length_gate"] = NoResult
        /\ \E a \in DraftAudits :
             /\ candidate[a] # NoResult /\ candidate[a][1] = "accept"
             /\ \A b \in DraftAudits \ {a} : candidate[b] # NoResult => candidate[b][1] = "reject"
    BY <2>1, <2>2, <2>3, DraftGatesPassed
  <2> QED BY <2>4 DEF ReleasedPassedGates, SurfaceAudited
<1> QED BY <1>2, <1>3, <1>4, Invariance, AnswersStep, PTL DEF Spec
=============================================================================
