------------------------- MODULE CorpusStudyProofs -------------------------
(***************************************************************************)
(* Proofs about a study of the corpus library (CorpusStudy), for any       *)
(* proposal, any chunks of its works, any number of jobs of a request, any *)
(* files that change, any inputs that are too long and any number of       *)
(* crashes.                                                                *)
(***************************************************************************)
EXTENDS CorpusStudy, FiniteSetTheorems, WellFoundedInduction, TLAPS

\* A call that was made was sent once.
SentOnce == \A c \in Stages \X Units : sent[c] = IF calls[c] = "none" THEN 0 ELSE 1

\* The stage of a study and the status of its proposal move together.
Phases ==
  /\ status \in {"none", "proposed"} => stage = "none"
  /\ status \in {"confirmed", "paused_golden_three"} => stage = "golden_three"
  /\ status = "running" => stage \notin {"none", "golden_three"}
  /\ status = "complete" => stage = "style_profile"
  /\ status # "none" => selection # {}
  /\ pc # "idle" => stage # "none"

\* The author's authorization is recorded when the first stage is left; until
\* then nothing else was asked for.
Authorized ==
  /\ authorizations = (IF stage \in {"none", "golden_three"} THEN 0 ELSE 1)
  /\ authorizations = 0 => queue = <<>>
  /\ ReadOnlyAfterAuthorization

\* After the preview only units of the selected works are read or asked for.
ReadWithin ==
  /\ \A s \in Stages \ {"golden_three"}, u \in Units : calls[<<s, u>>] # "none" => u \in StageUnits(s)
  /\ ToSet(queue) \subseteq StageUnits("chapter_extraction")

\* The call a request waits for is one of the current stage.
CallOfStage ==
  pc = "sent" => call[1] = stage /\ calls[call] = "dispatched" /\ call[2] \in StageUnits(stage)

\* A stage has what it needs: all its units, or all that were asked for.
StageWhole(s) ==
  IF s = "chapter_extraction" /\ coverage = "saturated" THEN Confirmed(s) # {}
  ELSE StageUnits(s) \subseteq Confirmed(s)

\* The stages that come before a stage, the preview left out.
Passed(s) ==
  CASE s = "aggregate_mechanisms" -> {"chapter_extraction"}
    [] s = "story_entities" -> {"chapter_extraction", "aggregate_mechanisms"}
    [] s = "report" -> {"chapter_extraction", "aggregate_mechanisms", "story_entities"}
    [] s = "style_profile" -> {"chapter_extraction", "aggregate_mechanisms", "story_entities", "report"}
    [] OTHER -> {}

\* Stages are left when they have what they need.
PassedWhole ==
  /\ \A s \in Passed(stage) : StageWhole(s)
  /\ (pc = "advance" /\ stage # "golden_three") \/ status = "complete" => StageWhole(stage)

\* Without a crash, and unless a call was lost, an extraction that goes on
\* has something to send.
ExtractionGoesOn ==
  /\ crashes = 0 /\ stage = "chapter_extraction" /\ status = "running"
  /\ pc \in {"idle", "loop"} /\ Lost = {}
  => Pending # {}

\* The inductive invariant.
StudyInv ==
  /\ TypeOK /\ SentOnce /\ Phases /\ Authorized /\ ReadWithin /\ CallOfStage
  /\ PassedWhole /\ ExtractionGoesOn

(***************************************************************************)
(* Stages and units                                                        *)
(***************************************************************************)

\* A set of numbers that is not empty has a least element.
LEMMA LeastElement ==
  ASSUME NEW S \in SUBSET Nat, S # {}
  PROVE  \E x \in S : \A y \in S : x <= y
<1> DEFINE less == {ss \in Nat \X Nat : ss[1] < ss[2]}
<1>1. IsWellFoundedOn(less, Nat) BY NatLessThanWellFounded, Zenon DEF OpToRel
<1>2. PICK x \in S : \A y \in S : ~ (<<y, x>> \in less)
  <2> HIDE DEF less
  <2> QED BY <1>1, WFMin
<1>3. ASSUME NEW y \in S PROVE x <= y
  <2>1. y \in Nat /\ x \in Nat /\ <<y, x>> \in Nat \X Nat OBVIOUS
  <2>2. <<y, x>>[1] = y /\ <<y, x>>[2] = x OBVIOUS
  <2>3. ~ (<<y, x>>[1] < <<y, x>>[2]) BY <1>2, <2>1, Zenon
  <2> QED BY <2>1, <2>2, <2>3
<1> QED BY <1>3

\* The six stages.
LEMMA TheStages ==
  Stages = {"golden_three", "chapter_extraction", "aggregate_mechanisms", "story_entities", "report",
            "style_profile"}
BY DEF Stages, StageOrder, ToSet

\* The stage after each stage.
LEMMA NextStages ==
  /\ NextStage("chapter_extraction") = "aggregate_mechanisms"
  /\ NextStage("aggregate_mechanisms") = "story_entities"
  /\ NextStage("story_entities") = "report"
  /\ NextStage("report") = "style_profile"
<1>1. ASSUME NEW k \in 1..5, NEW s, StageOrder[k] = s PROVE NextStage(s) = StageOrder[k + 1]
  <2>1. \A i \in 1..5 : StageOrder[i] = s => i = k BY <1>1 DEF StageOrder
  <2>2. (CHOOSE i \in 1..5 : StageOrder[i] = s) = k BY <1>1, <2>1
  <2> QED BY <2>2 DEF NextStage
<1>2. /\ StageOrder[2] = "chapter_extraction" /\ StageOrder[3] = "aggregate_mechanisms"
      /\ StageOrder[4] = "story_entities" /\ StageOrder[5] = "report" /\ StageOrder[6] = "style_profile"
  BY DEF StageOrder
<1> QED BY <1>1, <1>2

\* The values of a function on a finite set are finitely many.
LEMMA FiniteImage ==
  ASSUME NEW S, IsFiniteSet(S), NEW f, DOMAIN f = S, f = [x \in S |-> f[x]]
  PROVE  IsFiniteSet({f[x] : x \in S})
<1> DEFINE T == {f[x] : x \in S}
<1>1. f \in Surjection(S, T) BY DEF Surjection
<1> HIDE DEF T
<1>2. IsFiniteSet(T) BY <1>1, FS_Surjection
<1> QED BY <1>2 DEF T

\* The units of a stage are units, and there are finitely many.
LEMMA FiniteUnits == IsFiniteSet(Units)
<1>1. IsFiniteSet(Works)
  <2>1. DOMAIN Proposal = 1..Len(Proposal) /\ Len(Proposal) \in Nat BY StudyAssumption
  <2>2. IsFiniteSet(DOMAIN Proposal) BY <2>1, FS_Interval
  <2>3. Works = {Proposal[i] : i \in DOMAIN Proposal} BY DEF Works, ToSet
  <2>4. Proposal = [i \in DOMAIN Proposal |-> Proposal[i]] BY StudyAssumption
  <2> QED BY <2>2, <2>3, <2>4, FiniteImage
<1>2. IsFiniteSet(Chapters)
  <2>1. ASSUME NEW w \in Works PROVE IsFiniteSet(ChunksOf(w))
    <3>1. Chunks[w] \in Nat BY StudyAssumption
    <3>2. IsFiniteSet(1..Chunks[w]) BY <3>1, FS_Interval
    <3> QED BY <3>2, FS_Singleton, FS_Product DEF ChunksOf
  <2>2. IsFiniteSet({ChunksOf(w) : w \in Works})
    <3> DEFINE f == [w \in Works |-> ChunksOf(w)]
    <3>1. {ChunksOf(w) : w \in Works} = {f[w] : w \in Works} OBVIOUS
    <3>2. DOMAIN f = Works /\ f = [w \in Works |-> f[w]] OBVIOUS
    <3> HIDE DEF f
    <3> QED BY <1>1, <3>1, <3>2, FiniteImage
  <2> QED BY <2>1, <2>2, FS_UNION DEF Chapters
<1>3. IsFiniteSet({Whole(w) : w \in Works})
  <2> DEFINE f == [w \in Works |-> Whole(w)]
  <2>1. {Whole(w) : w \in Works} = {f[w] : w \in Works} OBVIOUS
  <2>2. DOMAIN f = Works /\ f = [w \in Works |-> f[w]] OBVIOUS
  <2> HIDE DEF f
  <2> QED BY <1>1, <2>1, <2>2, FiniteImage
<1> QED BY <1>2, <1>3, FS_Union, FS_Singleton DEF Units

\* The units of a stage are units.
LEMMA StageUnitsAreUnits ==
  ASSUME NEW s, selection \subseteq Works
  PROVE  StageUnits(s) \subseteq Units /\ IsFiniteSet(StageUnits(s))
<1>1. {Whole(w) : w \in selection} \subseteq Units BY DEF Units
<1>2. UNION {ChunksOf(w) : w \in selection} \subseteq Units BY DEF Units, Chapters
<1>3. {All} \subseteq Units BY DEF Units
<1>4. StageUnits(s) \subseteq Units BY <1>1, <1>2, <1>3 DEF StageUnits
<1> QED BY <1>4, FiniteUnits, FS_Subset

\* An extraction begins with a selected work.
LEMMA FirstWorkSelected ==
  ASSUME selection \subseteq Works, selection # {}
  PROVE  FirstWork \in selection
<1> DEFINE S == {i \in DOMAIN Proposal : Proposal[i] \in selection}
<1>1. S \in SUBSET Nat BY StudyAssumption
<1>2. S # {} BY DEF Works, ToSet
<1>3. FirstWork = Proposal[Min(S)] BY DEF FirstWork
<1>4. Min(S) \in S
  <2> HIDE DEF S
  <2> QED BY <1>1, <1>2, LeastElement DEF Min
<1> QED BY <1>3, <1>4

\* What is to be sent belongs to the stage.
LEMMA SendWithin ==
  ASSUME StudyInv, stage # "none"
  PROVE  UnitsToSend \subseteq StageUnits(stage)
<1>1. CASE stage # "chapter_extraction" BY <1>1 DEF UnitsToSend
<1>2. CASE stage = "chapter_extraction"
  <2>1. selection \subseteq Works /\ selection # {}
    BY <1>2 DEF StudyInv, TypeOK, Phases
  <2>2. FirstWork \in selection BY <2>1, FirstWorkSelected
  <2>3. <<FirstWork, 1>> \in ChunksOf(FirstWork)
    BY <2>1, <2>2, StudyAssumption DEF ChunksOf
  <2>4. <<FirstWork, 1>> \in StageUnits(stage) BY <1>2, <2>2, <2>3 DEF StageUnits
  <2>5. ToSet(queue) \subseteq StageUnits(stage) BY <1>2 DEF StudyInv, ReadWithin
  <2> QED BY <1>2, <2>4, <2>5 DEF UnitsToSend
<1> QED BY <1>1, <1>2

\* Each element of P has a name of its own in an order, and is the first.
NamedIn(P, order, name) ==
  /\ \A u \in P : \E i \in DOMAIN order : order[i] = name[u]
  /\ \A u, v \in P : name[u] = name[v] => u = v
FirstIn(u, P, order, name) ==
  \A v \in P \ {u} : \E i, j \in DOMAIN order : i < j /\ order[i] = name[u] /\ order[j] = name[v]

\* Among named units there is a first one.
LEMMA FirstOfPending ==
  ASSUME NEW P, NEW order, DOMAIN order \subseteq Nat, NEW name, P # {}, NamedIn(P, order, name)
  PROVE  \E u \in P : FirstIn(u, P, order, name)
<1> USE DEF NamedIn, FirstIn
<1> DEFINE S == {i \in DOMAIN order : \E u \in P : order[i] = name[u]}
<1>1. DOMAIN order \subseteq Nat OBVIOUS
<1>2. S \in SUBSET Nat /\ S # {} BY <1>1
<1>3. PICK i \in S : \A j \in S : i <= j
  <2> HIDE DEF S
  <2> QED BY <1>2, LeastElement
<1>4. PICK u \in P : order[i] = name[u] OBVIOUS
<1>5. ASSUME NEW v \in P \ {u}
      PROVE  \E k, j \in DOMAIN order : k < j /\ order[k] = name[u] /\ order[j] = name[v]
  <2>1. PICK j \in DOMAIN order : order[j] = name[v] OBVIOUS
  <2>2. j \in S BY <2>1
  <2>3. i # j BY <1>4, <1>5, <2>1
  <2>4. i \in DOMAIN order /\ i \in Nat /\ j \in Nat /\ i <= j BY <1>1, <1>3, <2>2
  <2>5. i < j BY <2>3, <2>4
  <2> QED BY <1>4, <2>1, <2>4, <2>5
<1> QED BY <1>5

\* The unit that is sent is one without an answer.
LEMMA NextIsPending ==
  ASSUME StudyInv, stage # "none", Pending # {}
  PROVE  NextUnit \in Pending /\ NextUnit \in StageUnits(stage) /\ NextUnit \in Units
<1> DEFINE asked == stage = "chapter_extraction"
           order == IF asked THEN queue ELSE Proposal
           name(u) == IF asked THEN u ELSE u[1]
           First(u) == \A v \in Pending \ {u} :
             \E i, j \in DOMAIN order : i < j /\ order[i] = name(u) /\ order[j] = name(v)
<1>1. Pending \subseteq UnitsToSend /\ UnitsToSend \subseteq StageUnits(stage) BY SendWithin DEF Pending
<1>2. selection \subseteq Works /\ queue \in Seq(Chapters) BY DEF StudyInv, TypeOK
<1>3. \E u \in Pending : First(u)
  <2>1. CASE \E u : Pending = {u} BY <2>1
  <2>2. CASE asked /\ ~(\E u : Pending = {u})
    <3>1. Pending \subseteq ToSet(queue) BY <1>1, <2>2 DEF UnitsToSend, Pending
    <3>2. \A u \in Pending : \E i \in DOMAIN queue : queue[i] = u BY <3>1 DEF ToSet
    <3> DEFINE id == [u \in Pending |-> u]
    <3>3. NamedIn(Pending, queue, id) /\ DOMAIN queue \subseteq Nat BY <1>2, <3>2 DEF NamedIn
    <3> HIDE DEF id
    <3>4. PICK u \in Pending : FirstIn(u, Pending, queue, id) BY <3>3, FirstOfPending
    <3>5. First(u) BY <2>2, <3>4 DEF FirstIn, id
    <3> QED BY <3>5
  <2>3. CASE ~asked /\ ~(\E u : Pending = {u})
    <3>1. Pending \subseteq {Whole(w) : w \in selection}
      <4>1. Pending # {All} /\ (Pending \subseteq {All} => Pending = {All}) BY <2>3
      <4> QED BY <1>1, <2>3, <4>1 DEF StageUnits
    <3> DEFINE work == [u \in Pending |-> u[1]]
    <3>2. \A u \in Pending : work[u] \in Works /\ u = <<work[u], 0>> BY <1>2, <3>1 DEF Whole
    <3>3. \A u \in Pending : \E i \in DOMAIN Proposal : Proposal[i] = work[u] BY <3>2 DEF Works, ToSet
    <3>4. \A u, v \in Pending : work[u] = work[v] => u = v
      <4> HIDE DEF work
      <4> QED BY <3>2
    <3>5. NamedIn(Pending, Proposal, work) /\ DOMAIN Proposal \subseteq Nat
      BY <3>3, <3>4, StudyAssumption DEF NamedIn
    <3> HIDE DEF work
    <3>6. PICK u \in Pending : FirstIn(u, Pending, Proposal, work) BY <3>5, FirstOfPending
    <3>7. First(u) BY <2>3, <3>6 DEF FirstIn, work
    <3> QED BY <3>7
  <2> QED BY <2>1, <2>2, <2>3
<1>4. NextUnit = CHOOSE u \in Pending : First(u) BY Zenon DEF NextUnit
<1> HIDE DEF First
<1>5. NextUnit \in Pending BY <1>3, <1>4
<1> QED BY <1>1, <1>2, <1>5, StageUnitsAreUnits

(***************************************************************************)
(* The invariant                                                           *)
(***************************************************************************)

\* The units of the stages depend on the selection only.
LEMMA SameUnits ==
  ASSUME UNCHANGED selection
  PROVE  (\A s : StageUnits(s)' = StageUnits(s)) /\ FirstWork' = FirstWork
BY DEF StageUnits, FirstWork

\* What is to be sent depends on the study, not on the request.
LEMMA SameStudy ==
  ASSUME UNCHANGED <<selection, stage, calls, queue>>
  PROVE  /\ \A s : StageUnits(s)' = StageUnits(s) /\ Confirmed(s)' = Confirmed(s)
         /\ Pending' = Pending /\ Lost' = Lost
<1>1. (\A s : StageUnits(s)' = StageUnits(s)) /\ FirstWork' = FirstWork BY SameUnits
<1>2. \A s : Confirmed(s)' = Confirmed(s) BY DEF Confirmed
<1>3. UnitsToSend' = UnitsToSend BY <1>1 DEF UnitsToSend
<1>4. Pending' = Pending BY <1>2, <1>3 DEF Pending
<1>5. Lost' = Lost BY DEF Lost
<1> QED BY <1>1, <1>2, <1>4, <1>5

\* No study has begun.
LEMMA StudyInit == Init => StudyInv
<1> SUFFICES ASSUME Init PROVE StudyInv OBVIOUS
<1>1. All \in Units BY DEF Units
<1>2. TypeOK
  <2>1. "golden_three" \in Stages BY TheStages
  <2>2. <<>> \in Seq(Chapters) OBVIOUS
  <2> QED BY <1>1, <2>1, <2>2, StudyAssumption DEF Init, TypeOK, Statuses, NoPack
<1>3. SentOnce BY DEF Init, SentOnce
<1>4. Phases /\ CallOfStage /\ ExtractionGoesOn BY DEF Init, Phases, CallOfStage, ExtractionGoesOn
<1>5. \A s \in Stages, u \in Units : calls[<<s, u>>] = "none" BY DEF Init
<1>6. Authorized BY <1>5 DEF Init, Authorized, ReadOnlyAfterAuthorization
<1>7. ReadWithin BY <1>5 DEF Init, ReadWithin, ToSet
<1>8. PassedWhole BY DEF Init, PassedWhole, Passed
<1> QED BY <1>2, <1>3, <1>4, <1>6, <1>7, <1>8 DEF StudyInv

\* Before the first stage is left nothing but the preview was read.
LEMMA PreviewOnly ==
  ASSUME StudyInv, stage \in {"none", "golden_three"}
  PROVE  /\ \A s \in Stages \ {"golden_three"}, u \in Units : calls[<<s, u>>] = "none"
         /\ queue = <<>> /\ authorizations = 0 /\ Passed(stage) = {}
BY DEF StudyInv, Authorized, ReadOnlyAfterAuthorization, Passed

\* The selection is made before the first stage is left.
LEMMA SelectionPreserves ==
  ASSUME StudyInv, ProposeSelection \/ \E S \in SUBSET Works : ConfirmSelection(S)
  PROVE  StudyInv'
<1> DEFINE Chosen ==
      /\ pc = "idle" /\ status' \in {"proposed", "confirmed"}
      /\ stage \in {"none", "golden_three"} /\ stage' \in {"none", "golden_three"}
      /\ (status' = "proposed" => stage' = "none") /\ (status' = "confirmed" => stage' = "golden_three")
      /\ selection' \subseteq Works /\ selection' # {}
      /\ UNCHANGED <<calls, queue, coverage, authorizations, titles, pack, pc, call, jobs, crashes, sent>>
      /\ UNCHANGED inputs
<1>1. Chosen
  <2>1. CASE ProposeSelection
    <3>1. Works # {} BY StudyAssumption DEF Works, ToSet
    <3> QED BY <2>1, <3>1 DEF ProposeSelection, StudyInv, Phases, results, request
  <2>2. ASSUME NEW S \in SUBSET Works, ConfirmSelection(S) PROVE Chosen
    BY <2>2 DEF ConfirmSelection, Confirmable, StudyInv, Phases, results, request
  <2> QED BY <2>1, <2>2
<1>2. /\ \A s \in Stages \ {"golden_three"}, u \in Units : calls[<<s, u>>] = "none"
      /\ queue = <<>> /\ authorizations = 0
  BY <1>1, PreviewOnly
<1>3. TypeOK' BY <1>1, TheStages DEF StudyInv, TypeOK, Statuses, inputs
<1>4. SentOnce' BY <1>1 DEF StudyInv, SentOnce
<1>5. Phases' /\ CallOfStage' /\ ExtractionGoesOn' BY <1>1 DEF Phases, CallOfStage, ExtractionGoesOn
<1>6. Authorized' BY <1>1, <1>2 DEF Authorized, ReadOnlyAfterAuthorization
<1>7. ReadWithin' BY <1>1, <1>2 DEF ReadWithin, ToSet
<1>8. PassedWhole' BY <1>1 DEF PassedWhole, Passed
<1> QED BY <1>3, <1>4, <1>5, <1>6, <1>7, <1>8 DEF StudyInv

\* A request that waits has a call without an answer.
LEMMA WaitingIsLost ==
  ASSUME StudyInv, pc = "sent"
  PROVE  Lost # {}
BY DEF StudyInv, TypeOK, CallOfStage, Lost

\* Steps that leave the study as it is: a request begins or ends, is refused,
\* or is cut off, a file is edited, and a study is cancelled.
LEMMA RequestPreserves ==
  ASSUME StudyInv,
         \/ CancelStudy \/ Start \/ End \/ DispatchRefused \/ RefuseAnswer \/ Crash \/ EditSources
         \/ UNCHANGED vars
  PROVE  StudyInv'
<1> DEFINE Same ==
      /\ UNCHANGED <<selection, stage, calls, queue, coverage, authorizations, titles, pack, sent, call>>
      /\ status' = status \/ (status' = "cancelled" /\ status # "none")
      /\ pc' = pc \/ (pc' = "idle") \/ (pc' = "loop" /\ stage # "none")
      /\ crashes' = crashes \/ (crashes' = crashes + 1 /\ crashes < MaxCrashes)
      /\ crashes' = crashes => pc \in {"idle", "loop", "sent"} \/ pc' = pc
      /\ jobs' \in 0..MaxJobs /\ changed' \subseteq Works /\ oversized' = oversized
<1>1. Same
  <2>1. crashes \in Nat /\ jobs \in 0..MaxJobs /\ changed \subseteq Works BY DEF StudyInv, TypeOK
  <2>2. Editable \subseteq Works /\ MaxJobs \in Nat BY StudyAssumption
  <2> QED BY <2>1, <2>2
       DEF CancelStudy, Start, End, DispatchRefused, RefuseAnswer, Crash, EditSources, vars, results, request,
           inputs
<1>2. /\ \A s : StageUnits(s)' = StageUnits(s) /\ Confirmed(s)' = Confirmed(s)
      /\ Pending' = Pending /\ Lost' = Lost
  BY <1>1, SameStudy
<1>3. TypeOK' BY <1>1, StudyAssumption DEF StudyInv, TypeOK, Statuses
<1>4. SentOnce' BY <1>1 DEF StudyInv, SentOnce
<1>5. Phases' BY <1>1 DEF StudyInv, Phases
<1>6. Authorized' BY <1>1 DEF StudyInv, Authorized, ReadOnlyAfterAuthorization
<1>7. ReadWithin' BY <1>1, <1>2 DEF StudyInv, ReadWithin, ToSet
<1>8. CallOfStage' BY <1>1, <1>2 DEF StudyInv, CallOfStage
<1>9. PassedWhole'
  <2>1. \A s : StageWhole(s)' = StageWhole(s) BY <1>1, <1>2 DEF StageWhole
  <2>2. Passed(stage)' = Passed(stage) BY <1>1 DEF Passed
  <2> QED BY <1>1, <2>1, <2>2 DEF StudyInv, PassedWhole
<1>10. ExtractionGoesOn' BY <1>1, <1>2, WaitingIsLost DEF StudyInv, ExtractionGoesOn, TypeOK
<1> QED BY <1>3, <1>4, <1>5, <1>6, <1>7, <1>8, <1>9, <1>10 DEF StudyInv

\* The author lets a paused study go on: the extraction has not begun.
LEMMA ContinuePreserves ==
  ASSUME StudyInv, ContinueAfterGoldenThree
  PROVE  StudyInv'
<1>1. /\ stage = "golden_three" /\ status = "paused_golden_three" /\ authorizations' = authorizations + 1
      /\ stage' = "chapter_extraction" /\ status' = "running" /\ pc' = "loop"
      /\ UNCHANGED <<selection, calls, queue, coverage, titles, pack, call, changed, oversized, sent, crashes>>
      /\ jobs' \in 0..MaxJobs
  BY StudyAssumption DEF ContinueAfterGoldenThree, inputs
<1>2. /\ \A s \in Stages \ {"golden_three"}, u \in Units : calls[<<s, u>>] = "none"
      /\ queue = <<>> /\ authorizations = 0
  BY <1>1, PreviewOnly
<1>3. TypeOK' BY <1>1, <1>2, TheStages DEF StudyInv, TypeOK, Statuses
<1>4. SentOnce' BY <1>1 DEF StudyInv, SentOnce
<1>5. Phases' /\ CallOfStage' BY <1>1 DEF StudyInv, Phases, CallOfStage
<1>6. Authorized' BY <1>1, <1>2 DEF Authorized, ReadOnlyAfterAuthorization
<1>7. ReadWithin' BY <1>1, <1>2 DEF ReadWithin, ToSet
<1>8. PassedWhole' BY <1>1 DEF PassedWhole, Passed
<1>9. ExtractionGoesOn'
  <2>1. \A u \in Units : calls'[<<stage', u>>] = "none" BY <1>1, <1>2, TheStages
  <2>2. UnitsToSend' = {<<FirstWork', 1>>} BY <1>1, <2>1 DEF UnitsToSend
  <2>3. Confirmed(stage)' = {} BY <2>1 DEF Confirmed
  <2>4. Pending' # {} BY <2>2, <2>3 DEF Pending
  <2> QED BY <2>4 DEF ExtractionGoesOn
<1> QED BY <1>3, <1>4, <1>5, <1>6, <1>7, <1>8, <1>9 DEF StudyInv

\* A unit is sent that was never sent before.
LEMMA DispatchPreserves ==
  ASSUME StudyInv, DispatchUnit
  PROVE  StudyInv'
<1> DEFINE c == <<stage, NextUnit>>
<1>1. /\ pc = "loop" /\ Executable /\ Pending # {} /\ calls[c] = "none"
      /\ calls' = [calls EXCEPT ![c] = "dispatched"] /\ sent' = [sent EXCEPT ![c] = @ + 1]
      /\ call' = c /\ pc' = "sent"
      /\ UNCHANGED <<status, selection, stage, queue, coverage, authorizations, titles, pack, changed,
                     oversized, crashes>>
      /\ jobs > 0 /\ jobs' = jobs - 1
  BY DEF DispatchUnit, Sendable, results, inputs
<1>2. stage \in Stages BY <1>1 DEF StudyInv, Phases, TypeOK
<1>3. NextUnit \in StageUnits(stage) /\ NextUnit \in Units
  BY <1>1, <1>2, NextIsPending, TheStages
<1>4. c \in Stages \X Units /\ c[1] = stage /\ c[2] = NextUnit BY <1>2, <1>3
<1> HIDE DEF c
<1>5. /\ calls'[c] = "dispatched" /\ \A d \in Stages \X Units : d # c => calls'[d] = calls[d]
      /\ sent'[c] = sent[c] + 1 /\ \A d \in Stages \X Units : d # c => sent'[d] = sent[d]
  BY <1>1, <1>4 DEF StudyInv, TypeOK
<1>6. (\A s : StageUnits(s)' = StageUnits(s)) BY <1>1, SameUnits
<1>7. TypeOK' BY <1>1, <1>4, StudyAssumption DEF StudyInv, TypeOK
<1>8. SentOnce'
  <2>1. sent[c] = 0 BY <1>1, <1>4 DEF StudyInv, SentOnce
  <2> QED BY <1>5, <2>1 DEF StudyInv, SentOnce
<1>9. Phases' BY <1>1, <1>2, TheStages DEF StudyInv, Phases
<1>10. Authorized'
  <2>1. authorizations = 0 => stage = "golden_three" BY <1>2, TheStages DEF StudyInv, Authorized
  <2>2. ReadOnlyAfterAuthorization'
    <3> SUFFICES ASSUME authorizations = 0, NEW u \in Units, NEW s \in Stages \ {"golden_three"}
        PROVE  calls'[<<s, u>>] = "none"
      BY <1>1 DEF ReadOnlyAfterAuthorization
    <3>1. <<s, u>> # c /\ <<s, u>> \in Stages \X Units BY <1>4, <2>1
    <3> QED BY <1>5, <3>1 DEF StudyInv, Authorized, ReadOnlyAfterAuthorization
  <2> QED BY <1>1, <2>2 DEF StudyInv, Authorized
<1>11. ReadWithin'
  <2>1. ASSUME NEW s \in Stages \ {"golden_three"}, NEW u \in Units, calls'[<<s, u>>] # "none"
        PROVE  u \in StageUnits(s)
    <3>1. CASE <<s, u>> = c BY <1>3, <1>4, <3>1
    <3>2. CASE <<s, u>> # c BY <1>5, <2>1, <3>2 DEF StudyInv, ReadWithin
    <3> QED BY <3>1, <3>2
  <2> QED BY <1>1, <1>6, <2>1 DEF StudyInv, ReadWithin, ToSet
<1>12. CallOfStage' BY <1>1, <1>3, <1>4, <1>5, <1>6 DEF CallOfStage
<1>13. PassedWhole'
  <2>1. \A s \in Stages : Confirmed(s) \subseteq Confirmed(s)' BY <1>1, <1>5 DEF Confirmed
  <2>2. \A s \in Stages : StageWhole(s) => StageWhole(s)' BY <1>1, <1>6, <2>1 DEF StageWhole
  <2>3. Passed(stage)' = Passed(stage) /\ Passed(stage) \subseteq Stages BY <1>1, TheStages DEF Passed
  <2> QED BY <1>1, <1>2, <2>2, <2>3 DEF StudyInv, PassedWhole
<1>14. ExtractionGoesOn' BY <1>1 DEF ExtractionGoesOn
<1> QED BY <1>7, <1>8, <1>9, <1>10, <1>11, <1>12, <1>13, <1>14 DEF StudyInv

\* What an answer does to the calls: one that was dispatched is confirmed.
LEMMA AnswerFacts ==
  ASSUME StudyInv, pc = "sent", NEW outcome, calls' = [calls EXCEPT ![call] = outcome], UNCHANGED selection
  PROVE  /\ call \in Stages \X Units /\ call[1] = stage /\ stage \in Stages
         /\ call[2] \in StageUnits(stage) /\ call[2] \in Units /\ call[2] \notin Confirmed(stage)
         /\ call = <<stage, call[2]>> /\ calls'[call] = outcome /\ calls[call] = "dispatched"
         /\ \A d \in Stages \X Units : d # call => calls'[d] = calls[d]
         /\ \A s \in Stages : Confirmed(s) \subseteq Confirmed(s)' /\ StageUnits(s)' = StageUnits(s)
<1>1. call \in Stages \X Units /\ call[1] = stage /\ calls[call] = "dispatched" /\ call[2] \in StageUnits(stage)
  BY DEF StudyInv, TypeOK, CallOfStage
<1>2. call = <<stage, call[2]>> /\ stage \in Stages /\ call[2] \in Units BY <1>1
<1>3. call[2] \notin Confirmed(stage) BY <1>1, <1>2 DEF Confirmed
<1>4. calls'[call] = outcome /\ \A d \in Stages \X Units : d # call => calls'[d] = calls[d]
  BY <1>1 DEF StudyInv, TypeOK
<1>5. \A s \in Stages : Confirmed(s) \subseteq Confirmed(s)' BY <1>1, <1>4 DEF Confirmed
<1> QED BY <1>1, <1>2, <1>3, <1>4, <1>5, SameUnits

\* When as many answers are there as the stage has units, all of them are.
LEMMA CountedIsWhole ==
  ASSUME StudyInv, StageDone, NEW u \in StageUnits(stage), u \notin Confirmed(stage),
         Confirmed(stage) \subseteq StageUnits(stage)
  PROVE  StageUnits(stage) = Confirmed(stage) \cup {u}
<1>1. IsFiniteSet(StageUnits(stage)) BY StageUnitsAreUnits DEF StudyInv, TypeOK
<1>2. IsFiniteSet(Confirmed(stage)) BY <1>1, FS_Subset
<1>3. Cardinality(Confirmed(stage) \cup {u}) = Cardinality(Confirmed(stage)) + 1 BY <1>2, FS_AddElement
<1>4. Confirmed(stage) \cup {u} \in SUBSET StageUnits(stage) OBVIOUS
<1> QED BY <1>1, <1>3, <1>4, FS_Subset DEF StageDone

\* The parts of the invariant an outcome cannot disturb.
LEMMA OutcomePreserves ==
  ASSUME StudyInv, pc = "sent", NEW outcome \in {"confirmed", "unconfirmed"},
         calls' = [calls EXCEPT ![call] = outcome], pc' \in {"idle", "loop", "advance"},
         UNCHANGED <<status, selection, stage, authorizations, pack, call, jobs, inputs, sent, crashes>>,
         queue' \in Seq(Chapters), ToSet(queue') \subseteq StageUnits("chapter_extraction"),
         stage # "chapter_extraction" => queue' = queue /\ coverage' = coverage,
         coverage' \in {"none", "expanding", "saturated"}, titles' \subseteq Works
  PROVE  TypeOK' /\ SentOnce' /\ Phases' /\ Authorized' /\ ReadWithin' /\ CallOfStage'
<1>1. /\ call \in Stages \X Units /\ call[1] = stage /\ stage \in Stages
      /\ call[2] \in StageUnits(stage) /\ call[2] \in Units
      /\ call = <<stage, call[2]>> /\ calls'[call] = outcome /\ calls[call] = "dispatched"
      /\ \A d \in Stages \X Units : d # call => calls'[d] = calls[d]
      /\ \A s \in Stages : StageUnits(s)' = StageUnits(s)
  BY AnswerFacts
<1>2. \A d \in Stages \X Units : calls'[d] = "none" <=> calls[d] = "none" BY <1>1
<1>3. TypeOK' BY <1>1 DEF StudyInv, TypeOK, inputs
<1>4. SentOnce' BY <1>2 DEF StudyInv, SentOnce
<1>5. Phases' BY <1>1, TheStages DEF StudyInv, Phases
<1>6. Authorized'
  <2>1. ReadOnlyAfterAuthorization' BY <1>2 DEF StudyInv, Authorized, ReadOnlyAfterAuthorization
  <2>2. authorizations = 0 => queue' = <<>> BY DEF StudyInv, Authorized
  <2> QED BY <2>1, <2>2 DEF StudyInv, Authorized
<1>7. ReadWithin'
  <2>1. "chapter_extraction" \in Stages BY TheStages
  <2>2. \A s \in Stages \ {"golden_three"}, u \in Units : calls'[<<s, u>>] # "none" => u \in StageUnits(s)
    BY <1>2 DEF StudyInv, ReadWithin
  <2>3. ToSet(queue)' \subseteq StageUnits("chapter_extraction") BY DEF ToSet
  <2> QED BY <1>1, <2>1, <2>2, <2>3 DEF ReadWithin
<1>8. CallOfStage' BY DEF CallOfStage
<1> QED BY <1>3, <1>4, <1>5, <1>6, <1>7, <1>8

\* The outcome of a call is unknown: it is lost.
LEMMA UnconfirmedPreserves ==
  ASSUME StudyInv, MarkStageUnconfirmed
  PROVE  StudyInv'
<1>1. /\ pc = "sent" /\ calls' = [calls EXCEPT ![call] = "unconfirmed"] /\ pc' = "idle"
      /\ UNCHANGED <<status, selection, stage, queue, coverage, authorizations, titles, pack, call, jobs, inputs,
                     sent, crashes>>
  BY DEF MarkStageUnconfirmed, results
<1>2. TypeOK' /\ SentOnce' /\ Phases' /\ Authorized' /\ ReadWithin' /\ CallOfStage'
  <2>1. /\ queue' \in Seq(Chapters) /\ ToSet(queue') \subseteq StageUnits("chapter_extraction")
        /\ coverage' \in {"none", "expanding", "saturated"} /\ titles' \subseteq Works
    BY <1>1 DEF StudyInv, TypeOK, ReadWithin
  <2> QED BY <1>1, <2>1, OutcomePreserves
<1>3. /\ call \in Stages \X Units /\ stage \in Stages /\ calls'[call] = "unconfirmed"
      /\ \A s \in Stages : Confirmed(s) \subseteq Confirmed(s)' /\ StageUnits(s)' = StageUnits(s)
  BY <1>1, AnswerFacts
<1>4. PassedWhole'
  <2>1. \A s \in Stages : StageWhole(s) => StageWhole(s)' BY <1>1, <1>3 DEF StageWhole
  <2>2. Passed(stage)' = Passed(stage) /\ Passed(stage) \subseteq Stages BY <1>1, TheStages DEF Passed
  <2> QED BY <1>1, <1>3, <2>1, <2>2 DEF StudyInv, PassedWhole
<1>5. Lost' # {} BY <1>3 DEF Lost
<1> QED BY <1>2, <1>4, <1>5 DEF StudyInv, ExtractionGoesOn

\* An order of a set of chapters is a queue of some of them.
LEMMA OrdersAreQueues ==
  ASSUME NEW S \in SUBSET Chapters, S # {}, NEW q \in SetToSeqs(S)
  PROVE  q \in Seq(Chapters) /\ ToSet(q) \subseteq S /\ ToSet(q) # {}
<1>1. IsFiniteSet(S)
  <2>1. S \subseteq Units BY DEF Units
  <2> QED BY <2>1, FiniteUnits, FS_Subset
<1> DEFINE n == Cardinality(S)
<1>2. n \in Nat /\ n # 0 BY <1>1, FS_CardinalityType, FS_EmptySet
<1>3. q \in [1..n -> S] BY DEF SetToSeqs
<1> HIDE DEF n
<1>4. q \in Seq(Chapters) BY <1>2, <1>3
<1>5. DOMAIN q = 1..n /\ 1 \in DOMAIN q BY <1>2, <1>3
<1>6. ToSet(q) \subseteq S BY <1>3, <1>5 DEF ToSet
<1>7. q[1] \in ToSet(q) BY <1>5 DEF ToSet
<1> QED BY <1>4, <1>6, <1>7

\* A confirmed answer leaves the stages that were passed whole.
LEMMA PassedStaysWhole ==
  ASSUME StudyInv, pc = "sent", calls' = [calls EXCEPT ![call] = "confirmed"],
         UNCHANGED <<status, selection, stage>>,
         stage # "chapter_extraction" => coverage' = coverage,
         pc' = "advance" /\ stage # "golden_three" => StageWhole(stage)'
  PROVE  PassedWhole'
<1>1. /\ stage \in Stages
      /\ \A s \in Stages : Confirmed(s) \subseteq Confirmed(s)' /\ StageUnits(s)' = StageUnits(s)
  BY AnswerFacts
<1>2. CASE stage = "chapter_extraction"
  <2>1. Passed(stage)' = {} BY <1>2 DEF Passed
  <2>2. status' # "complete" BY <1>2 DEF StudyInv, Phases
  <2> QED BY <2>1, <2>2 DEF PassedWhole
<1>3. CASE stage # "chapter_extraction"
  <2>1. \A s \in Stages : StageWhole(s) => StageWhole(s)' BY <1>1, <1>3 DEF StageWhole
  <2>2. Passed(stage)' = Passed(stage) /\ Passed(stage) \subseteq Stages BY TheStages DEF Passed
  <2>3. stage = stage' OBVIOUS
  <2>4. \A s \in Passed(stage)' : StageWhole(s)' BY <2>1, <2>2 DEF StudyInv, PassedWhole
  <2>5. status' = "complete" => StageWhole(stage)' BY <1>1, <2>1 DEF StudyInv, PassedWhole
  <2> QED BY <2>4, <2>5 DEF PassedWhole
<1> QED BY <1>2, <1>3

\* The last answer of a stage makes it whole.
LEMMA LastAnswerMakesWhole ==
  ASSUME StudyInv, pc = "sent", calls' = [calls EXCEPT ![call] = "confirmed"],
         UNCHANGED <<selection, stage>>, StageDone, stage # "golden_three"
  PROVE  StageUnits(stage)' \subseteq Confirmed(stage)'
<1>1. /\ stage \in Stages /\ call \in Stages \X Units /\ call = <<stage, call[2]>>
      /\ call[2] \in StageUnits(stage) /\ call[2] \in Units /\ call[2] \notin Confirmed(stage)
      /\ calls'[call] = "confirmed"
      /\ \A s \in Stages : Confirmed(s) \subseteq Confirmed(s)' /\ StageUnits(s)' = StageUnits(s)
  BY AnswerFacts
<1>2. Confirmed(stage) \subseteq StageUnits(stage) BY <1>1 DEF StudyInv, ReadWithin, Confirmed
<1>3. StageUnits(stage) = Confirmed(stage) \cup {call[2]} BY <1>1, <1>2, CountedIsWhole
<1>4. call[2] \in Confirmed(stage)' BY <1>1 DEF Confirmed
<1>5. StageUnits(stage)' = StageUnits(stage) /\ Confirmed(stage) \subseteq Confirmed(stage)' BY <1>1
<1> QED BY <1>3, <1>4, <1>5

\* An extraction asks for more, or has read enough.
LEMMA ExtractionPreserves ==
  ASSUME StudyInv, ConfirmExtraction
  PROVE  StudyInv'
<1>1. /\ call[1] = "chapter_extraction" /\ pc = "sent"
      /\ calls' = [calls EXCEPT ![call] = "confirmed"] /\ titles' = titles
      /\ UNCHANGED <<status, selection, stage, authorizations, pack, call, jobs, inputs, sent, crashes>>
  BY DEF ConfirmExtraction, Answered
<1>2. \/ /\ \E S \in (SUBSET Requestable) \ {{}} : queue' \in SetToSeqs(S)
         /\ coverage' = "expanding" /\ pc' = IF StageDone THEN "advance" ELSE "loop"
      \/ queue' = <<>> /\ coverage' = "saturated" /\ pc' = "advance"
  BY DEF ConfirmExtraction, Answered
<1>3. /\ call \in Stages \X Units /\ call = <<stage, call[2]>> /\ stage \in Stages
      /\ call[2] \in Units /\ calls'[call] = "confirmed" /\ calls[call] = "dispatched"
      /\ \A d \in Stages \X Units : d # call => calls'[d] = calls[d]
  BY <1>1, AnswerFacts
<1>4. stage = "chapter_extraction" BY <1>1 DEF StudyInv, CallOfStage
<1>5. Requestable \subseteq StageUnits("chapter_extraction") /\ Requestable \subseteq Chapters
  BY DEF Requestable, StageUnits, Chapters, StudyInv, TypeOK
<1>6. /\ queue' \in Seq(Chapters) /\ ToSet(queue') \subseteq Requestable
      /\ coverage' \in {"none", "expanding", "saturated"}
      /\ coverage' = "expanding" => ToSet(queue') # {}
  <2>1. ASSUME NEW S \in (SUBSET Requestable) \ {{}}, queue' \in SetToSeqs(S)
        PROVE  queue' \in Seq(Chapters) /\ ToSet(queue') \subseteq Requestable /\ ToSet(queue') # {}
    BY <1>5, <2>1, OrdersAreQueues
  <2>2. CASE queue' = <<>> /\ coverage' = "saturated"
    <3>1. ToSet(queue') = {} BY <2>2 DEF ToSet
    <3>2. queue' \in Seq(Chapters) BY <2>2
    <3> QED BY <2>2, <3>1, <3>2
  <2>3. CASE coverage' = "expanding" /\ \E S \in (SUBSET Requestable) \ {{}} : queue' \in SetToSeqs(S)
    BY <2>1, <2>3
  <2> QED BY <1>2, <2>2, <2>3
<1>7. TypeOK' /\ SentOnce' /\ Phases' /\ Authorized' /\ ReadWithin' /\ CallOfStage'
  <2>1. titles' \subseteq Works BY <1>1 DEF StudyInv, TypeOK
  <2>2. ToSet(queue') \subseteq StageUnits("chapter_extraction") BY <1>5, <1>6
  <2>3. pc' \in {"idle", "loop", "advance"} BY <1>2
  <2> QED BY <1>1, <1>4, <1>6, <2>1, <2>2, <2>3, OutcomePreserves
<1>8. PassedWhole'
  <2>1. call[2] \in Confirmed(stage)' BY <1>1, <1>3 DEF Confirmed
  <2>2. pc' = "advance" => StageWhole(stage)'
    <3>1. CASE coverage' = "saturated" BY <1>1, <1>4, <2>1, <3>1 DEF StageWhole
    <3>2. CASE coverage' = "expanding"
      <4> SUFFICES ASSUME pc' = "advance" PROVE StageWhole(stage)' OBVIOUS
      <4>1. StageDone BY <1>2, <3>2
      <4>2. StageUnits(stage)' \subseteq Confirmed(stage)' BY <1>1, <1>4, <4>1, LastAnswerMakesWhole
      <4> QED BY <1>1, <1>4, <3>2, <4>2 DEF StageWhole
    <3> QED BY <1>2, <3>1, <3>2
  <2> QED BY <1>1, <1>4, <2>2, PassedStaysWhole
<1>9. ExtractionGoesOn'
  <2> SUFFICES ASSUME pc' = "loop" PROVE Pending' # {} BY <1>2 DEF ExtractionGoesOn
  <2>1. PICK u \in ToSet(queue') : u \in Requestable BY <1>2, <1>6
  <2>2. u \in Units /\ u # call[2] /\ u \notin Confirmed(stage)
    BY <1>4, <1>5, <2>1 DEF Requestable, Units
  <2>3. calls'[<<stage, u>>] = calls[<<stage, u>>]
    <3>1. <<stage, u>> # call /\ <<stage, u>> \in Stages \X Units BY <1>3, <2>2
    <3> QED BY <1>3, <3>1
  <2>4. u \notin Confirmed(stage)' BY <1>1, <2>2, <2>3 DEF Confirmed
  <2>5. ~ \A v \in Units : calls'[<<stage', v>>] = "none" BY <1>1, <1>3
  <2>6. UnitsToSend' = ToSet(queue)' BY <1>1, <1>4, <2>5 DEF UnitsToSend
  <2>7. ToSet(queue)' = ToSet(queue') BY DEF ToSet
  <2> QED BY <2>1, <2>4, <2>6, <2>7 DEF Pending
<1> QED BY <1>7, <1>8, <1>9 DEF StudyInv

\* A unit of any other stage is answered.
LEMMA StagePreserves ==
  ASSUME StudyInv, ConfirmStage
  PROVE  StudyInv'
<1>1. /\ call[1] # "chapter_extraction" /\ pc = "sent"
      /\ calls' = [calls EXCEPT ![call] = "confirmed"]
      /\ pc' = (IF StageDone THEN "advance" ELSE "loop")
      /\ UNCHANGED <<status, selection, stage, queue, coverage, authorizations, pack, call, jobs, inputs,
                     sent, crashes>>
  BY DEF ConfirmStage, Answered
<1>2. titles' \subseteq Works BY DEF ConfirmStage, Sources, StudyInv, TypeOK
<1>3. stage # "chapter_extraction" BY <1>1 DEF StudyInv, CallOfStage
<1>4. TypeOK' /\ SentOnce' /\ Phases' /\ Authorized' /\ ReadWithin' /\ CallOfStage'
  <2>1. /\ queue' \in Seq(Chapters) /\ ToSet(queue') \subseteq StageUnits("chapter_extraction")
        /\ coverage' \in {"none", "expanding", "saturated"} /\ pc' \in {"idle", "loop", "advance"}
    BY <1>1 DEF StudyInv, TypeOK, ReadWithin
  <2> QED BY <1>1, <1>2, <2>1, OutcomePreserves
<1>5. PassedWhole'
  <2>1. pc' = "advance" /\ stage # "golden_three" => StageWhole(stage)'
    <3> SUFFICES ASSUME pc' = "advance", stage # "golden_three" PROVE StageWhole(stage)' OBVIOUS
    <3>1. StageUnits(stage)' \subseteq Confirmed(stage)' BY <1>1, LastAnswerMakesWhole
    <3> QED BY <1>1, <1>3, <3>1 DEF StageWhole
  <2> QED BY <1>1, <2>1, PassedStaysWhole
<1>6. ExtractionGoesOn' BY <1>1, <1>3 DEF ExtractionGoesOn
<1> QED BY <1>4, <1>5, <1>6 DEF StudyInv

\* A stage is left for the next one when it has what it needs.
LEMMA AdvancePreserves ==
  ASSUME StudyInv, pc \in {"loop", "advance"}, AdvanceStage, pc' \in {"idle", "loop"},
         UNCHANGED <<selection, calls, queue, coverage, authorizations, titles, call, jobs, inputs, sent,
                     crashes>>,
         stage # "golden_three" => StageWhole(stage)
  PROVE  StudyInv'
<1>1. stage \in Stages BY DEF StudyInv, Phases, TypeOK
<1>2. /\ \A s : StageUnits(s)' = StageUnits(s)
      /\ \A s : Confirmed(s)' = Confirmed(s)
  BY SameUnits DEF Confirmed
<1>3. \A s : StageWhole(s)' = StageWhole(s) BY <1>2 DEF StageWhole
<1>4. /\ stage' \in Stages /\ (stage' = "golden_three" <=> stage = "golden_three")
      /\ stage' # "chapter_extraction"
      /\ Passed(stage') \subseteq Passed(stage) \cup {stage}
      /\ stage = "golden_three" => status' = "paused_golden_three"
      /\ stage # "golden_three" =>
           \/ status' = "running"
           \/ stage = "style_profile" /\ stage' = stage /\ status' \in {status, "complete"}
      /\ pack' \in [sources : SUBSET Works, titles : SUBSET Works]
  <2>1. pack \in [sources : SUBSET Works, titles : SUBSET Works] /\ titles \subseteq Works /\ Sources \subseteq Works
    BY DEF StudyInv, TypeOK, Sources
  <2>2. CASE stage = "golden_three" /\ status' = "paused_golden_three" /\ UNCHANGED <<stage, pack>>
    BY <2>1, <2>2, <1>1 DEF Passed
  <2>3. CASE /\ stage \notin {"golden_three", "style_profile"}
             /\ stage' = NextStage(stage) /\ status' = "running" /\ UNCHANGED pack
    <3>1. CASE stage = "chapter_extraction" BY <2>1, <2>3, <3>1, NextStages, TheStages DEF Passed
    <3>2. CASE stage = "aggregate_mechanisms" BY <2>1, <2>3, <3>2, NextStages, TheStages DEF Passed
    <3>3. CASE stage = "story_entities" BY <2>1, <2>3, <3>3, NextStages, TheStages DEF Passed
    <3>4. CASE stage = "report" BY <2>1, <2>3, <3>4, NextStages, TheStages DEF Passed
    <3> QED BY <1>1, <2>3, <3>1, <3>2, <3>3, <3>4, TheStages
  <2>4. CASE stage = "style_profile" /\ FinishPack /\ UNCHANGED stage
    BY <2>1, <2>4, <1>1 DEF Passed, FinishPack
  <2> QED BY <2>2, <2>3, <2>4 DEF AdvanceStage
<1>5. TypeOK' BY <1>1, <1>4 DEF StudyInv, TypeOK, Statuses, inputs
<1>6. SentOnce' BY DEF StudyInv, SentOnce
<1>7. Phases' BY <1>1, <1>4, TheStages DEF StudyInv, Phases
<1>8. Authorized' BY <1>1, <1>4, TheStages DEF StudyInv, Authorized, ReadOnlyAfterAuthorization
<1>9. ReadWithin' BY <1>2 DEF StudyInv, ReadWithin, ToSet
<1>10. CallOfStage' BY DEF CallOfStage
<1>11. PassedWhole'
  <2>1. Passed(stage)' = Passed(stage') BY DEF Passed
  <2>2. \A s \in Passed(stage') : StageWhole(s)
    <3>1. CASE stage = "golden_three" BY <1>4, <3>1 DEF Passed
    <3>2. CASE stage # "golden_three" BY <1>4, <3>2 DEF StudyInv, PassedWhole
    <3> QED BY <3>1, <3>2
  <2>3. \A s \in Passed(stage)' : StageWhole(s)' BY <1>3, <2>1, <2>2
  <2>4. status' = "complete" => StageWhole(stage)'
    <3> SUFFICES ASSUME status' = "complete" PROVE StageWhole(stage)' OBVIOUS
    <3>1. stage' = stage /\ stage = "style_profile" BY <1>4
    <3>2. StageWhole(stage) BY <3>1
    <3> QED BY <1>2, <3>1, <3>2 DEF StageWhole
  <2> QED BY <2>3, <2>4 DEF PassedWhole
<1>12. ExtractionGoesOn' BY <1>4 DEF ExtractionGoesOn
<1> QED BY <1>5, <1>6, <1>7, <1>8, <1>9, <1>10, <1>11, <1>12 DEF StudyInv

\* A stage without a unit to send is left; an extraction is not.
LEMMA NothingPreserves ==
  ASSUME StudyInv, DispatchNothing
  PROVE  StudyInv'
<1>1. /\ pc = "loop" /\ Executable /\ Pending = {} /\ pc' = "idle"
      /\ UNCHANGED <<selection, calls, queue, coverage, authorizations, titles, call, jobs, inputs, sent,
                     crashes>>
  BY DEF DispatchNothing
<1>2. CASE stage = "chapter_extraction"
  <2>1. UNCHANGED <<status, stage, pack>> BY <1>2 DEF DispatchNothing
  <2>2. UNCHANGED <<selection, stage, calls, queue>> BY <1>1, <2>1
  <2>3. /\ \A s : StageUnits(s)' = StageUnits(s) /\ Confirmed(s)' = Confirmed(s)
        /\ Pending' = Pending /\ Lost' = Lost
    BY <2>2, SameStudy
  <2>4. TypeOK' /\ SentOnce' /\ Phases' /\ Authorized' /\ CallOfStage'
    BY <1>1, <2>1
    DEF StudyInv, TypeOK, SentOnce, Phases, Authorized, ReadOnlyAfterAuthorization, CallOfStage, inputs
  <2>5. ReadWithin' BY <1>1, <2>3 DEF StudyInv, ReadWithin, ToSet
  <2>6. PassedWhole' BY <1>1, <1>2, <2>1 DEF StudyInv, PassedWhole, Passed, Phases
  <2>7. ExtractionGoesOn' BY <1>1, <2>1, <2>3 DEF StudyInv, ExtractionGoesOn
  <2> QED BY <2>4, <2>5, <2>6, <2>7 DEF StudyInv
<1>3. CASE stage # "chapter_extraction"
  <2>1. AdvanceStage BY <1>3 DEF DispatchNothing
  <2>2. StageWhole(stage) BY <1>1, <1>3 DEF StageWhole, Pending, UnitsToSend
  <2> QED BY <1>1, <2>1, <2>2, AdvancePreserves
<1> QED BY <1>2, <1>3

\* The stage of the last answer is left.
LEMMA LeavePreserves ==
  ASSUME StudyInv, Advance
  PROVE  StudyInv'
<1>1. /\ pc = "advance" /\ AdvanceStage /\ pc' \in {"idle", "loop"}
      /\ UNCHANGED <<selection, calls, queue, coverage, authorizations, titles, call, jobs, inputs, sent,
                     crashes>>
  BY DEF Advance
<1>2. stage # "golden_three" => StageWhole(stage) BY <1>1 DEF StudyInv, PassedWhole
<1> QED BY <1>1, <1>2, AdvancePreserves

(***************************************************************************)
(* What a study promises                                                   *)
(***************************************************************************)

\* Whatever is requested, answered, lost or interrupted, the calls, the stage
\* and the answers of a study fit together (corpus_study_execute).
THEOREM StudyInvariant == Spec => []StudyInv
<1>1. StudyInv /\ [Next]_vars => StudyInv'
  <2> SUFFICES ASSUME StudyInv, [Next]_vars PROVE StudyInv' OBVIOUS
  <2>1. CASE ProposeSelection \/ \E S \in SUBSET Works : ConfirmSelection(S) BY <2>1, SelectionPreserves
  <2>2. CASE \/ CancelStudy \/ Start \/ End \/ DispatchRefused \/ RefuseAnswer \/ Crash \/ EditSources
             \/ UNCHANGED vars
    BY <2>2, RequestPreserves
  <2>3. CASE ContinueAfterGoldenThree BY <2>3, ContinuePreserves
  <2>4. CASE DispatchUnit BY <2>4, DispatchPreserves
  <2>5. CASE DispatchNothing BY <2>5, NothingPreserves
  <2>6. CASE ConfirmExtraction BY <2>6, ExtractionPreserves
  <2>7. CASE ConfirmStage BY <2>7, StagePreserves
  <2>8. CASE MarkStageUnconfirmed BY <2>8, UnconfirmedPreserves
  <2>9. CASE Advance BY <2>9, LeavePreserves
  <2> QED BY <2>1, <2>2, <2>3, <2>4, <2>5, <2>6, <2>7, <2>8, <2>9 DEF Next
<1> QED BY <1>1, StudyInit, PTL DEF Spec

\* The study and its calls stay well typed (corpus.sql).
THEOREM StudyTyped == Spec => []TypeOK
<1>1. StudyInv => TypeOK BY DEF StudyInv
<1> QED BY <1>1, StudyInvariant, PTL

\* dispatch_next_stage never sends a unit to the model a second time, however
\* often a study is interrupted, resumed or confirmed again.
THEOREM SentOnlyOnce == Spec => []SentAtMostOnce
<1>1. StudyInv => SentAtMostOnce
  <2> SUFFICES ASSUME StudyInv, NEW c \in Stages \X Units PROVE sent[c] <= 1 BY DEF SentAtMostOnce
  <2>1. sent[c] = 0 \/ sent[c] = 1 BY DEF StudyInv, SentOnce
  <2> QED BY <2>1
<1> QED BY <1>1, StudyInvariant, PTL

\* Nothing beyond the first chapters is read before the author allowed it, and
\* a pack has an answer for every unit of the selected works, the extraction
\* for as much as it asked for (continue_after_golden_three, finish_pack).
THEOREM StudiesAreAllowed == Spec => []StudiedAsAllowed
<1>1. StudyInv => StudiedAsAllowed
  <2> SUFFICES ASSUME StudyInv PROVE StudiedAsAllowed OBVIOUS
  <2>1. ReadOnlyAfterAuthorization BY DEF StudyInv, Authorized
  <2>2. ASSUME status = "complete", NEW s \in Stages \ {"golden_three"} PROVE StageWhole(s)
    <3>1. stage = "style_profile" BY <2>2 DEF StudyInv, Phases
    <3>2. s \in Passed(stage) \cup {stage} BY <3>1, TheStages DEF Passed
    <3> QED BY <2>2, <3>2 DEF StudyInv, PassedWhole
  <2>3. PackFromWholeStudy BY <2>2 DEF PackFromWholeStudy, StageWhole
  <2> QED BY <2>1, <2>3 DEF StudiedAsAllowed
<1> QED BY <1>1, StudyInvariant, PTL

\* A running study goes on with the next request of corpus_study_execute unless
\* a call was lost, the pack was refused, the file of the next unit is not the
\* one that was scanned, its input is too long, or a crash came between the
\* last answer of the extraction and the step to the next stage.  That the next
\* unit is outside the selection is no further reason: SendWithin.
THEOREM StuckForCauseOnly == Spec => []StuckOnlyForCause
<1>1. StudyInv => StuckOnlyForCause
  <2> SUFFICES ASSUME StudyInv, pc = "idle", status \in {"confirmed", "running"}, Lost = {}, ~Leaks,
                      ~(Pending # {} /\ (SourceChanged(NextUnit) \/ TooLong(NextUnit))),
                      ~(crashes > 0 /\ stage = "chapter_extraction" /\ Pending = {})
               PROVE  CanProgress
    BY DEF StuckOnlyForCause
  <2>1. stage \in Stages BY DEF StudyInv, TypeOK, Phases
  <2>2. CASE Pending = {}
    <3>1. crashes \in Nat BY DEF StudyInv, TypeOK
    <3>2. stage = "chapter_extraction" => status = "running" BY DEF StudyInv, Phases
    <3>3. stage # "chapter_extraction" BY <2>2, <3>1, <3>2 DEF StudyInv, ExtractionGoesOn
    <3> QED BY <2>2, <3>3 DEF CanProgress
  <2>3. CASE Pending # {}
    <3>1. NextUnit \in Pending /\ NextUnit \in Units BY <2>1, <2>3, NextIsPending, TheStages
    <3>2. <<stage, NextUnit>> \in Stages \X Units BY <2>1, <3>1
    <3>3. calls[<<stage, NextUnit>>] \in {"none", "dispatched", "confirmed", "unconfirmed"}
      BY <3>2 DEF StudyInv, TypeOK
    <3>4. calls[<<stage, NextUnit>>] \notin {"dispatched", "unconfirmed"} BY <3>2 DEF Lost
    <3>5. calls[<<stage, NextUnit>>] # "confirmed" BY <3>1 DEF Pending, Confirmed
    <3>6. NextUnit \in StageUnits(stage) BY <2>1, <2>3, NextIsPending, TheStages
    <3>7. ReadsText => NextUnit[1] \in selection
      BY <3>6 DEF ReadsText, StageUnits, Whole, ChunksOf
    <3>8. InputAccepted(NextUnit) BY <2>3, <3>7 DEF InputAccepted, OutsideSelection
    <3> QED BY <2>3, <3>3, <3>4, <3>5, <3>8 DEF CanProgress, Sendable
  <2> QED BY <2>2, <2>3
<1> QED BY <1>1, StudyInvariant, PTL
=============================================================================
