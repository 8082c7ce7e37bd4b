------------------------- MODULE HostedVersionsProofs -------------------------
(***************************************************************************)
(* Proofs about HostedVersions, for any number of contents, operations and *)
(* requests, and any capacity.                                             *)
(*                                                                         *)
(* The argument: pointer versions only grow and each names one pointer, so *)
(* a request that has read the current version has read the current        *)
(* pointer (SeenOK); and the record of the active version was prepared for *)
(* the pointer version before it (ActiveOK), so a late compare-and-set of  *)
(* the active version finds it active and never orphans it.                *)
(*                                                                         *)
(* A record is made with a receipt, and both go with its collection, so    *)
(* the records are never more than the receipts (HistoryInv). A version    *)
(* is collected only after its record was marked, so an upload whose       *)
(* object a collection deletes finds the mark or comes after it            *)
(* (CollectedInv, StoredInv); and a receipt names the pointer version that *)
(* its upload replaces, so a repeated upload finds the pointer it made or  *)
(* a later one (OnceInv, BehindInv).                                       *)
(***************************************************************************)
EXTENDS HostedVersions, FiniteSetTheorems, TLAPS

\* The pointer of a project: absent, or naming a version.
PointerOK ==
  /\ pointer.state = "absent" => pointer = NoPointer
  /\ pointer.state # "absent" => pointer.pv > 0 /\ pointer.version \in Versions

\* The active record was prepared for the previous pointer.
ActiveOK ==
  pointer.state = "active" => records[pointer.version].expected = pointer.pv - 1

\* What a request has read is the past or the present pointer.
SeenOK ==
  \A q \in Requests :
    LET seen == req[q].seen
    IN /\ seen.state = "absent" => seen = NoPointer
       /\ seen.state = "active" => seen.pv > 0
       /\ seen.pv <= pointer.pv
       /\ req[q].pc \in {"put", "prepare", "cas", "previous", "tombstone"} /\ seen.pv = pointer.pv
            => seen = pointer

\* A request that uploads or collects has a version and an operation.
NamedOK ==
  \A q \in Requests :
    /\ req[q].pc \in {"put", "prepare", "cas", "gc_begin", "gc_delete", "gc_finish"}
         => req[q].version \in Versions
    /\ req[q].pc # "idle" => req[q].op \in Operations

\* The inductive invariant.
IInv == TypeOK /\ PointerOK /\ PointerBacked /\ ActiveOK /\ SeenOK /\ NamedOK

\* Everything IInv says of the coordinator and the bucket.
StateTypeOK ==
  /\ pointer \in Pointers
  /\ records \in [Versions -> Records]
  /\ prepared \in [Operations -> Preparations]
  /\ gcs \in [Operations -> GcReceipts]
  /\ tombstones \in [Operations -> Pointers]
  /\ objects \subseteq Versions
  /\ activated \subseteq Operations \X Nat \X Versions
  /\ collected \subseteq Versions
StateOK == StateTypeOK /\ PointerOK /\ PointerBacked /\ ActiveOK
RequestsOK == req \in [Requests -> RequestStates] /\ received \in Nat /\ SeenOK /\ NamedOK

\* The inductive invariant in two parts, before and after a step.
LEMMA Split == IInv <=> StateOK /\ RequestsOK
BY DEF IInv, StateOK, StateTypeOK, RequestsOK, TypeOK

\* The same for the state after a step.
LEMMA SplitNext == IInv' <=> StateOK' /\ RequestsOK'
BY DEF IInv, StateOK, StateTypeOK, RequestsOK, TypeOK

\* The initial state satisfies the inductive invariant.
LEMMA InitIInv == Init => IInv
<1> SUFFICES ASSUME Init PROVE IInv
  OBVIOUS
<1>1. NoPointer \in Pointers /\ NoRecord \in Records /\ NoPreparation \in Preparations
      /\ NoGc \in GcReceipts /\ IdleRequest \in RequestStates
  BY DEF NoPointer, Pointers, NoRecord, Records, Statuses, NoPreparation, Preparations,
         NoGc, GcReceipts, IdleRequest, RequestStates, Pcs
<1>2. TypeOK
  BY <1>1 DEF Init, TypeOK
<1>3. PointerOK /\ ActiveOK
  BY DEF Init, PointerOK, ActiveOK, NoPointer
<1>4. PointerBacked
  BY DEF Init, PointerBacked, NoPointer, NoRecord
<1>5. SeenOK /\ NamedOK
  BY DEF Init, SeenOK, NamedOK, NoPointer, IdleRequest
<1> QED BY <1>2, <1>3, <1>4, <1>5 DEF IInv

(***************************************************************************)
(* Requests                                                                *)
(***************************************************************************)

\* A request that is answered, or goes on without losing its right to what it
\* has read, keeps RequestsOK when the pointer stays.
LEMMA GoToOK ==
  ASSUME IInv, NEW q \in Requests, NEW pc \in Pcs, GoTo(q, pc), req[q].pc # "idle",
         pc \in {"put", "prepare", "cas", "gc_begin", "gc_delete", "gc_finish"}
           => req[q].version \in Versions,
         pc \in {"put", "prepare", "cas", "previous", "tombstone"}
           => req[q].pc \in {"put", "prepare", "cas", "previous", "tombstone"},
         UNCHANGED pointer
  PROVE  RequestsOK'
<1>1. req \in [Requests -> RequestStates] /\ received \in Nat /\ pointer \in Pointers
  BY DEF IInv, TypeOK
<1>2. IdleRequest \in RequestStates /\ NoPointer.pv <= pointer.pv
  BY <1>1 DEF NoPointer, Pointers, IdleRequest, RequestStates, Pcs
<1>3. [req[q] EXCEPT !.pc = pc] \in RequestStates
  BY <1>1 DEF RequestStates
<1>4. req' \in [Requests -> RequestStates] /\ received' \in Nat
  BY <1>1, <1>2, <1>3 DEF GoTo
<1>5. \A r \in Requests : r # q => req'[r] = req[r]
  BY <1>1 DEF GoTo
<1>6. req'[q] = IF pc = "idle" THEN IdleRequest ELSE [req[q] EXCEPT !.pc = pc]
  BY <1>1 DEF GoTo
<1>7. CASE pc = "idle"
  <2>1. req'[q].pc = "idle" /\ req'[q].seen = NoPointer
    BY <1>6, <1>7 DEF IdleRequest
  <2>2. SeenOK'
    BY <1>2, <1>5, <2>1 DEF IInv, SeenOK, NoPointer
  <2>3. NamedOK'
    BY <1>5, <2>1 DEF IInv, NamedOK
  <2> QED BY <1>4, <2>2, <2>3 DEF RequestsOK
<1>8. CASE pc # "idle"
  <2>1. /\ req'[q].pc = pc /\ req'[q].seen = req[q].seen /\ req'[q].version = req[q].version
        /\ req'[q].op = req[q].op
    BY <1>1, <1>6, <1>8 DEF RequestStates
  <2>2. SeenOK'
    BY <1>5, <2>1 DEF IInv, SeenOK
  <2>3. NamedOK'
    BY <1>5, <2>1 DEF IInv, NamedOK
  <2> QED BY <1>4, <2>2, <2>3 DEF RequestsOK
<1> QED BY <1>7, <1>8

\* A new request has read the current pointer, or none.
LEMMA ReceiveOK ==
  ASSUME IInv, NEW q \in Requests, NEW request \in RequestStates, Receive(q, request),
         request.pc # "idle", request.op \in Operations,
         request.pc # "previous" => request.version \in Versions,
         request.seen = pointer \/ (request.seen = NoPointer /\ request.pc = "gc_begin")
  PROVE  RequestsOK'
<1>1. /\ req' = [req EXCEPT ![q] = request] /\ received' \in Nat /\ UNCHANGED pointer
      /\ req \in [Requests -> RequestStates] /\ pointer \in Pointers
  BY DEF IInv, TypeOK, Receive, coordinatorVars
<1>2. req' \in [Requests -> RequestStates]
  BY <1>1
<1>3. req'[q] = request /\ \A r \in Requests : r # q => req'[r] = req[r]
  BY <1>1
<1>4. SeenOK'
  BY <1>1, <1>3 DEF IInv, SeenOK, PointerOK, NoPointer, Pointers
<1>5. NamedOK'
  BY <1>3 DEF IInv, NamedOK
<1> QED BY <1>1, <1>2, <1>4, <1>5 DEF RequestsOK

\* A step that moves the pointer makes what others have read the past.
LEMMA MoveOK ==
  ASSUME IInv, NEW q \in Requests, NEW pc \in {"idle", "delete"}, GoTo(q, pc),
         req[q].pc # "idle", pointer' \in Pointers, pointer'.pv = pointer.pv + 1
  PROVE  RequestsOK'
<1>1. req \in [Requests -> RequestStates] /\ received \in Nat /\ pointer \in Pointers
  BY DEF IInv, TypeOK
<1>2. pointer.pv \in Nat /\ \A r \in Requests : req[r].seen.pv \in Nat
  BY <1>1 DEF Pointers, RequestStates
<1>3. IdleRequest \in RequestStates /\ [req[q] EXCEPT !.pc = pc] \in RequestStates
  BY <1>1 DEF NoPointer, Pointers, IdleRequest, RequestStates, Pcs
<1>4. req' \in [Requests -> RequestStates] /\ received' \in Nat
  BY <1>1, <1>3 DEF GoTo
<1>5. \A r \in Requests : r # q => req'[r] = req[r]
  BY <1>1 DEF GoTo
<1>6. /\ req'[q].pc = pc
      /\ req'[q].seen \in {NoPointer, req[q].seen}
      /\ pc = "delete" => req'[q].op = req[q].op
  BY <1>1 DEF GoTo, IdleRequest, RequestStates
<1>7. SeenOK'
  <2>1. ASSUME NEW r \in Requests
        PROVE  LET seen == req'[r].seen
               IN /\ seen.state = "absent" => seen = NoPointer
                  /\ seen.state = "active" => seen.pv > 0
                  /\ seen.pv <= pointer.pv
    BY <1>2, <1>5, <1>6 DEF IInv, SeenOK, NoPointer
  <2>2. \A r \in Requests : req'[r].seen.pv \in Nat
    BY <1>4 DEF RequestStates, Pointers
  <2> QED BY <1>2, <2>1, <2>2 DEF SeenOK
<1>8. NamedOK'
  BY <1>5, <1>6 DEF IInv, NamedOK
<1> QED BY <1>4, <1>7, <1>8 DEF RequestsOK

\* The pointer version an upload expects.
LEMMA ExpectedNat ==
  ASSUME IInv, NEW q \in Requests
  PROVE  /\ Expected(q) \in Nat
         /\ Expected(q) = pointer.pv /\ req[q].pc = "cas" => req[q].seen = pointer
<1>1. /\ req[q].seen \in Pointers /\ pointer \in Pointers
      /\ req[q].seen.state = "active" => req[q].seen.pv > 0
      /\ req[q].seen.pv <= pointer.pv
      /\ req[q].pc = "cas" /\ req[q].seen.pv = pointer.pv => req[q].seen = pointer
  BY DEF IInv, TypeOK, RequestStates, SeenOK
<1> QED BY <1>1 DEF Expected, Pointers

(***************************************************************************)
(* The coordinator                                                         *)
(***************************************************************************)

\* A step that leaves pointer and records alone.
LEMMA QuietOK ==
  ASSUME IInv, UNCHANGED <<pointer, records>>, StateTypeOK'
  PROVE  StateOK'
BY DEF IInv, StateOK, PointerOK, PointerBacked, ActiveOK

\* A step that gives one record the pointer does not name another status that
\* is not active, the pointer staying.
LEMMA UnnamedOK ==
  ASSUME IInv, UNCHANGED pointer, StateTypeOK', NEW v \in Versions,
         NEW record \in Records, records' = [records EXCEPT ![v] = record],
         record.status # "active", pointer.version # v
  PROVE  StateOK'
<1>1. \A u \in Versions : records'[u] = IF u = v THEN record ELSE records[u]
  BY DEF IInv, TypeOK
<1>2. PointerOK'
  BY DEF IInv, PointerOK
<1>3. PointerBacked'
  BY <1>1 DEF IInv, PointerBacked
<1>4. ActiveOK'
  BY <1>1 DEF IInv, ActiveOK, PointerOK
<1> QED BY <1>2, <1>3, <1>4 DEF StateOK

\* prepareProjectVersion.
LEMMA PrepareStep ==
  ASSUME IInv, NEW q \in Requests, PrepareProjectVersion(q)
  PROVE  IInv'
<1> DEFINE v == req[q].version
           receipt == [version |-> v, expected |-> Expected(q)]
<1>1. /\ TypeOK /\ req[q].pc = "prepare" /\ v \in Versions /\ req[q].op \in Operations
      /\ Expected(q) \in Nat /\ receipt \in Preparations
  BY ExpectedNat DEF IInv, NamedOK, PrepareProjectVersion, Preparations
<1>2. \A pc \in {"idle", "cas"} : pc \in Pcs
  BY DEF Pcs
<1>3. CASE PrepareAgain(q)
  <2>1. UNCHANGED <<coordinatorVars, objects, effects>>
        /\ \E pc \in {"idle", "cas"} : GoTo(q, pc)
    BY <1>3 DEF PrepareAgain, Done
  <2>2. StateOK'
    BY <1>1, <2>1, QuietOK DEF StateTypeOK, TypeOK, effects, coordinatorVars
  <2>3. RequestsOK'
    BY <1>1, <1>2, <2>1, GoToOK DEF coordinatorVars
  <2> QED BY <2>2, <2>3, SplitNext
<1>4. CASE PrepareRecorded(q)
  <2>1. /\ UNCHANGED <<pointer, records, gcs, tombstones, objects, effects>>
        /\ prepared' = [prepared EXCEPT ![req[q].op] = receipt] \/ UNCHANGED prepared
        /\ \E pc \in {"idle", "cas"} : GoTo(q, pc)
    BY <1>4 DEF PrepareRecorded, Done
  <2>2. StateTypeOK'
    BY <1>1, <2>1 DEF StateTypeOK, TypeOK, effects
  <2>3. RequestsOK'
    BY <1>1, <1>2, <2>1, GoToOK
  <2> QED BY <2>1, <2>2, <2>3, QuietOK, SplitNext
<1>5. CASE PrepareNew(q)
  <2>1. PICK s \in {"orphan", "prepared"} :
          LET record == [status |-> s, expected |-> Expected(q), op |-> req[q].op, old |-> FALSE]
          IN \/ /\ records' = [records EXCEPT ![v] = record]
                /\ prepared' = [prepared EXCEPT ![req[q].op] = receipt]
             \/ UNCHANGED <<records, prepared>>
    BY <1>5 DEF PrepareNew
  <2>2. /\ UNCHANGED <<pointer, gcs, tombstones, objects, effects>>
        /\ records[v].status = "absent"
        /\ \E pc \in {"idle", "cas"} : GoTo(q, pc)
    BY <1>5 DEF PrepareNew, Done
  <2> DEFINE record == [status |-> s, expected |-> Expected(q), op |-> req[q].op, old |-> FALSE]
  <2>3. record \in Records /\ record.status # "active"
    BY <1>1 DEF Records, Statuses
  <2>4. RequestsOK'
    BY <1>1, <1>2, <2>2, GoToOK
  <2>5. pointer.version # v
    BY <1>1, <2>2, HostedVersionsAssumption
       DEF IInv, PointerOK, PointerBacked, TypeOK, Pointers, NoPointer
  <2>6. StateTypeOK'
    <3>1. records' \in [Versions -> Records]
      BY <1>1, <2>1, <2>3 DEF TypeOK
    <3>2. prepared' \in [Operations -> Preparations]
      BY <1>1, <2>1 DEF TypeOK
    <3> QED BY <1>1, <2>2, <3>1, <3>2 DEF StateTypeOK, TypeOK, effects
  <2>7. StateOK'
    <3>1. CASE records' = [records EXCEPT ![v] = record]
      BY <1>1, <2>2, <2>3, <2>5, <2>6, <3>1, UnnamedOK
    <3>2. CASE UNCHANGED <<records, prepared>>
      BY <2>2, <2>6, <3>2, QuietOK
    <3> QED BY <2>1, <3>1, <3>2
  <2> QED BY <2>4, <2>7, SplitNext
<1> QED BY <1>3, <1>4, <1>5 DEF PrepareProjectVersion

\* casProjectPointer.
LEMMA CasStep ==
  ASSUME IInv, NEW q \in Requests, CasProjectPointer(q)
  PROVE  /\ IInv'
         /\ pointer' # pointer => pointer'.pv = pointer.pv + 1 /\ req[q].seen = pointer
<1> DEFINE v == req[q].version
<1>1. /\ TypeOK /\ req[q].pc = "cas" /\ v \in Versions /\ req[q].op \in Operations
      /\ Expected(q) \in Nat /\ Expected(q) = pointer.pv => req[q].seen = pointer
  BY ExpectedNat DEF IInv, NamedOK, CasProjectPointer
<1>2. GoTo(q, "idle") /\ UNCHANGED <<prepared, gcs, tombstones, objects, collected>>
  BY DEF CasProjectPointer, Done
<1>3. "idle" \in Pcs
  BY DEF Pcs
<1>4. CASE UNCHANGED <<pointer, records, activated>>
  <2>1. RequestsOK'
    BY <1>1, <1>2, <1>3, <1>4, GoToOK
  <2>2. StateOK'
    BY <1>1, <1>2, <1>4, QuietOK DEF StateTypeOK, TypeOK, effects
  <2> QED BY <1>4, <2>1, <2>2, SplitNext
<1>5. CASE Castable(q) /\ ~AlreadyActive(q) /\ CasStale(q)
  <2> DEFINE record == [records[v] EXCEPT !.status = "orphan"]
  <2>1. /\ UNCHANGED <<pointer, activated>> /\ records' = [records EXCEPT ![v] = record]
        /\ records[v].expected = Expected(q)
    BY <1>1, <1>5 DEF CasStale, Castable, SetStatus
  <2>2. record \in Records /\ record.status = "orphan" /\ record.expected = records[v].expected
    BY <1>1 DEF TypeOK, Records, Statuses
  <2>3. RequestsOK'
    BY <1>1, <1>2, <1>3, <2>1, GoToOK
  <2>4. StateTypeOK'
    BY <1>1, <1>2, <2>1, <2>2 DEF StateTypeOK, TypeOK, effects
  <2>5. ~(pointer.state = "active" /\ pointer.version = v)
    <3>1. pointer.pv \in Nat
      BY <1>1 DEF TypeOK, Pointers
    <3> QED BY <1>1, <1>5, <2>1, <3>1 DEF IInv, ActiveOK, AlreadyActive
  <2>6. \A u \in Versions : records'[u] = IF u = v THEN record ELSE records[u]
    BY <1>1, <2>1 DEF TypeOK
  <2>7. PointerBacked'
    BY <2>1, <2>2, <2>5, <2>6 DEF IInv, PointerBacked
  <2>8. ActiveOK'
    BY <2>1, <2>5, <2>6 DEF IInv, ActiveOK, PointerOK
  <2>9. PointerOK'
    BY <2>1 DEF IInv, PointerOK
  <2> QED BY <2>1, <2>3, <2>4, <2>7, <2>8, <2>9, SplitNext DEF StateOK
<1>6. CASE Castable(q) /\ ~AlreadyActive(q) /\ CasCurrent(q)
  <2>1. /\ pointer.pv = Expected(q) /\ records[v].expected = Expected(q)
        /\ pointer' = [state |-> "active", pv |-> pointer.pv + 1, version |-> v]
        /\ records' = [u \in Versions |->
                         IF u = v THEN [records[u] EXCEPT !.status = "active"]
                         ELSE IF u = pointer.version THEN [records[u] EXCEPT !.status = "orphan"]
                         ELSE records[u]]
        /\ activated' = activated \cup {<<req[q].op, pointer.pv + 1, v>>}
    BY <1>6 DEF CasCurrent, Castable
  <2>2. pointer' \in Pointers /\ pointer'.pv = pointer.pv + 1 /\ pointer.pv \in Nat
    BY <1>1, <2>1 DEF TypeOK, Pointers
  <2>3. RequestsOK'
    BY <1>1, <1>2, <2>2, MoveOK
  <2>4. \A u \in Versions :
          /\ records'[u] \in Records
          /\ records'[u].expected = records[u].expected
          /\ records'[u].status = IF u = v THEN "active"
                                  ELSE IF u = pointer.version THEN "orphan"
                                  ELSE records[u].status
    BY <1>1, <2>1 DEF TypeOK, Records, Statuses
  <2>5. records' \in [Versions -> Records]
    BY <2>1, <2>4
  <2>6. StateTypeOK'
    BY <1>1, <1>2, <2>1, <2>2, <2>5 DEF StateTypeOK, TypeOK, effects
  <2>7. PointerBacked'
    BY <2>1, <2>4 DEF IInv, PointerBacked
  <2>8. ActiveOK'
    BY <1>1, <2>1, <2>2, <2>4 DEF ActiveOK
  <2>9. PointerOK'
    BY <1>1, <2>1, <2>2 DEF PointerOK
  <2> QED BY <1>1, <2>1, <2>2, <2>3, <2>6, <2>7, <2>8, <2>9, SplitNext DEF StateOK
<1> QED BY <1>4, <1>5, <1>6 DEF CasProjectPointer

\* beginProjectVersionGc.
LEMMA BeginGcStep ==
  ASSUME IInv, NEW q \in Requests, BeginProjectVersionGc(q)
  PROVE  IInv' /\ UNCHANGED pointer
<1> DEFINE v == req[q].version
<1>1. /\ TypeOK /\ req[q].pc = "gc_begin" /\ v \in Versions /\ req[q].op \in Operations
  BY DEF IInv, NamedOK, BeginProjectVersionGc
<1>2. \A pc \in {"idle", "gc_delete"} : pc \in Pcs
  BY DEF Pcs
<1>3. CASE GcAgain(q)
  <2>1. UNCHANGED <<coordinatorVars, objects, effects>>
        /\ \E pc \in {"idle", "gc_delete"} : GoTo(q, pc)
    BY <1>3 DEF GcAgain, Done
  <2>2. StateOK'
    BY <1>1, <2>1, QuietOK DEF StateTypeOK, TypeOK, effects, coordinatorVars
  <2>3. RequestsOK'
    BY <1>1, <1>2, <2>1, GoToOK DEF coordinatorVars
  <2> QED BY <2>1, <2>2, <2>3, SplitNext DEF coordinatorVars
<1>4. CASE GcNew(q)
  <2>1. /\ UNCHANGED <<pointer, prepared, tombstones, objects, activated>>
        /\ \E pc \in {"idle", "gc_delete"} : GoTo(q, pc)
    BY <1>4 DEF GcNew, Done
  <2>2. RequestsOK'
    BY <1>1, <1>2, <2>1, GoToOK
  <2>3. CASE Collectable(v) /\ GcPruned # {}
    <3> DEFINE record == [records[v] EXCEPT !.status = "gc_pending"]
               receipt == [version |-> v, status |-> "pending"]
    <3>1. PICK kept \in GcPruned : gcs' = [kept EXCEPT ![req[q].op] = receipt]
      BY <1>4, <2>3 DEF GcNew
    <3>2. /\ records' = [records EXCEPT ![v] = record] /\ pointer.version # v
          /\ collected' = collected \cup {v}
      BY <1>4, <2>3 DEF GcNew, Collectable, SetStatus
    <3>3. record \in Records /\ record.status # "active"
      BY <1>1 DEF TypeOK, Records, Statuses
    <3>4. kept \in [Operations -> GcReceipts] /\ receipt \in GcReceipts
      BY <1>1, <3>1 DEF TypeOK, GcPruned, NoGc, GcReceipts
    <3>5. StateTypeOK'
      BY <1>1, <2>1, <3>1, <3>2, <3>3, <3>4 DEF StateTypeOK, TypeOK, effects
    <3> QED BY <1>1, <2>1, <2>2, <3>2, <3>3, <3>5, UnnamedOK, SplitNext
  <2>4. CASE ~(Collectable(v) /\ GcPruned # {})
    <3>1. UNCHANGED <<gcs, records, collected>>
      BY <1>4, <2>4 DEF GcNew
    <3>2. StateTypeOK'
      BY <1>1, <2>1, <3>1 DEF StateTypeOK, TypeOK, effects
    <3> QED BY <2>1, <2>2, <3>1, <3>2, QuietOK, SplitNext
  <2> QED BY <2>3, <2>4
<1> QED BY <1>3, <1>4 DEF BeginProjectVersionGc

\* finishProjectVersionGc.
LEMMA FinishGcStep ==
  ASSUME IInv, NEW q \in Requests, FinishProjectVersionGc(q)
  PROVE  IInv' /\ UNCHANGED pointer
<1> DEFINE v == req[q].version
           gone == records[v].status = "absent"
           free == records[v].status = "gc_pending" /\ pointer.version # v
<1>1. /\ TypeOK /\ req[q].pc = "gc_finish" /\ v \in Versions /\ req[q].op \in Operations
      /\ GoTo(q, "idle") /\ "idle" \in Pcs
      /\ UNCHANGED <<pointer, tombstones, objects, effects>>
  BY DEF IInv, NamedOK, FinishProjectVersionGc, Done, Pcs
<1>2. RequestsOK'
  BY <1>1, GoToOK
<1>3. CASE gcs[req[q].op].version = v /\ (gone \/ free)
  <2>1. /\ gcs' = [gcs EXCEPT ![req[q].op].status = "completed"]
        /\ records' = [records EXCEPT ![v] = NoRecord]
        /\ prepared' = [o \in Operations |->
                          IF ~gone /\ o = records[v].op THEN NoPreparation ELSE prepared[o]]
    BY <1>3 DEF FinishProjectVersionGc
  <2>2. NoRecord \in Records /\ NoRecord.status # "active" /\ NoPreparation \in Preparations
    BY DEF NoRecord, Records, Statuses, NoPreparation, Preparations
  <2>3. gcs' \in [Operations -> GcReceipts]
    BY <1>1, <2>1 DEF TypeOK, GcReceipts
  <2>4. StateTypeOK'
    BY <1>1, <2>1, <2>2, <2>3 DEF StateTypeOK, TypeOK, effects
  <2>5. pointer.version # v
    BY <1>1, <1>3, HostedVersionsAssumption
       DEF IInv, PointerOK, PointerBacked, TypeOK, Pointers, NoPointer
  <2> QED BY <1>1, <1>2, <2>1, <2>2, <2>4, <2>5, UnnamedOK, SplitNext
<1>4. CASE ~(gcs[req[q].op].version = v /\ (gone \/ free))
  <2>1. UNCHANGED <<gcs, records, prepared>>
    BY <1>4 DEF FinishProjectVersionGc
  <2>2. StateTypeOK'
    BY <1>1, <2>1 DEF StateTypeOK, TypeOK, effects
  <2> QED BY <1>1, <1>2, <2>1, <2>2, QuietOK, SplitNext
<1> QED BY <1>3, <1>4

\* casProjectTombstone.
LEMMA TombstoneStep ==
  ASSUME IInv, NEW q \in Requests, CasProjectTombstone(q)
  PROVE  /\ IInv'
         /\ pointer' # pointer => pointer'.pv = pointer.pv + 1 /\ req[q].seen = pointer
<1> DEFINE seen == req[q].seen
           v == pointer.version
           next == [state |-> "deleted", pv |-> pointer.pv + 1, version |-> pointer.version]
<1>1. /\ TypeOK /\ req[q].pc = "tombstone" /\ req[q].op \in Operations
      /\ UNCHANGED <<prepared, gcs, objects, effects>>
      /\ seen.pv = pointer.pv => seen = pointer
  BY DEF IInv, NamedOK, SeenOK, CasProjectTombstone
<1>2. \A pc \in {"idle", "delete"} : pc \in Pcs
  BY DEF Pcs
<1>3. CASE UNCHANGED <<pointer, records, tombstones>>
  <2>1. \E pc \in {"idle", "delete"} : GoTo(q, pc)
    BY DEF CasProjectTombstone, Done
  <2>2. RequestsOK'
    BY <1>1, <1>2, <1>3, <2>1, GoToOK
  <2>3. StateTypeOK'
    BY <1>1, <1>3 DEF StateTypeOK, TypeOK, effects
  <2> QED BY <1>3, <2>2, <2>3, QuietOK, SplitNext
<1>4. CASE ~UNCHANGED <<pointer, records, tombstones>>
  <2>1. /\ pointer.state = "active" /\ pointer.pv = seen.pv
        /\ pointer' = next
        /\ tombstones' = [tombstones EXCEPT ![req[q].op] = next]
        /\ records' = IF records[v].status = "absent" THEN records ELSE SetStatus(v, "orphan")
        /\ GoTo(q, "delete")
    BY <1>4 DEF CasProjectTombstone
  <2>2. v \in Versions /\ records[v].status = "active"
    BY <2>1 DEF IInv, PointerOK, PointerBacked
  <2>3. /\ pointer' \in Pointers /\ pointer'.pv = pointer.pv + 1 /\ pointer.pv \in Nat
        /\ pointer'.state = "deleted" /\ pointer'.version = v
    <3>1. pointer \in Pointers /\ pointer.pv \in Nat /\ pointer.pv + 1 \in Nat
      BY <1>1 DEF TypeOK, Pointers
    <3> QED BY <2>1, <2>2, <3>1 DEF Pointers
  <2>4. RequestsOK'
    BY <1>1, <2>1, <2>3, MoveOK
  <2>5. \A u \in Versions :
          /\ records'[u] \in Records
          /\ records'[u].status = IF u = v THEN "orphan" ELSE records[u].status
    BY <1>1, <2>1, <2>2 DEF TypeOK, Records, Statuses, SetStatus
  <2>6. records' \in [Versions -> Records]
    BY <1>1, <2>1, <2>2, <2>5 DEF TypeOK, SetStatus
  <2>7. StateTypeOK'
    BY <1>1, <2>1, <2>3, <2>6 DEF StateTypeOK, TypeOK, effects
  <2>8. PointerBacked'
    BY <2>1, <2>2, <2>3, <2>5 DEF IInv, PointerBacked
  <2>9. PointerOK' /\ ActiveOK'
    BY <2>2, <2>3 DEF PointerOK, ActiveOK
  <2> QED BY <1>1, <2>1, <2>3, <2>4, <2>7, <2>8, <2>9, SplitNext DEF StateOK
<1> QED BY <1>3, <1>4

\* Steps that change the bucket or the request only.
LEMMA PlainStep ==
  ASSUME IInv, NEW q \in Requests,
         \/ UploadVerified(q) \/ DeleteGcObject(q) \/ ReadTombstoneOperation(q)
         \/ DeleteVerified(q) \/ Abandon(q)
  PROVE  IInv' /\ UNCHANGED pointer
<1>1. /\ TypeOK /\ req[q].pc # "idle" /\ req[q].op \in Operations
      /\ UNCHANGED <<coordinatorVars, effects>>
  BY DEF IInv, NamedOK, UploadVerified, DeleteGcObject, ReadTombstoneOperation,
         DeleteVerified, Abandon
<1>2. objects' \subseteq Versions
  BY <1>1 DEF IInv, NamedOK, TypeOK, UploadVerified, DeleteGcObject, ReadTombstoneOperation,
              DeleteVerified, Abandon
<1>3. StateOK'
  BY <1>1, <1>2, QuietOK DEF StateTypeOK, TypeOK, effects, coordinatorVars
<1>4. RequestsOK'
  <2>1. CASE UploadVerified(q)
    BY <1>1, <2>1, GoToOK DEF UploadVerified, Pcs, coordinatorVars, IInv, NamedOK
  <2>2. CASE DeleteGcObject(q)
    BY <1>1, <2>2, GoToOK DEF DeleteGcObject, Pcs, coordinatorVars, IInv, NamedOK
  <2>3. CASE ReadTombstoneOperation(q)
    BY <1>1, <2>3, GoToOK DEF ReadTombstoneOperation, Pcs, coordinatorVars
  <2>4. CASE DeleteVerified(q) \/ Abandon(q)
    BY <1>1, <2>4, GoToOK DEF DeleteVerified, Abandon, Done, Pcs, coordinatorVars
  <2> QED BY <2>1, <2>2, <2>3, <2>4
<1> QED BY <1>1, <1>3, <1>4, SplitNext DEF coordinatorVars

\* A request arrives.
LEMMA BeginStep ==
  ASSUME IInv, NEW q \in Requests, NEW v \in Versions, NEW o \in Operations,
         BeginUpload(q, v, o) \/ BeginGcRequest(q, v, o) \/ BeginDelete(q, o)
  PROVE  IInv' /\ UNCHANGED pointer
<1> DEFINE upload == [IdleRequest EXCEPT !.pc = "put", !.version = v, !.op = o, !.seen = pointer]
           gc == [IdleRequest EXCEPT !.pc = "gc_begin", !.version = v, !.op = o,
                                     !.prior = (gcs[o] # NoGc)]
           delete == [IdleRequest EXCEPT !.pc = "previous", !.op = o, !.seen = pointer]
<1>1. TypeOK /\ UNCHANGED <<coordinatorVars, objects, effects>>
  BY DEF IInv, BeginUpload, BeginGcRequest, BeginDelete, Receive
<1>2. StateOK'
  BY <1>1, QuietOK DEF StateTypeOK, TypeOK, effects, coordinatorVars
<1>3. CASE BeginUpload(q, v, o)
  <2>1. upload \in RequestStates /\ Receive(q, upload)
    BY <1>1, <1>3 DEF BeginUpload, IdleRequest, RequestStates, Pcs, TypeOK
  <2>2. upload.pc = "put" /\ upload.op = o /\ upload.version = v /\ upload.seen = pointer
    BY DEF IdleRequest
  <2> HIDE DEF upload
  <2> QED BY <1>1, <1>2, <2>1, <2>2, ReceiveOK, SplitNext DEF coordinatorVars
<1>4. CASE BeginGcRequest(q, v, o)
  <2>1. gc \in RequestStates /\ Receive(q, gc)
    BY <1>1, <1>4 DEF BeginGcRequest, IdleRequest, RequestStates, Pcs, NoPointer, Pointers
  <2>2. gc.pc = "gc_begin" /\ gc.op = o /\ gc.version = v /\ gc.seen = NoPointer
    BY DEF IdleRequest
  <2> HIDE DEF gc
  <2> QED BY <1>1, <1>2, <2>1, <2>2, ReceiveOK, SplitNext DEF coordinatorVars
<1>5. CASE BeginDelete(q, o)
  <2>1. delete \in RequestStates /\ Receive(q, delete)
    BY <1>1, <1>5 DEF BeginDelete, IdleRequest, RequestStates, Pcs, TypeOK
  <2>2. delete.pc = "previous" /\ delete.op = o /\ delete.seen = pointer
    BY DEF IdleRequest
  <2> HIDE DEF delete
  <2> QED BY <1>1, <1>2, <2>1, <2>2, ReceiveOK, SplitNext DEF coordinatorVars
<1> QED BY <1>3, <1>4, <1>5

\* Time.
LEMMA RetentionStep ==
  ASSUME IInv, RetentionPasses
  PROVE  IInv' /\ UNCHANGED pointer
<1>1. /\ TypeOK /\ UNCHANGED <<pointer, prepared, gcs, tombstones, objects, req, historyVars>>
      /\ records' = [v \in Versions |->
                       IF records[v].status = "absent" THEN records[v]
                       ELSE [records[v] EXCEPT !.old = TRUE]]
  BY DEF IInv, RetentionPasses
<1>2. \A v \in Versions : /\ records'[v] \in Records
                          /\ records'[v].status = records[v].status
                          /\ records'[v].expected = records[v].expected
  BY <1>1 DEF TypeOK, Records
<1>3. records' \in [Versions -> Records]
  BY <1>1, <1>2
<1>4. TypeOK'
  BY <1>1, <1>3 DEF TypeOK, historyVars, effects
<1>5. PointerBacked' /\ ActiveOK'
  BY <1>1, <1>2 DEF IInv, PointerBacked, ActiveOK, PointerOK
<1> QED BY <1>1, <1>4, <1>5 DEF IInv, PointerOK, SeenOK, NamedOK

\* Every step keeps the inductive invariant, and changes the pointer only on
\* behalf of a request that has read it.
LEMMA NextStep ==
  ASSUME IInv, [Next]_vars
  PROVE  /\ IInv'
         /\ pointer' # pointer =>
              /\ pointer'.pv = pointer.pv + 1
              /\ \E q \in Requests : req[q].pc \in {"cas", "tombstone"} /\ req[q].seen = pointer
<1>1. CASE UNCHANGED vars
  BY <1>1 DEF vars, coordinatorVars, historyVars, effects, IInv, TypeOK, PointerOK, PointerBacked,
              ActiveOK, SeenOK, NamedOK
<1>2. CASE RetentionPasses
  BY <1>2, RetentionStep
<1>3. ASSUME NEW q \in Requests, UploadStep(q)
      PROVE  /\ IInv'
             /\ pointer' # pointer => /\ pointer'.pv = pointer.pv + 1
                                      /\ req[q].pc = "cas" /\ req[q].seen = pointer
  <2>1. CASE \E v \in Versions, o \in Operations : BeginUpload(q, v, o)
    BY <2>1, BeginStep
  <2>2. CASE UploadVerified(q)
    BY <2>2, PlainStep
  <2>3. CASE PrepareProjectVersion(q)
    <3>1. UNCHANGED pointer
      BY <2>3 DEF PrepareProjectVersion, PrepareAgain, PrepareRecorded, PrepareNew,
                  coordinatorVars
    <3> QED BY <2>3, <3>1, PrepareStep
  <2>4. CASE CasProjectPointer(q)
    BY <2>4, CasStep DEF CasProjectPointer
  <2> QED BY <1>3, <2>1, <2>2, <2>3, <2>4 DEF UploadStep
<1>4. ASSUME NEW q \in Requests, GcStep(q) \/ Abandon(q)
      PROVE  IInv' /\ UNCHANGED pointer
  BY <1>4, BeginStep, BeginGcStep, PlainStep, FinishGcStep DEF GcStep
<1>5. ASSUME NEW q \in Requests, DeleteStep(q)
      PROVE  /\ IInv'
             /\ pointer' # pointer => /\ pointer'.pv = pointer.pv + 1
                                      /\ req[q].pc = "tombstone" /\ req[q].seen = pointer
  <2>1. CASE CasProjectTombstone(q)
    BY <2>1, TombstoneStep DEF CasProjectTombstone
  <2>2. CASE \E o \in Operations : BeginDelete(q, o)
    <3>1. PICK o \in Operations : BeginDelete(q, o)
      BY <2>2
    <3>2. StateOK' /\ UNCHANGED pointer
      BY <3>1, QuietOK DEF BeginDelete, Receive, coordinatorVars, effects, IInv, TypeOK, StateTypeOK
    <3> DEFINE delete == [IdleRequest EXCEPT !.pc = "previous", !.op = o, !.seen = pointer]
    <3>3. delete \in RequestStates /\ Receive(q, delete)
      BY <3>1 DEF BeginDelete, IdleRequest, RequestStates, Pcs, IInv, TypeOK
    <3>4. delete.pc = "previous" /\ delete.op = o /\ delete.seen = pointer
      BY DEF IdleRequest
    <3> HIDE DEF delete
    <3> QED BY <3>2, <3>3, <3>4, ReceiveOK, SplitNext
  <2>3. CASE ReadTombstoneOperation(q) \/ DeleteVerified(q)
    BY <2>3, PlainStep
  <2> QED BY <1>5, <2>1, <2>2, <2>3 DEF DeleteStep
<1> QED BY <1>1, <1>2, <1>3, <1>4, <1>5 DEF Next

(***************************************************************************)
(* The history stays within its bound                                      *)
(*                                                                         *)
(* A preparation takes room only where there is some, and a collection     *)
(* gives back exactly the receipt of the record it removes, because no two *)
(* records share a receipt.                                                *)
(***************************************************************************)

\* The records stay, whatever becomes of their status.
KeepsRecords ==
  \A v \in Versions :
    /\ records'[v].status = "absent" <=> records[v].status = "absent"
    /\ records[v].status # "absent" => /\ records'[v].op = records[v].op
                                       /\ records'[v].expected = records[v].expected

\* What the preparation of request q records.
ReceiptOf(q) == [version |-> req[q].version, expected |-> Expected(q)]

\* The preparation of request q took effect.
Prepares(q) ==
  /\ req[q].pc = "prepare"
  /\ prepared[req[q].op] = NoPreparation
  /\ PreparationCount < Capacity
  /\ prepared' = [prepared EXCEPT ![req[q].op] = ReceiptOf(q)]
  /\ \/ UNCHANGED records
     \/ /\ records[req[q].version].status = "absent"
        /\ RecordCount < Capacity
        /\ \E record \in Records :
             /\ records' = [records EXCEPT ![req[q].version] = record]
             /\ record.status # "absent"
             /\ record.op = req[q].op
             /\ record.expected = Expected(q)

\* The collection of request q removed a record and its receipt.
Finishes(q) ==
  LET v == req[q].version
  IN /\ req[q].pc = "gc_finish"
     /\ records[v].status = "gc_pending"
     /\ records' = [records EXCEPT ![v] = NoRecord]
     /\ prepared' = [o \in Operations |->
                       IF o = records[v].op THEN NoPreparation ELSE prepared[o]]

\* Setting a status keeps the records.
LEMMA SetStatusKeeps ==
  ASSUME TypeOK, NEW v \in Versions, NEW status \in Statuses \ {"absent"},
         records[v].status # "absent", records' = SetStatus(v, status)
  PROVE  KeepsRecords
<1>1. \A u \in Versions : records[u] \in Records
  BY DEF TypeOK
<1>2. \A u \in Versions :
        records'[u] = IF u = v THEN [records[v] EXCEPT !.status = status] ELSE records[u]
  BY DEF TypeOK, SetStatus
<1>3. /\ [records[v] EXCEPT !.status = status].status = status
      /\ [records[v] EXCEPT !.status = status].op = records[v].op
      /\ [records[v] EXCEPT !.status = status].expected = records[v].expected
  BY <1>1 DEF Records
<1> QED BY <1>2, <1>3 DEF KeepsRecords

\* casProjectPointer keeps the records.
LEMMA CasKeeps ==
  ASSUME IInv, NEW q \in Requests, CasProjectPointer(q)
  PROVE  KeepsRecords /\ UNCHANGED prepared
<1> DEFINE v == req[q].version
<1>1. TypeOK /\ v \in Versions /\ UNCHANGED prepared /\ "orphan" \in Statuses \ {"absent"}
  BY DEF IInv, NamedOK, CasProjectPointer, Statuses
<1>2. CASE UNCHANGED records
  BY <1>1, <1>2 DEF KeepsRecords
<1>3. CASE Castable(q) /\ CasStale(q)
  BY <1>1, <1>3, SetStatusKeeps DEF CasStale, Castable
<1>4. CASE Castable(q) /\ CasCurrent(q)
  <2>1. records[v].status # "absent"
    BY <1>4 DEF Castable
  <2>2. ASSUME NEW u \in Versions, u # v, u = pointer.version PROVE records[u].status # "absent"
    BY <1>4, <2>2, HostedVersionsAssumption DEF CasCurrent, PreviousReplaceable
  <2>3. \A u \in Versions : records[u] \in Records
    BY <1>1 DEF TypeOK
  <2>4. \A u \in Versions :
          records'[u] = IF u = v THEN [records[u] EXCEPT !.status = "active"]
                        ELSE IF u = pointer.version THEN [records[u] EXCEPT !.status = "orphan"]
                        ELSE records[u]
    BY <1>4 DEF CasCurrent
  <2>5. ASSUME NEW u \in Versions
        PROVE  /\ records'[u].status = "absent" <=> records[u].status = "absent"
               /\ records'[u].op = records[u].op
               /\ records'[u].expected = records[u].expected
    <3>1. CASE u = v
      <4>1. records'[u] = [records[u] EXCEPT !.status = "active"]
        BY <2>4, <3>1
      <4> QED BY <2>1, <2>3, <3>1, <4>1 DEF Records
    <3>2. CASE u # v /\ u = pointer.version
      <4>1. records'[u] = [records[u] EXCEPT !.status = "orphan"]
        BY <2>4, <3>2
      <4> QED BY <2>2, <2>3, <3>2, <4>1 DEF Records
    <3>3. CASE u # v /\ u # pointer.version
      BY <2>4, <3>3
    <3> QED BY <3>1, <3>2, <3>3
  <2> QED BY <1>1, <2>5 DEF KeepsRecords
<1> QED BY <1>2, <1>3, <1>4 DEF CasProjectPointer

\* A step keeps the records and the receipts, prepares, or collects.
LEMMA HistorySteps ==
  ASSUME IInv, [Next]_vars
  PROVE  \/ KeepsRecords /\ UNCHANGED prepared
         \/ \E q \in Requests : Prepares(q)
         \/ \E q \in Requests : Finishes(q)
<1>1. TypeOK /\ \A u \in Versions : records[u] \in Records
  BY DEF IInv, TypeOK
<1>2. ASSUME UNCHANGED <<records, prepared>> PROVE KeepsRecords /\ UNCHANGED prepared
  BY <1>2 DEF KeepsRecords
<1>3. CASE RetentionPasses
  <2>1. \A u \in Versions : /\ records'[u].status = records[u].status
                            /\ records'[u].op = records[u].op
                            /\ records'[u].expected = records[u].expected
    BY <1>1, <1>3 DEF RetentionPasses, Records
  <2> QED BY <1>3, <2>1 DEF KeepsRecords, RetentionPasses
<1>4. ASSUME NEW q \in Requests, PrepareProjectVersion(q)
      PROVE  (KeepsRecords /\ UNCHANGED prepared) \/ Prepares(q)
  <2>1. req[q].pc = "prepare" /\ req[q].op \in Operations /\ Expected(q) \in Nat
    BY <1>4, ExpectedNat DEF PrepareProjectVersion, IInv, NamedOK
  <2>2. CASE PrepareAgain(q)
    BY <1>2, <2>2 DEF PrepareAgain, coordinatorVars
  <2>3. CASE PrepareRecorded(q)
    BY <1>2, <2>1, <2>3 DEF PrepareRecorded, Prepares, ReceiptOf
  <2>4. CASE PrepareNew(q) /\ RecordCount < Capacity /\ PreparationCount < Capacity
    <3>1. PICK s \in {"orphan", "prepared"} :
            records' = [records EXCEPT ![req[q].version] =
                          [status |-> s, expected |-> Expected(q), op |-> req[q].op, old |-> FALSE]]
      BY <2>4 DEF PrepareNew
    <3> DEFINE record == [status |-> s, expected |-> Expected(q), op |-> req[q].op, old |-> FALSE]
    <3>2. /\ record \in Records /\ record.status # "absent" /\ record.op = req[q].op
          /\ record.expected = Expected(q)
      BY <2>1 DEF Records, Statuses
    <3>3. /\ prepared[req[q].op] = NoPreparation /\ records[req[q].version].status = "absent"
          /\ prepared' = [prepared EXCEPT ![req[q].op] = ReceiptOf(q)]
      BY <2>4 DEF PrepareNew, ReceiptOf
    <3>4. records' = [records EXCEPT ![req[q].version] = record]
      BY <3>1
    <3> HIDE DEF record
    <3> QED BY <2>1, <2>4, <3>2, <3>3, <3>4 DEF Prepares
  <2>5. CASE PrepareNew(q) /\ ~(RecordCount < Capacity /\ PreparationCount < Capacity)
    BY <1>2, <2>5 DEF PrepareNew
  <2> QED BY <1>4, <2>2, <2>3, <2>4, <2>5 DEF PrepareProjectVersion
<1>5. ASSUME NEW q \in Requests, BeginProjectVersionGc(q) PROVE KeepsRecords /\ UNCHANGED prepared
  <2>1. req[q].version \in Versions /\ "gc_pending" \in Statuses \ {"absent"}
    BY <1>5 DEF BeginProjectVersionGc, IInv, NamedOK, Statuses
  <2>2. CASE GcAgain(q)
    BY <1>2, <2>2 DEF GcAgain, coordinatorVars
  <2>3. CASE GcNew(q) /\ records' = SetStatus(req[q].version, "gc_pending") /\ Collectable(req[q].version)
    BY <1>1, <2>1, <2>3, SetStatusKeeps DEF GcNew, Collectable
  <2>4. CASE GcNew(q) /\ UNCHANGED records
    BY <1>2, <2>4 DEF GcNew
  <2> QED BY <1>5, <2>2, <2>3, <2>4 DEF BeginProjectVersionGc, GcNew
<1>6. ASSUME NEW q \in Requests, FinishProjectVersionGc(q)
      PROVE  (KeepsRecords /\ UNCHANGED prepared) \/ Finishes(q)
  <2> DEFINE v == req[q].version
  <2>1. /\ v \in Versions /\ req[q].pc = "gc_finish" /\ prepared \in [Operations -> Preparations]
        /\ records \in [Versions -> Records]
    BY <1>1, <1>6 DEF FinishProjectVersionGc, IInv, NamedOK, TypeOK
  <2>2. CASE UNCHANGED <<gcs, records, prepared>>
    BY <1>2, <2>2
  <2>3. CASE /\ records[v].status = "absent"
             /\ records' = [records EXCEPT ![v] = NoRecord]
             /\ prepared' = [o \in Operations |-> prepared[o]]
    BY <2>1, <2>3 DEF KeepsRecords, NoRecord
  <2>4. CASE /\ records[v].status = "gc_pending"
             /\ records' = [records EXCEPT ![v] = NoRecord]
             /\ prepared' = [o \in Operations |->
                               IF o = records[v].op THEN NoPreparation ELSE prepared[o]]
    BY <2>1, <2>4 DEF Finishes
  <2> QED BY <1>6, <2>2, <2>3, <2>4 DEF FinishProjectVersionGc
<1>7. ASSUME NEW q \in Requests, CasProjectTombstone(q) PROVE KeepsRecords /\ UNCHANGED prepared
  <2>1. UNCHANGED prepared /\ "orphan" \in Statuses \ {"absent"}
    BY <1>7 DEF CasProjectTombstone, Statuses
  <2>2. CASE UNCHANGED records
    BY <1>2, <2>1, <2>2
  <2>3. CASE /\ pointer.state = "active" /\ records' = SetStatus(pointer.version, "orphan")
             /\ records[pointer.version].status # "absent"
    BY <1>1, <2>1, <2>3, SetStatusKeeps DEF IInv, PointerOK
  <2> QED BY <1>7, <2>2, <2>3 DEF CasProjectTombstone
<1>8. CASE UNCHANGED vars
  BY <1>2, <1>8 DEF vars, coordinatorVars
<1>9. ASSUME NEW q \in Requests,
             \/ \E v \in Versions, o \in Operations : BeginUpload(q, v, o) \/ BeginGcRequest(q, v, o)
             \/ \E o \in Operations : BeginDelete(q, o)
             \/ UploadVerified(q) \/ DeleteGcObject(q) \/ ReadTombstoneOperation(q)
             \/ DeleteVerified(q) \/ Abandon(q)
      PROVE  KeepsRecords /\ UNCHANGED prepared
  BY <1>2, <1>9 DEF BeginUpload, BeginGcRequest, BeginDelete, Receive, UploadVerified,
     DeleteGcObject, ReadTombstoneOperation, DeleteVerified, Abandon, coordinatorVars
<1> QED BY <1>3, <1>4, <1>5, <1>6, <1>7, <1>8, <1>9, CasKeeps
        DEF Next, UploadStep, GcStep, DeleteStep

\* The receipts and the records there are.
PreparedOperations == {o \in Operations : prepared[o] # NoPreparation}
RecordedVersions == {v \in Versions : records[v].status # "absent"}

\* Every record keeps the receipt of the operation that made it.
ReceiptsKept ==
  \A v \in Versions : records[v].status # "absent" =>
    records[v].op \in Operations /\ prepared[records[v].op].version = v

\* The part of the inductive invariant that HistoryWithinBound needs.
HistoryInv ==
  /\ IsFiniteSet(PreparedOperations) /\ Cardinality(PreparedOperations) <= Capacity
  /\ IsFiniteSet(RecordedVersions) /\ Cardinality(RecordedVersions) <= Capacity
  /\ ReceiptsKept

\* A set that is within the bound stays so when it grows by an element while
\* there is room, or shrinks.
LEMMA SmallSets ==
  ASSUME NEW S, IsFiniteSet(S), Cardinality(S) <= Capacity, NEW T,
         \/ T \subseteq S
         \/ Cardinality(S) < Capacity /\ \E x : T \subseteq S \cup {x}
  PROVE  IsFiniteSet(T) /\ Cardinality(T) <= Capacity
<1>1. Capacity \in Nat /\ Cardinality(S) \in Nat
  BY HostedVersionsAssumption, FS_CardinalityType
<1>2. CASE T \subseteq S
  <2>1. IsFiniteSet(T) /\ Cardinality(T) <= Cardinality(S)
    BY <1>2, FS_Subset
  <2>2. Cardinality(T) \in Nat
    BY <2>1, FS_CardinalityType
  <2> QED BY <1>1, <2>1, <2>2
<1>3. ASSUME Cardinality(S) < Capacity, NEW x, T \subseteq S \cup {x}
      PROVE  IsFiniteSet(T) /\ Cardinality(T) <= Capacity
  <2>1. IsFiniteSet(S \cup {x}) /\ Cardinality(S \cup {x}) <= Cardinality(S) + 1
    BY <1>1, FS_AddElement
  <2>2. IsFiniteSet(T) /\ Cardinality(T) <= Cardinality(S \cup {x})
    BY <1>3, <2>1, FS_Subset
  <2>3. Cardinality(T) \in Nat /\ Cardinality(S \cup {x}) \in Nat
    BY <2>1, <2>2, FS_CardinalityType
  <2> QED BY <1>1, <1>3, <2>1, <2>2, <2>3
<1> QED BY <1>2, <1>3

\* At first the history is empty.
LEMMA InitHistory == Init => HistoryInv
<1>1. Init => PreparedOperations = {} /\ RecordedVersions = {}
  BY DEF Init, PreparedOperations, RecordedVersions, NoRecord
<1>2. Capacity \in Nat /\ IsFiniteSet({}) /\ Cardinality({}) = 0
  BY HostedVersionsAssumption, FS_EmptySet
<1>3. Init => ReceiptsKept
  BY DEF Init, ReceiptsKept, NoRecord
<1> QED BY <1>1, <1>2, <1>3 DEF HistoryInv

\* Every step keeps the invariant.
LEMMA HistoryStep == IInv /\ HistoryInv /\ [Next]_vars => HistoryInv'
<1> SUFFICES ASSUME IInv, HistoryInv, [Next]_vars PROVE HistoryInv'
  OBVIOUS
<1>1. /\ records \in [Versions -> Records] /\ prepared \in [Operations -> Preparations]
      /\ NoPreparation.version \notin Versions
  BY HostedVersionsAssumption DEF IInv, TypeOK, NoPreparation
<1>2. CASE KeepsRecords /\ UNCHANGED prepared
  <2>1. RecordedVersions' = RecordedVersions /\ PreparedOperations' = PreparedOperations
    BY <1>2 DEF KeepsRecords, RecordedVersions, PreparedOperations
  <2>2. ReceiptsKept'
    BY <1>2 DEF HistoryInv, ReceiptsKept, KeepsRecords
  <2> QED BY <2>1, <2>2 DEF HistoryInv
<1>3. ASSUME NEW q \in Requests, Prepares(q) PROVE HistoryInv'
  <2> DEFINE o == req[q].op
             v == req[q].version
  <2>1. o \in Operations /\ v \in Versions /\ ReceiptOf(q).version = v
    BY <1>3 DEF Prepares, IInv, NamedOK, ReceiptOf
  <2>2. prepared' = [prepared EXCEPT ![o] = ReceiptOf(q)] /\ prepared[o] = NoPreparation
    BY <1>3 DEF Prepares
  <2>3. PreparedOperations' \subseteq PreparedOperations \cup {o}
    BY <1>1, <2>2 DEF PreparedOperations
  <2>4. Cardinality(PreparedOperations) < Capacity
    BY <1>3 DEF Prepares, PreparationCount, PreparedOperations
  <2>5. IsFiniteSet(PreparedOperations') /\ Cardinality(PreparedOperations') <= Capacity
    BY <2>3, <2>4, SmallSets DEF HistoryInv
  <2>6. ASSUME NEW u \in Versions, records[u].status # "absent"
        PROVE  records[u].op \in Operations /\ records[u].op # o
               /\ prepared'[records[u].op].version = u
    BY <1>1, <2>1, <2>2, <2>6 DEF HistoryInv, ReceiptsKept
  <2>7. CASE UNCHANGED records
    <3>1. RecordedVersions' = RecordedVersions
      BY <2>7 DEF RecordedVersions
    <3>2. ReceiptsKept'
      BY <2>6, <2>7 DEF ReceiptsKept
    <3> QED BY <2>5, <3>1, <3>2 DEF HistoryInv
  <2>8. ASSUME records[v].status = "absent", RecordCount < Capacity, NEW record \in Records,
               records' = [records EXCEPT ![v] = record], record.op = o
        PROVE  HistoryInv'
    <3>1. RecordedVersions' \subseteq RecordedVersions \cup {v}
      BY <1>1, <2>8 DEF RecordedVersions
    <3>2. Cardinality(RecordedVersions) < Capacity
      BY <2>8 DEF RecordCount, RecordedVersions
    <3>3. IsFiniteSet(RecordedVersions') /\ Cardinality(RecordedVersions') <= Capacity
      BY <3>1, <3>2, SmallSets DEF HistoryInv
    <3>4. prepared'[o].version = v
      BY <1>1, <2>1, <2>2
    <3>5. ReceiptsKept'
      BY <1>1, <2>1, <2>6, <2>8, <3>4 DEF ReceiptsKept
    <3> QED BY <2>5, <3>3, <3>5 DEF HistoryInv
  <2> QED BY <1>3, <2>7, <2>8 DEF Prepares
<1>4. ASSUME NEW q \in Requests, Finishes(q) PROVE HistoryInv'
  <2> DEFINE v == req[q].version
  <2>1. /\ v \in Versions /\ records[v].status = "gc_pending"
        /\ records' = [records EXCEPT ![v] = NoRecord] /\ NoRecord.status = "absent"
        /\ prepared' = [o \in Operations |->
                          IF o = records[v].op THEN NoPreparation ELSE prepared[o]]
    BY <1>4 DEF Finishes, IInv, NamedOK, NoRecord
  <2>2. PreparedOperations' \subseteq PreparedOperations /\ RecordedVersions' \subseteq RecordedVersions
    BY <1>1, <2>1 DEF PreparedOperations, RecordedVersions
  <2>3. /\ IsFiniteSet(PreparedOperations') /\ Cardinality(PreparedOperations') <= Capacity
        /\ IsFiniteSet(RecordedVersions') /\ Cardinality(RecordedVersions') <= Capacity
    BY <2>2, SmallSets DEF HistoryInv
  <2>4. ReceiptsKept'
    <3> SUFFICES ASSUME NEW u \in Versions, records'[u].status # "absent"
                 PROVE  records'[u].op \in Operations /\ prepared'[records'[u].op].version = u
      BY DEF ReceiptsKept
    <3>1. u # v /\ records'[u] = records[u]
      BY <1>1, <2>1
    <3>2. records[u].op # records[v].op
      BY <2>1, <3>1 DEF HistoryInv, ReceiptsKept
    <3> QED BY <2>1, <3>1, <3>2 DEF HistoryInv, ReceiptsKept
  <2> QED BY <2>3, <2>4 DEF HistoryInv
<1> QED BY <1>2, <1>3, <1>4, HistorySteps

(***************************************************************************)
(* How requests move                                                       *)
(***************************************************************************)

\* The steps of one request.
StepOf(q) == UploadStep(q) \/ GcStep(q) \/ DeleteStep(q) \/ Abandon(q)

\* From one call of a request to the next.
NextCalls ==
  {<<"put", "prepare">>, <<"prepare", "cas">>, <<"gc_begin", "gc_delete">>,
   <<"gc_delete", "gc_finish">>, <<"previous", "delete">>, <<"previous", "tombstone">>,
   <<"tombstone", "delete">>}

\* Request q arrives, having read the pointer or nothing.
Arrives(q) ==
  /\ req'[q].pc \in {"put", "gc_begin", "previous"}
  /\ req'[q].seen \in {pointer, NoPointer}
  /\ UNCHANGED <<coordinatorVars, objects, effects>>

\* Request q goes on to its next call.
GoesOn(q) ==
  /\ <<req[q].pc, req'[q].pc>> \in NextCalls
  /\ req'[q].version = req[q].version
  /\ req'[q].op = req[q].op
  /\ req'[q].seen = req[q].seen

\* A step of request q arrives, goes on or is answered; others stay.
LEMMA RequestMoves ==
  ASSUME IInv, NEW q \in Requests, StepOf(q)
  PROVE  /\ \A r \in Requests \ {q} : req'[r] = req[r]
         /\ req'[q] = IdleRequest \/ Arrives(q) \/ GoesOn(q)
<1>1. req \in [Requests -> RequestStates]
  BY DEF IInv, TypeOK
<1>2. ASSUME Done(q)
      PROVE  req'[q] = IdleRequest /\ \A r \in Requests \ {q} : req'[r] = req[r]
  BY <1>1, <1>2 DEF Done, GoTo
<1>3. ASSUME NEW pc, pc # "idle", GoTo(q, pc), <<req[q].pc, pc>> \in NextCalls
      PROVE  GoesOn(q) /\ \A r \in Requests \ {q} : req'[r] = req[r]
  <2>1. req' = [req EXCEPT ![q] = [req[q] EXCEPT !.pc = pc]]
    BY <1>3 DEF GoTo
  <2>2. /\ req'[q].pc = pc /\ req'[q].version = req[q].version
        /\ req'[q].op = req[q].op /\ req'[q].seen = req[q].seen
    BY <1>1, <2>1 DEF RequestStates
  <2> QED BY <1>1, <1>3, <2>1, <2>2 DEF GoesOn
<1>4. ASSUME NEW v, NEW o, BeginUpload(q, v, o) \/ BeginGcRequest(q, v, o) \/ BeginDelete(q, o)
      PROVE  Arrives(q) /\ \A r \in Requests \ {q} : req'[r] = req[r]
  BY <1>1, <1>4 DEF BeginUpload, BeginGcRequest, BeginDelete, Receive, IdleRequest, Arrives
<1>5. CASE UploadVerified(q) \/ DeleteGcObject(q)
  BY <1>3, <1>5 DEF UploadVerified, DeleteGcObject, NextCalls
<1>6. CASE PrepareProjectVersion(q)
  BY <1>2, <1>3, <1>6 DEF PrepareProjectVersion, PrepareAgain, PrepareRecorded, PrepareNew,
     Done, NextCalls
<1>7. CASE BeginProjectVersionGc(q)
  BY <1>2, <1>3, <1>7 DEF BeginProjectVersionGc, GcAgain, GcNew, Done, NextCalls
<1>8. CASE ReadTombstoneOperation(q)
  BY <1>2, <1>3, <1>8 DEF ReadTombstoneOperation, Done, NextCalls
<1>9. CASE CasProjectTombstone(q)
  BY <1>2, <1>3, <1>9 DEF CasProjectTombstone, Done, NextCalls
<1>10. CASE CasProjectPointer(q) \/ FinishProjectVersionGc(q) \/ DeleteVerified(q) \/ Abandon(q)
  BY <1>2, <1>10 DEF CasProjectPointer, FinishProjectVersionGc, DeleteVerified, Abandon
<1> QED BY <1>4, <1>5, <1>6, <1>7, <1>8, <1>9, <1>10 DEF StepOf, UploadStep, GcStep, DeleteStep

\* A step is time, one request's, or none.
LEMMA StepKinds ==
  ASSUME [Next]_vars
  PROVE  \/ \E q \in Requests : StepOf(q)
         \/ /\ UNCHANGED <<pointer, prepared, gcs, tombstones, objects, req, effects>>
            /\ RetentionPasses \/ UNCHANGED records
BY DEF Next, StepOf, vars, coordinatorVars, historyVars, RetentionPasses

(***************************************************************************)
(* Collections                                                             *)
(***************************************************************************)

\* What is being collected, or was, has been marked as such.
CollectedInv ==
  /\ \A v \in Versions : records[v].status = "gc_pending" => v \in collected
  /\ \A o \in Operations : gcs[o] # NoGc => gcs[o].version \in collected
  /\ \A q \in Requests : req[q].pc \in {"gc_delete", "gc_finish"} => req[q].version \in collected

\* A new collection is marked.
LEMMA GcNewMarks ==
  ASSUME IInv, CollectedInv, NEW q \in Requests, GcNew(q), req[q].pc = "gc_begin"
  PROVE  /\ collected \subseteq collected'
         /\ \A v \in Versions : records'[v].status = "gc_pending" => v \in collected'
         /\ \A o \in Operations : gcs'[o] # NoGc => gcs'[o].version \in collected'
         /\ req'[q].pc = "gc_delete" => req[q].version \in collected'
<1> DEFINE v == req[q].version
<1>1. v \in Versions /\ req[q].op \in Operations /\ TypeOK
  BY DEF IInv, NamedOK
<1>2. CASE Collectable(v) /\ GcPruned # {}
  <2>1. PICK kept \in GcPruned :
          gcs' = [kept EXCEPT ![req[q].op] = [version |-> v, status |-> "pending"]]
    BY <1>2 DEF GcNew
  <2>2. records' = SetStatus(v, "gc_pending") /\ collected' = collected \cup {v}
    BY <1>2 DEF GcNew
  <2>3. kept \in [Operations -> GcReceipts] /\ \A o \in Operations : kept[o] \in {gcs[o], NoGc}
    BY <1>1 DEF GcPruned, TypeOK, NoGc, GcReceipts
  <2>4. \A o \in Operations : gcs'[o] # NoGc => gcs'[o].version \in collected'
    BY <1>1, <2>1, <2>2, <2>3 DEF CollectedInv
  <2>5. \A u \in Versions : u # v => records'[u] = records[u]
    BY <1>1, <2>2 DEF SetStatus, TypeOK
  <2> QED BY <2>2, <2>4, <2>5 DEF CollectedInv
<1>3. CASE ~(Collectable(v) /\ GcPruned # {})
  <2>1. UNCHANGED <<gcs, records, collected>> /\ Done(q)
    BY <1>3 DEF GcNew
  <2>2. req'[q].pc = "idle"
    BY <1>1, <2>1 DEF Done, GoTo, IdleRequest, TypeOK
  <2> QED BY <2>1, <2>2 DEF CollectedInv
<1> QED BY <1>2, <1>3

\* Only a new collection puts a record into collection, and any other step
\* leaves the receipts of collections with what they name.
LEMMA OthersMarkNothing ==
  ASSUME IInv, CollectedInv, [Next]_vars, \A q \in Requests : ~(GcNew(q) /\ req[q].pc = "gc_begin")
  PROVE  /\ collected' = collected
         /\ \A v \in Versions : records'[v].status = "gc_pending" => v \in collected
         /\ \A o \in Operations : gcs'[o] # NoGc => gcs'[o].version \in collected
<1>1. /\ TypeOK /\ records \in [Versions -> Records] /\ gcs \in [Operations -> GcReceipts]
      /\ \A u \in Versions : records[u] \in Records
  BY DEF IInv, TypeOK
<1>2. ASSUME UNCHANGED <<records, gcs, collected>>
      PROVE  /\ collected' = collected
             /\ \A v \in Versions : records'[v].status = "gc_pending" => v \in collected
             /\ \A o \in Operations : gcs'[o] # NoGc => gcs'[o].version \in collected
  BY <1>2 DEF CollectedInv
<1>3. ASSUME UNCHANGED <<gcs, collected>>,
             \A v \in Versions : records'[v].status = "gc_pending" => records[v].status = "gc_pending"
      PROVE  /\ collected' = collected
             /\ \A v \in Versions : records'[v].status = "gc_pending" => v \in collected
             /\ \A o \in Operations : gcs'[o] # NoGc => gcs'[o].version \in collected
  BY <1>3 DEF CollectedInv
<1>4. ASSUME NEW v \in Versions, NEW status \in {"orphan", "active"}, records' = SetStatus(v, status)
      PROVE  \A u \in Versions : records'[u].status = "gc_pending" => records[u].status = "gc_pending"
  BY <1>1, <1>4 DEF SetStatus, Records
<1>5. CASE RetentionPasses
  <2>1. \A v \in Versions : records'[v].status = records[v].status
    BY <1>1, <1>5 DEF RetentionPasses, Records
  <2> QED BY <1>3, <1>5, <2>1 DEF RetentionPasses, historyVars, effects
<1>6. ASSUME NEW q \in Requests, StepOf(q)
      PROVE  /\ collected' = collected
             /\ \A v \in Versions : records'[v].status = "gc_pending" => v \in collected
             /\ \A o \in Operations : gcs'[o] # NoGc => gcs'[o].version \in collected
  <2>1. CASE PrepareProjectVersion(q)
    <3>1. CASE UNCHANGED records
      BY <1>2, <2>1, <3>1 DEF PrepareProjectVersion, PrepareAgain, PrepareRecorded, PrepareNew,
         coordinatorVars, effects
    <3>2. CASE PrepareNew(q) /\ RecordCount < Capacity /\ PreparationCount < Capacity
      <4>1. PICK s \in {"orphan", "prepared"} :
              records' = [records EXCEPT ![req[q].version] =
                          [status |-> s, expected |-> Expected(q), op |-> req[q].op, old |-> FALSE]]
        BY <3>2 DEF PrepareNew
      <4>2. UNCHANGED <<gcs, collected>>
        BY <3>2 DEF PrepareNew, effects
      <4>3. \A v \in Versions : records'[v].status = "gc_pending" => records[v].status = "gc_pending"
        BY <1>1, <4>1
      <4> QED BY <1>3, <4>2, <4>3
    <3> QED BY <2>1, <3>1, <3>2 DEF PrepareProjectVersion, PrepareAgain, PrepareRecorded,
            PrepareNew, coordinatorVars
  <2>2. CASE CasProjectPointer(q)
    <3>1. req[q].version \in Versions /\ UNCHANGED <<gcs, collected>>
      BY <2>2 DEF CasProjectPointer, IInv, NamedOK
    <3>2. CASE UNCHANGED records
      BY <1>2, <3>1, <3>2
    <3>3. CASE CasStale(q)
      BY <1>3, <1>4, <3>1, <3>3 DEF CasStale
    <3>4. CASE CasCurrent(q)
      <4>1. \A u \in Versions :
              records'[u] \in {[records[u] EXCEPT !.status = "active"],
                               [records[u] EXCEPT !.status = "orphan"], records[u]}
        BY <3>4 DEF CasCurrent
      <4>2. \A u \in Versions : records'[u].status = "gc_pending" => records[u].status = "gc_pending"
        BY <1>1, <4>1 DEF Records
      <4> QED BY <1>3, <3>1, <4>2
    <3> QED BY <2>2, <3>2, <3>3, <3>4 DEF CasProjectPointer
  <2>3. CASE BeginProjectVersionGc(q)
    <3>1. GcAgain(q)
      BY <2>3 DEF BeginProjectVersionGc
    <3> QED BY <1>2, <3>1 DEF GcAgain, coordinatorVars, effects
  <2>4. CASE FinishProjectVersionGc(q)
    <3> DEFINE v == req[q].version
               o == req[q].op
    <3>1. v \in Versions /\ o \in Operations /\ collected' = collected
      BY <2>4 DEF FinishProjectVersionGc, IInv, NamedOK, effects
    <3>2. CASE UNCHANGED <<gcs, records, prepared>>
      BY <1>2, <3>1, <3>2
    <3>3. CASE /\ gcs[o].version = v
               /\ gcs' = [gcs EXCEPT ![o].status = "completed"]
               /\ records' = [records EXCEPT ![v] = NoRecord]
      <4>1. gcs[o] # NoGc
        BY <3>1, <3>3, HostedVersionsAssumption DEF NoGc
      <4>2. \A p \in Operations : gcs'[p] # NoGc => gcs[p] # NoGc /\ gcs'[p].version = gcs[p].version
        BY <1>1, <3>3, <4>1 DEF GcReceipts
      <4>3. \A u \in Versions : records'[u].status = "gc_pending" => records[u].status = "gc_pending"
        BY <1>1, <3>3 DEF NoRecord
      <4> QED BY <3>1, <4>2, <4>3 DEF CollectedInv
    <3> QED BY <2>4, <3>2, <3>3 DEF FinishProjectVersionGc
  <2>5. CASE CasProjectTombstone(q)
    <3>1. UNCHANGED <<gcs, collected>>
      BY <2>5 DEF CasProjectTombstone, effects
    <3>2. UNCHANGED records \/ (pointer.state = "active" /\ records' = SetStatus(pointer.version, "orphan"))
      BY <2>5 DEF CasProjectTombstone
    <3> QED BY <1>2, <1>3, <1>4, <3>1, <3>2 DEF IInv, PointerOK
  <2>6. CASE \/ \E v \in Versions, o \in Operations : BeginUpload(q, v, o) \/ BeginGcRequest(q, v, o)
             \/ \E o \in Operations : BeginDelete(q, o)
             \/ UploadVerified(q) \/ DeleteGcObject(q) \/ ReadTombstoneOperation(q)
             \/ DeleteVerified(q) \/ Abandon(q)
    BY <1>2, <2>6 DEF BeginUpload, BeginGcRequest, BeginDelete, Receive, UploadVerified,
       DeleteGcObject, ReadTombstoneOperation, DeleteVerified, Abandon, coordinatorVars, effects
  <2> QED BY <1>6, <2>1, <2>2, <2>3, <2>4, <2>5, <2>6 DEF StepOf, UploadStep, GcStep, DeleteStep
<1> QED BY <1>2, <1>5, <1>6, StepKinds DEF effects

\* Every step keeps the marks.
LEMMA CollectedStep ==
  IInv /\ CollectedInv /\ [Next]_vars => CollectedInv' /\ collected \subseteq collected'
<1> SUFFICES ASSUME IInv, CollectedInv, [Next]_vars
             PROVE  CollectedInv' /\ collected \subseteq collected'
  OBVIOUS
<1>1. CASE \E q \in Requests : GcNew(q) /\ req[q].pc = "gc_begin"
  <2>1. PICK q \in Requests : GcNew(q) /\ req[q].pc = "gc_begin"
    BY <1>1
  <2>2. StepOf(q)
    BY <2>1 DEF StepOf, GcStep, BeginProjectVersionGc
  <2>3. /\ \A r \in Requests \ {q} : req'[r] = req[r]
        /\ req'[q] = IdleRequest \/ Arrives(q) \/ GoesOn(q)
    BY <2>2, RequestMoves
  <2>4. \A r \in Requests : req'[r].pc \in {"gc_delete", "gc_finish"} => req'[r].version \in collected'
    BY <2>1, <2>3, GcNewMarks DEF CollectedInv, IdleRequest, Arrives, GoesOn, NextCalls
  <2> QED BY <2>1, <2>4, GcNewMarks DEF CollectedInv
<1>2. CASE \A q \in Requests : ~(GcNew(q) /\ req[q].pc = "gc_begin")
  <2>1. /\ collected' = collected
        /\ \A v \in Versions : records'[v].status = "gc_pending" => v \in collected'
        /\ \A o \in Operations : gcs'[o] # NoGc => gcs'[o].version \in collected'
    BY <1>2, OthersMarkNothing
  <2>2. ASSUME NEW r \in Requests, req'[r].pc \in {"gc_delete", "gc_finish"}
        PROVE  req'[r].version \in collected'
    <3>1. CASE UNCHANGED req
      BY <2>1, <2>2, <3>1 DEF CollectedInv
    <3>2. ASSUME NEW q \in Requests, StepOf(q) PROVE req'[r].version \in collected'
      <4>1. /\ \A s \in Requests \ {q} : req'[s] = req[s]
            /\ req'[q] = IdleRequest \/ Arrives(q) \/ GoesOn(q)
        BY <3>2, RequestMoves
      <4>2. CASE r # q
        BY <2>1, <2>2, <4>1, <4>2 DEF CollectedInv
      <4>3. CASE r = q
        <5>1. GoesOn(q) /\ req[q].pc \in {"gc_begin", "gc_delete"}
          BY <2>2, <4>1, <4>3 DEF IdleRequest, Arrives, GoesOn, NextCalls
        <5>2. CASE req[q].pc = "gc_delete"
          BY <2>1, <4>3, <5>1, <5>2 DEF CollectedInv, GoesOn
        <5>3. CASE req[q].pc = "gc_begin"
          <6>1. GcAgain(q) \/ Abandon(q)
            BY <1>2, <3>2, <5>3 DEF StepOf, UploadStep, GcStep, DeleteStep, BeginUpload, Receive,
               BeginGcRequest, BeginDelete, UploadVerified, PrepareProjectVersion,
               CasProjectPointer, BeginProjectVersionGc, DeleteGcObject,
               FinishProjectVersionGc, ReadTombstoneOperation, CasProjectTombstone, DeleteVerified
          <6>2. req[q].op \in Operations /\ req \in [Requests -> RequestStates]
            BY <5>3 DEF IInv, NamedOK, TypeOK
          <6>3. ~Done(q)
            BY <2>2, <4>3, <6>2 DEF Done, GoTo, IdleRequest
          <6>4. gcs[req[q].op] # NoGc /\ gcs[req[q].op].version = req[q].version
            BY <6>1, <6>3 DEF GcAgain, Abandon
          <6> QED BY <2>1, <4>3, <5>1, <6>2, <6>4 DEF CollectedInv, GoesOn
        <5> QED BY <5>1, <5>2, <5>3
      <4> QED BY <4>2, <4>3
    <3> QED BY <3>1, <3>2, StepKinds
  <2> QED BY <2>1, <2>2 DEF CollectedInv
<1> QED BY <1>1, <1>2

\* The record of a version that is not collected stays as it is.
LEMMA RecordStays ==
  ASSUME IInv, CollectedInv, [Next]_vars, NEW v \in Versions, v \notin collected,
         records[v].status # "absent"
  PROVE  records'[v].status # "absent" /\ records'[v].expected = records[v].expected
<1>1. records \in [Versions -> Records]
  BY DEF IInv, TypeOK
<1>2. CASE KeepsRecords
  BY <1>2 DEF KeepsRecords
<1>3. ASSUME NEW q \in Requests, Prepares(q) PROVE records'[v] = records[v]
  BY <1>1, <1>3 DEF Prepares
<1>4. ASSUME NEW q \in Requests, Finishes(q) PROVE records'[v] = records[v]
  BY <1>1, <1>4 DEF Finishes, CollectedInv
<1> QED BY <1>2, <1>3, <1>4, HistorySteps

\* So does the receipt of an operation that uploaded it.
LEMMA ReceiptStays ==
  ASSUME IInv, HistoryInv, CollectedInv, [Next]_vars, NEW o \in Operations,
         prepared[o].version \in Versions \ collected
  PROVE  prepared'[o] = prepared[o]
<1>1. prepared \in [Operations -> Preparations] /\ prepared[o] # NoPreparation
  BY HostedVersionsAssumption DEF IInv, TypeOK, NoPreparation
<1>2. ASSUME NEW q \in Requests, Prepares(q) PROVE prepared'[o] = prepared[o]
  BY <1>1, <1>2 DEF Prepares
<1>3. ASSUME NEW q \in Requests, Finishes(q) PROVE prepared'[o] = prepared[o]
  <2>1. req[q].version \in Versions /\ records[req[q].version].status = "gc_pending"
    BY <1>3 DEF Finishes, IInv, NamedOK
  <2>2. o # records[req[q].version].op
    BY <2>1 DEF HistoryInv, ReceiptsKept, CollectedInv
  <2> QED BY <1>3, <2>2 DEF Finishes
<1> QED BY <1>2, <1>3, HistorySteps

(***************************************************************************)
(* An upload takes effect at most once                                     *)
(*                                                                         *)
(* The receipt of an operation names one pointer version, and stands until *)
(* what it uploaded is collected.                                          *)
(***************************************************************************)

\* An activation, and an upload about to become one, have their receipt.
OnceInv ==
  /\ \A a \in activated : a[3] \notin collected =>
       prepared[a[1]] = [version |-> a[3], expected |-> a[2] - 1]
  /\ \A q \in Requests : req[q].pc = "cas" /\ req[q].version \notin collected =>
       prepared[req[q].op] = ReceiptOf(q)

\* Only casProjectPointer activates.
LEMMA Activations ==
  ASSUME [Next]_vars
  PROVE  \/ activated' = activated
         \/ \E q \in Requests : CasProjectPointer(q) /\ CasCurrent(q) /\ Castable(q)
<1>1. ASSUME NEW q \in Requests, StepOf(q)
      PROVE  activated' = activated \/ (CasProjectPointer(q) /\ CasCurrent(q) /\ Castable(q))
  BY <1>1 DEF StepOf, UploadStep, GcStep, DeleteStep, BeginUpload, Receive, BeginGcRequest,
     BeginDelete, UploadVerified, PrepareProjectVersion, PrepareAgain, PrepareRecorded, PrepareNew,
     CasProjectPointer, CasStale, BeginProjectVersionGc, GcAgain, GcNew,
     DeleteGcObject, FinishProjectVersionGc, ReadTombstoneOperation, CasProjectTombstone,
     DeleteVerified, Abandon, effects
<1> QED BY <1>1, StepKinds DEF effects

\* Every activation after a step has its receipt.
LEMMA ActivationStep ==
  ASSUME IInv, HistoryInv, CollectedInv, OnceInv, [Next]_vars,
         NEW a \in activated', a[3] \notin collected'
  PROVE  prepared'[a[1]] = [version |-> a[3], expected |-> a[2] - 1]
<1>1. activated \subseteq Operations \X Nat \X Versions /\ collected \subseteq collected'
  BY CollectedStep DEF IInv, TypeOK
<1>2. CASE a \in activated
  <2>1. prepared[a[1]] = [version |-> a[3], expected |-> a[2] - 1]
    BY <1>1, <1>2 DEF OnceInv
  <2>2. a[1] \in Operations /\ prepared[a[1]].version \in Versions \ collected
    BY <1>1, <1>2, <2>1
  <2> QED BY <2>1, <2>2, ReceiptStays
<1>3. ASSUME a \notin activated, NEW q \in Requests, CasProjectPointer(q), CasCurrent(q), Castable(q)
      PROVE  prepared'[a[1]] = [version |-> a[3], expected |-> a[2] - 1]
  <2>1. /\ a = <<req[q].op, pointer.pv + 1, req[q].version>>
        /\ pointer.pv = Expected(q) /\ UNCHANGED prepared
    BY <1>3 DEF CasCurrent, CasProjectPointer
  <2>2. prepared[req[q].op] = ReceiptOf(q)
    BY <1>1, <1>3, <2>1 DEF OnceInv, CasProjectPointer
  <2>3. pointer.pv \in Nat
    BY DEF IInv, TypeOK, Pointers
  <2> QED BY <2>1, <2>2, <2>3 DEF ReceiptOf
<1> QED BY <1>2, <1>3, Activations

\* Every upload about to activate after a step has its receipt.
LEMMA CasReceiptStep ==
  ASSUME IInv, HistoryInv, CollectedInv, OnceInv, [Next]_vars,
         NEW r \in Requests, req'[r].pc = "cas", req'[r].version \notin collected'
  PROVE  prepared'[req'[r].op] = ReceiptOf(r)'
<1>1. collected \subseteq collected'
  BY CollectedStep
<1>2. CASE req'[r] = req[r]
  <2>1. ReceiptOf(r)' = ReceiptOf(r)
    BY <1>2 DEF ReceiptOf, Expected
  <2>2. prepared[req[r].op] = ReceiptOf(r) /\ req[r].op \in Operations /\ req[r].version \in Versions
    BY <1>1, <1>2 DEF OnceInv, IInv, NamedOK
  <2>3. prepared[req[r].op].version \in Versions \ collected
    BY <1>1, <1>2, <2>2 DEF ReceiptOf
  <2> QED BY <1>2, <2>1, <2>2, <2>3, ReceiptStays
<1>3. ASSUME req'[r] # req[r], StepOf(r) PROVE prepared'[req'[r].op] = ReceiptOf(r)'
  <2>1. GoesOn(r) /\ req[r].pc = "prepare"
    BY <1>3, RequestMoves DEF IdleRequest, Arrives, GoesOn, NextCalls
  <2>2. ReceiptOf(r)' = ReceiptOf(r) /\ req'[r].op = req[r].op
    BY <2>1 DEF ReceiptOf, Expected, GoesOn
  <2>3. PrepareProjectVersion(r) \/ Abandon(r)
    BY <1>3, <2>1 DEF StepOf, UploadStep, GcStep, DeleteStep, BeginUpload, Receive,
       BeginGcRequest, BeginDelete, UploadVerified, CasProjectPointer, BeginProjectVersionGc,
       DeleteGcObject, FinishProjectVersionGc, ReadTombstoneOperation, CasProjectTombstone,
       DeleteVerified
  <2>4. /\ req[r].op \in Operations /\ req \in [Requests -> RequestStates]
        /\ prepared \in [Operations -> Preparations]
    BY <2>1 DEF IInv, NamedOK, TypeOK
  <2>5. ~Done(r)
    BY <2>4 DEF Done, GoTo, IdleRequest
  <2>6. prepared'[req[r].op] = ReceiptOf(r)
    BY <2>3, <2>4, <2>5 DEF PrepareProjectVersion, PrepareAgain, PrepareRecorded, PrepareNew,
       Abandon, ReceiptOf, coordinatorVars, Done
  <2> QED BY <2>2, <2>6
<1>4. \/ req'[r] = req[r]
      \/ StepOf(r)
  BY RequestMoves, StepKinds
<1> QED BY <1>2, <1>3, <1>4

\* Every step keeps the invariant.
LEMMA OnceStep == IInv /\ HistoryInv /\ CollectedInv /\ OnceInv /\ [Next]_vars => OnceInv'
BY ActivationStep, CasReceiptStep DEF OnceInv

(***************************************************************************)
(* The object of the active version is kept                                *)
(*                                                                         *)
(* The record of a version names the pointer version it was prepared for,  *)
(* so until it is collected the version is activated at most there: a      *)
(* deletion that comes late finds another pointer, and an upload that      *)
(* comes late finds another pointer version.                               *)
(***************************************************************************)

\* The version that pointer p names was prepared for the pointer before its
\* upload.
RecordBehind(p) ==
  p.state # "absent" /\ p.version \notin collected =>
    /\ p.version \in Versions
    /\ records[p.version].status # "absent"
    /\ records[p.version].expected = IF p.state = "active" THEN p.pv - 1 ELSE p.pv - 2

\* Pointers past and present have their record, and deletions come after the
\* pointer they delete.
BehindInv ==
  /\ RecordBehind(pointer)
  /\ \A q \in Requests : RecordBehind(req[q].seen)
  /\ \A o \in Operations :
       tombstones[o].pv <= pointer.pv /\ (tombstones[o] # NoPointer => tombstones[o].state = "deleted")
  /\ \A q \in Requests :
       /\ req[q].pc = "tombstone" => req[q].seen.state = "active"
       /\ req[q].pc = "delete" =>
            /\ req[q].seen.state # "absent"
            /\ req[q].seen.state = "active" => req[q].seen.pv < pointer.pv

\* An upload that has stored its object still has it, or comes too late.
StoredInv ==
  \A q \in Requests : req[q].pc \in {"prepare", "cas"} =>
    LET v == req[q].version
    IN \/ v \in collected
       \/ v \in objects
       \/ records[v].status # "absent" /\ records[v].expected < pointer.pv

\* What the deletion of request q removes is not active, and an upload of it
\* would come too late.
LEMMA DeletedIsPast ==
  ASSUME IInv, BehindInv, NEW q \in Requests, req[q].pc = "delete",
         req[q].seen.version \notin collected
  PROVE  /\ ~(pointer.state = "active" /\ pointer.version = req[q].seen.version)
         /\ records[req[q].seen.version].status # "absent"
         /\ records[req[q].seen.version].expected < pointer.pv
<1> DEFINE seen == req[q].seen
           v == seen.version
<1>1. seen \in Pointers /\ seen.pv \in Nat /\ pointer.pv \in Nat /\ seen.pv <= pointer.pv
  BY DEF IInv, TypeOK, SeenOK, RequestStates, Pointers
<1>2. seen.state \in {"active", "deleted"} /\ (seen.state = "active" => seen.pv < pointer.pv)
  BY <1>1 DEF BehindInv, Pointers
<1>3. /\ v \in Versions /\ records[v].status # "absent"
      /\ records[v].expected = IF seen.state = "active" THEN seen.pv - 1 ELSE seen.pv - 2
  BY <1>2 DEF BehindInv, RecordBehind
<1>4. pointer.state = "active" => records[pointer.version].expected = pointer.pv - 1
  BY DEF IInv, ActiveOK
<1> QED BY <1>1, <1>2, <1>3, <1>4

\* An object disappears by a collection or by a deletion.
LEMMA ObjectSteps ==
  ASSUME IInv, CollectedInv, [Next]_vars, NEW v \in objects, v \notin objects', v \notin collected
  PROVE  \E q \in Requests : /\ req[q].pc = "delete" /\ req[q].seen.version = v
                             /\ UNCHANGED <<coordinatorVars, effects>>
<1>1. ASSUME NEW q \in Requests, StepOf(q)
      PROVE  \/ objects \subseteq objects'
             \/ DeleteGcObject(q) \/ DeleteVerified(q)
  BY <1>1 DEF StepOf, UploadStep, GcStep, DeleteStep, BeginUpload, Receive, BeginGcRequest,
     BeginDelete, UploadVerified, PrepareProjectVersion, PrepareAgain, PrepareRecorded, PrepareNew,
     CasProjectPointer, BeginProjectVersionGc, GcAgain, GcNew,
     FinishProjectVersionGc, ReadTombstoneOperation, CasProjectTombstone, Abandon
<1>2. ASSUME NEW q \in Requests, DeleteGcObject(q) PROVE FALSE
  BY <1>2 DEF DeleteGcObject, CollectedInv
<1>3. ASSUME NEW q \in Requests, DeleteVerified(q)
      PROVE  req[q].pc = "delete" /\ req[q].seen.version = v /\ UNCHANGED <<coordinatorVars, effects>>
  BY <1>3 DEF DeleteVerified
<1> QED BY <1>1, <1>2, <1>3, StepKinds

\* A pointer whose record stands keeps it.
LEMMA BehindStays ==
  ASSUME IInv, CollectedInv, [Next]_vars, NEW p, RecordBehind(p)
  PROVE  p.state # "absent" /\ p.version \notin collected' =>
           /\ p.version \in Versions
           /\ records'[p.version].status # "absent"
           /\ records'[p.version].expected = IF p.state = "active" THEN p.pv - 1 ELSE p.pv - 2
<1>1. collected \subseteq collected'
  BY CollectedStep
<1> QED BY <1>1, RecordStays DEF RecordBehind

\* The pointer and the tombstones change by an upload or by a deletion.
LEMMA PointerMoves ==
  ASSUME [Next]_vars
  PROVE  \/ UNCHANGED <<pointer, tombstones>>
         \/ \E q \in Requests :
              CasProjectPointer(q) /\ CasCurrent(q) /\ Castable(q) /\ UNCHANGED tombstones
         \/ \E q \in Requests :
              /\ CasProjectTombstone(q)
              /\ pointer.state = "active"
              /\ pointer.pv = req[q].seen.pv
              /\ pointer' = [state |-> "deleted", pv |-> pointer.pv + 1, version |-> pointer.version]
              /\ tombstones' = [tombstones EXCEPT ![req[q].op] = pointer']
<1>1. ASSUME NEW q \in Requests, CasProjectPointer(q)
      PROVE  UNCHANGED tombstones /\ (UNCHANGED pointer \/ (CasCurrent(q) /\ Castable(q)))
  BY <1>1 DEF CasProjectPointer, CasStale
<1>2. ASSUME NEW q \in Requests, CasProjectTombstone(q)
      PROVE  \/ UNCHANGED <<pointer, tombstones>>
             \/ /\ pointer.state = "active"
                /\ pointer.pv = req[q].seen.pv
                /\ pointer' = [state |-> "deleted", pv |-> pointer.pv + 1, version |-> pointer.version]
                /\ tombstones' = [tombstones EXCEPT ![req[q].op] = pointer']
  BY <1>2 DEF CasProjectTombstone
<1>3. ASSUME NEW q \in Requests, StepOf(q)
      PROVE  UNCHANGED <<pointer, tombstones>> \/ CasProjectPointer(q) \/ CasProjectTombstone(q)
  BY <1>3 DEF StepOf, UploadStep, GcStep, DeleteStep, BeginUpload, Receive, BeginGcRequest,
     BeginDelete, UploadVerified, PrepareProjectVersion, PrepareAgain, PrepareRecorded, PrepareNew,
     BeginProjectVersionGc, GcAgain, GcNew, DeleteGcObject, FinishProjectVersionGc,
     ReadTombstoneOperation, DeleteVerified, Abandon, coordinatorVars
<1> QED BY <1>1, <1>2, <1>3, StepKinds

\* The current pointer has its record after a step.
LEMMA PointerBehind ==
  ASSUME IInv, CollectedInv, BehindInv, [Next]_vars
  PROVE  RecordBehind(pointer)'
<1>1. pointer \in Pointers /\ pointer.pv \in Nat /\ records \in [Versions -> Records]
  BY DEF IInv, TypeOK, Pointers
<1>2. CASE UNCHANGED pointer
  BY <1>2, BehindStays DEF BehindInv, RecordBehind
<1>3. ASSUME NEW q \in Requests, CasProjectPointer(q), CasCurrent(q), Castable(q)
      PROVE  RecordBehind(pointer)'
  <2> DEFINE v == req[q].version
  <2>1. /\ v \in Versions /\ records[v].status # "absent" /\ records[v].expected = pointer.pv
        /\ pointer'.version = v /\ pointer'.pv = pointer.pv + 1 /\ pointer'.state = "active"
    BY <1>3 DEF CasProjectPointer, CasCurrent, Castable, IInv, NamedOK
  <2>2. records'[v].status # "absent" /\ records'[v].expected = pointer.pv
    BY <1>3, <2>1, CasKeeps DEF KeepsRecords
  <2> QED BY <1>1, <2>1, <2>2 DEF RecordBehind
<1>4. ASSUME pointer.state = "active",
             pointer' = [state |-> "deleted", pv |-> pointer.pv + 1, version |-> pointer.version]
      PROVE  RecordBehind(pointer)'
  <2>1. pointer'.state = "deleted" /\ pointer'.pv = pointer.pv + 1 /\ pointer'.version = pointer.version
    BY <1>4
  <2>2. pointer.version \notin collected' =>
           /\ pointer.version \in Versions
           /\ records'[pointer.version].status # "absent"
           /\ records'[pointer.version].expected = pointer.pv - 1
    BY <1>4, BehindStays DEF BehindInv
  <2> QED BY <1>1, <2>1, <2>2 DEF RecordBehind
<1> QED BY <1>2, <1>3, <1>4, PointerMoves

\* Every step keeps the records behind the pointers.
LEMMA BehindStep == IInv /\ CollectedInv /\ BehindInv /\ [Next]_vars => BehindInv'
<1> SUFFICES ASSUME IInv, CollectedInv, BehindInv, [Next]_vars PROVE BehindInv'
  OBVIOUS
<1>1. /\ pointer \in Pointers /\ pointer.pv \in Nat /\ tombstones \in [Operations -> Pointers]
      /\ req \in [Requests -> RequestStates] /\ IInv'
      /\ \A q \in Requests : req[q].seen \in Pointers /\ req[q].seen.pv \in Nat
      /\ \A o \in Operations : tombstones[o].pv \in Nat
  BY NextStep DEF IInv, TypeOK, Pointers, RequestStates
<1>2. pointer'.pv \in Nat /\ (pointer' = pointer \/ pointer'.pv = pointer.pv + 1)
  BY <1>1, NextStep DEF IInv, TypeOK, Pointers
<1>3. ASSUME NEW o \in Operations
      PROVE  /\ tombstones'[o].pv <= pointer'.pv
             /\ tombstones'[o] # NoPointer => tombstones'[o].state = "deleted"
  <2>1. tombstones[o].pv <= pointer.pv /\ (tombstones[o] # NoPointer => tombstones[o].state = "deleted")
    BY DEF BehindInv
  <2>2. CASE UNCHANGED tombstones
    BY <1>1, <1>2, <2>1, <2>2
  <2>3. ASSUME NEW q \in Requests, tombstones' = [tombstones EXCEPT ![req[q].op] = pointer'],
               pointer' = [state |-> "deleted", pv |-> pointer.pv + 1, version |-> pointer.version]
        PROVE  /\ tombstones'[o].pv <= pointer'.pv
               /\ tombstones'[o] # NoPointer => tombstones'[o].state = "deleted"
    <3>1. pointer'.state = "deleted"
      BY <2>3
    <3>2. tombstones'[o] \in {tombstones[o], pointer'}
      BY <1>1, <2>3
    <3> QED BY <1>1, <1>2, <2>1, <3>1, <3>2
  <2> QED BY <2>2, <2>3, PointerMoves
<1>4. ASSUME NEW r \in Requests
      PROVE  /\ RecordBehind(req[r].seen)'
             /\ req'[r].pc = "tombstone" => req'[r].seen.state = "active"
             /\ req'[r].pc = "delete" =>
                  /\ req'[r].seen.state # "absent"
                  /\ req'[r].seen.state = "active" => req'[r].seen.pv < pointer'.pv
  <2>1. CASE req'[r] = req[r]
    <3>1. RecordBehind(req[r].seen)'
      BY <2>1, BehindStays DEF BehindInv, RecordBehind
    <3> QED BY <1>1, <1>2, <2>1, <3>1 DEF BehindInv
  <2>2. CASE req'[r] = IdleRequest
    BY <2>2 DEF IdleRequest, RecordBehind, NoPointer
  <2>3. CASE StepOf(r) /\ Arrives(r)
    <3>1. req'[r].pc \notin {"tombstone", "delete"} /\ req'[r].seen \in {pointer, NoPointer}
          /\ UNCHANGED <<records, collected>>
      BY <2>3 DEF Arrives, coordinatorVars, effects
    <3>2. RecordBehind(req[r].seen)'
      BY <3>1 DEF BehindInv, RecordBehind, NoPointer
    <3> QED BY <3>1, <3>2
  <2>4. CASE StepOf(r) /\ GoesOn(r)
    <3>1. req'[r].seen = req[r].seen
      BY <2>4 DEF GoesOn
    <3>2. RecordBehind(req[r].seen)'
      BY <3>1, BehindStays DEF BehindInv, RecordBehind
    <3>3. CASE req[r].pc \notin {"previous", "tombstone"}
      BY <2>4, <3>2, <3>3 DEF GoesOn, NextCalls
    <3>4. CASE req[r].pc \in {"previous", "tombstone"}
      <4>1. ReadTombstoneOperation(r) \/ CasProjectTombstone(r) \/ Abandon(r)
        BY <2>4, <3>4 DEF StepOf, UploadStep, GcStep, DeleteStep, BeginUpload, Receive,
           BeginGcRequest, BeginDelete, UploadVerified, PrepareProjectVersion, CasProjectPointer,
           BeginProjectVersionGc, DeleteGcObject, FinishProjectVersionGc, DeleteVerified
      <4>2. req[r].op \in Operations /\ ~Done(r)
        BY <1>1, <2>4, <3>4 DEF IInv, NamedOK, Done, GoTo, IdleRequest, GoesOn, NextCalls
      <4>3. CASE ReadTombstoneOperation(r)
        <5>1. \/ GoTo(r, "delete") /\ req[r].seen = tombstones[req[r].op] /\ req[r].seen # NoPointer
              \/ GoTo(r, "tombstone") /\ req[r].seen.state = "active"
          BY <4>2, <4>3 DEF ReadTombstoneOperation, Done
        <5>2. \A pc \in {"delete", "tombstone"} : GoTo(r, pc) => req'[r].pc = pc
          BY <1>1 DEF GoTo, RequestStates
        <5> QED BY <3>1, <3>2, <4>2, <5>1, <5>2 DEF BehindInv
      <4>4. CASE CasProjectTombstone(r)
        <5>1. req'[r].pc = "delete" /\ req[r].seen.state = "active"
          BY <2>4, <4>4 DEF GoesOn, NextCalls, BehindInv, CasProjectTombstone
        <5>2. \/ tombstones[req[r].op].pv = req[r].seen.pv + 1 /\ UNCHANGED pointer
              \/ /\ pointer.pv = req[r].seen.pv
                 /\ pointer' = [state |-> "deleted", pv |-> pointer.pv + 1, version |-> pointer.version]
          BY <4>2, <4>4 DEF CasProjectTombstone, Done
        <5>3. req[r].seen.pv < pointer'.pv
          BY <1>1, <4>2, <5>2 DEF BehindInv
        <5> QED BY <3>1, <3>2, <5>1, <5>3
      <4> QED BY <4>1, <4>2, <4>3, <4>4 DEF Abandon
    <3> QED BY <3>3, <3>4
  <2>5. req'[r] = req[r] \/ (StepOf(r) /\ (req'[r] = IdleRequest \/ Arrives(r) \/ GoesOn(r)))
    BY RequestMoves, StepKinds
  <2> QED BY <2>1, <2>2, <2>3, <2>4, <2>5
<1> QED BY <1>3, <1>4, PointerBehind DEF BehindInv

\* Every step keeps what uploads have stored.
LEMMA StoredStep ==
  IInv /\ CollectedInv /\ BehindInv /\ StoredInv /\ [Next]_vars => StoredInv'
<1> SUFFICES ASSUME IInv, CollectedInv, BehindInv, StoredInv, [Next]_vars, NEW r \in Requests,
                    req'[r].pc \in {"prepare", "cas"}, req'[r].version \notin collected'
             PROVE  \/ req'[r].version \in objects'
                    \/ /\ records'[req'[r].version].status # "absent"
                       /\ records'[req'[r].version].expected < pointer'.pv
  BY DEF StoredInv
<1> DEFINE v == req'[r].version
<1>1. /\ pointer.pv \in Nat /\ pointer'.pv \in Nat /\ pointer.pv <= pointer'.pv
      /\ records \in [Versions -> Records] /\ collected \subseteq collected'
      /\ v \in Versions
  BY NextStep, CollectedStep DEF IInv, TypeOK, Pointers, NamedOK
<1>2. ASSUME records[v].status # "absent", records[v].expected < pointer.pv
      PROVE  records'[v].status # "absent" /\ records'[v].expected < pointer'.pv
  <2>1. records'[v].status # "absent" /\ records'[v].expected = records[v].expected
    BY <1>1, <1>2, RecordStays
  <2>2. records[v].expected \in Nat
    BY <1>1 DEF Records
  <2> QED BY <1>1, <1>2, <2>1, <2>2
<1>3. CASE req[r].pc \in {"prepare", "cas"} /\ req[r].version = v
  <2>1. v \in objects \/ (records[v].status # "absent" /\ records[v].expected < pointer.pv)
    BY <1>1, <1>3 DEF StoredInv
  <2>2. ASSUME v \in objects, v \notin objects'
        PROVE  records[v].status # "absent" /\ records[v].expected < pointer.pv
    <3>1. PICK q \in Requests : req[q].pc = "delete" /\ req[q].seen.version = v
      BY <1>1, <2>2, ObjectSteps
    <3> QED BY <1>1, <3>1, DeletedIsPast
  <2> QED BY <1>2, <2>1, <2>2
<1>4. CASE ~(req[r].pc \in {"prepare", "cas"} /\ req[r].version = v)
  <2>1. StepOf(r) /\ GoesOn(r) /\ req[r].pc = "put"
    <3>1. req'[r] = req[r] \/ (StepOf(r) /\ (req'[r] = IdleRequest \/ Arrives(r) \/ GoesOn(r)))
      BY RequestMoves, StepKinds
    <3> QED BY <1>4, <3>1 DEF IdleRequest, Arrives, GoesOn, NextCalls
  <2>2. UploadVerified(r) \/ Abandon(r)
    BY <2>1 DEF StepOf, UploadStep, GcStep, DeleteStep, BeginUpload, Receive,
       BeginGcRequest, BeginDelete, PrepareProjectVersion, CasProjectPointer,
       BeginProjectVersionGc, DeleteGcObject, FinishProjectVersionGc, ReadTombstoneOperation,
       CasProjectTombstone, DeleteVerified
  <2>3. ~Abandon(r)
    BY <2>1 DEF Abandon, Done, GoTo, IdleRequest, GoesOn, NextCalls, IInv, TypeOK
  <2> QED BY <2>1, <2>2, <2>3 DEF UploadVerified, GoesOn
<1> QED BY <1>3, <1>4

\* Every step keeps the object of the active version.
LEMMA KeptStep ==
  IInv /\ CollectedInv /\ BehindInv /\ StoredInv /\ ActiveObjectKept /\ [Next]_vars
    => ActiveObjectKept'
<1> SUFFICES ASSUME IInv, CollectedInv, BehindInv, StoredInv, ActiveObjectKept, [Next]_vars,
                    pointer'.state = "active", pointer'.version \notin collected'
             PROVE  pointer'.version \in objects'
  BY DEF ActiveObjectKept
<1>1. collected \subseteq collected' /\ pointer.pv \in Nat
  BY CollectedStep DEF IInv, TypeOK, Pointers
<1>2. CASE UNCHANGED pointer
  <2>1. pointer.version \in objects /\ pointer.version \notin collected
    BY <1>1, <1>2 DEF ActiveObjectKept
  <2>2. ASSUME pointer.version \notin objects' PROVE FALSE
    <3>1. PICK q \in Requests : req[q].pc = "delete" /\ req[q].seen.version = pointer.version
      BY <2>1, <2>2, ObjectSteps
    <3> QED BY <1>2, <2>1, <3>1, DeletedIsPast
  <2> QED BY <1>2, <2>2
<1>3. ASSUME NEW q \in Requests, CasProjectPointer(q), CasCurrent(q), Castable(q)
      PROVE  pointer'.version \in objects'
  <2>1. /\ pointer'.version = req[q].version /\ records[req[q].version].expected = pointer.pv
        /\ req[q].pc = "cas" /\ UNCHANGED objects
    BY <1>3 DEF CasProjectPointer, CasCurrent, Castable
  <2> QED BY <1>1, <2>1 DEF StoredInv
<1>4. ASSUME pointer' = [state |-> "deleted", pv |-> pointer.pv + 1, version |-> pointer.version]
      PROVE  FALSE
  BY <1>4
<1> QED BY <1>2, <1>3, <1>4, PointerMoves

(***************************************************************************)
(* Theorems                                                                *)
(***************************************************************************)

\* The inductive invariant holds.
THEOREM Invariance == Spec => []IInv
<1>1. Init => IInv
  BY InitIInv
<1>2. IInv /\ [Next]_vars => IInv'
  BY NextStep
<1> QED BY <1>1, <1>2, PTL DEF Spec

\* Records, receipts and requests are well typed, for any number of versions,
\* operations and requests.
THEOREM TypeCorrect == Spec => []TypeOK
<1>1. IInv => TypeOK BY DEF IInv
<1> QED BY <1>1, Invariance, PTL

\* The pointer and the version records agree in every reachable state,
\* however uploads, deletions, collections and their retries interleave.
THEOREM PointerAlwaysBacked == Spec => []PointerBacked
<1>1. IInv => PointerBacked
  BY DEF IInv
<1> QED BY <1>1, Invariance, PTL

\* The pointer is replaced only by a request that has read exactly the
\* pointer it replaces (casProjectPointer, casProjectTombstone).
THEOREM UpdatesNotLost == Spec => NoLostUpdate
<1>1. IInv /\ [Next]_vars =>
        [pointer' # pointer =>
           /\ pointer'.pv = pointer.pv + 1
           /\ \E q \in Requests : /\ req[q].pc \in {"cas", "tombstone"}
                                  /\ req[q].seen = pointer]_vars
  BY NextStep
<1> QED BY <1>1, Invariance, PTL DEF Spec, NoLostUpdate

\* However many contents are uploaded, deleted and collected under however
\* many operation ids, the coordinator keeps at most Capacity records and
\* receipts, and each record its receipt (prepareProjectVersion,
\* finishProjectVersionGc).
THEOREM HistoryBounded == Spec => []HistoryWithinBound
<1>1. HistoryInv => HistoryWithinBound
  BY DEF HistoryInv, ReceiptsKept, HistoryWithinBound, PreparationCount, RecordCount,
         PreparedOperations, RecordedVersions
<1> QED BY <1>1, InitHistory, Invariance, HistoryStep, PTL DEF Spec

\* However requests interleave, fail and are retried, an upload moves the
\* pointer once and the object of the active version is stored, up to a
\* collection of that version (handleUpload, handleDeleteProject).
THEOREM UploadsHold == Spec => []UploadedOnceAndKept
<1> DEFINE Inv == HistoryInv /\ CollectedInv /\ OnceInv /\ BehindInv /\ StoredInv /\ ActiveObjectKept
<1>1. Init => Inv
  <2>1. Init => CollectedInv /\ OnceInv /\ StoredInv
    BY DEF Init, CollectedInv, OnceInv, StoredInv, NoRecord, NoGc, IdleRequest
  <2>2. Init => BehindInv /\ ActiveObjectKept
    BY DEF Init, BehindInv, RecordBehind, ActiveObjectKept, NoPointer, IdleRequest
  <2> QED BY <2>1, <2>2, InitHistory
<1>2. IInv /\ Inv /\ [Next]_vars => Inv'
  BY HistoryStep, CollectedStep, OnceStep, BehindStep, StoredStep, KeptStep
<1>3. IInv /\ Inv => UploadedOnceAndKept
  <2> SUFFICES ASSUME IInv, Inv PROVE UploadedOnceAndKept
    OBVIOUS
  <2>1. ASSUME NEW a \in activated, NEW b \in activated, a[1] = b[1], a[3] \notin collected,
               b[3] \notin collected
        PROVE  a = b
    <3>1. a \in Operations \X Nat \X Versions /\ b \in Operations \X Nat \X Versions
      BY DEF IInv, TypeOK
    <3>2. [version |-> a[3], expected |-> a[2] - 1] = [version |-> b[3], expected |-> b[2] - 1]
      BY <2>1 DEF OnceInv
    <3>3. a[3] = b[3] /\ a[2] - 1 = b[2] - 1
      BY <3>2
    <3> QED BY <2>1, <3>1, <3>3
  <2>2. UploadedOnce
    BY <2>1 DEF UploadedOnce
  <2> QED BY <2>2 DEF UploadedOnceAndKept
<1> HIDE DEF Inv
<1> QED BY <1>1, <1>2, <1>3, Invariance, PTL DEF Spec
=============================================================================
