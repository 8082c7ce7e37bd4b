---------------------------- MODULE HostedVersions ----------------------------
(***************************************************************************)
(* The hosted copy of one project: the pointer and the version records the *)
(* workspace coordinator keeps (cloud/src/workspace-coordinator.ts), the   *)
(* encrypted objects in the bucket (cloud/src/project-store.ts), and the   *)
(* upload, delete and garbage-collection requests that change both         *)
(* (cloud/src/index.ts).                                                   *)
(*                                                                         *)
(* Every call to the coordinator is one transaction of a durable object    *)
(* and every call to the bucket is one step; a request waits between them, *)
(* and other requests run.  A version is named by its content, and its     *)
(* object by the version, so a version names the object too.  A retry is a *)
(* request with the operation id of an earlier one.                        *)
(***************************************************************************)
EXTENDS Integers, FiniteSets

CONSTANTS
  Versions,   \* contents of the project
  NoVersion,
  Operations, \* idempotency keys of the clients
  Requests,   \* upload, delete and gc requests served at the same time
  Kinds,      \* the kinds of requests clients make
  Capacity,   \* version, preparation and gc records kept (256 in the code)
  MaxRequests \* bound: requests received in all

ASSUME HostedVersionsAssumption ==
  /\ NoVersion \notin Versions
  /\ Kinds \subseteq {"upload", "delete", "gc"}
  /\ Capacity \in Nat \ {0}
  /\ MaxRequests \in Nat

VARIABLES
  pointer,    \* project:<id>
  records,    \* project-version:<id>:<version>
  prepared,   \* project-version-operation:<id>:<operation>
  gcs,        \* project-version-gc-operation:<id>:<operation>
  tombstones, \* project-tombstone-operation:<id>:<operation>
  objects,    \* the bucket
  req,        \* the requests being served
  received,   \* history: requests received, for MaxRequests
  activated,  \* history: operation, pointer version and version of each upload
  collected   \* history: the versions a collection was begun of

coordinatorVars == <<pointer, records, prepared, gcs, tombstones>>
effects == <<activated, collected>>
historyVars == <<received, effects>>
vars == <<coordinatorVars, objects, req, historyVars>>

\* A pointer; pv is pointer_version, 0 before the first upload.
Pointers == [state : {"absent", "active", "deleted"}, pv : Nat,
             version : Versions \cup {NoVersion}]
NoPointer == [state |-> "absent", pv |-> 0, version |-> NoVersion]

\* A version record; old once created_at is before the retention boundary.
Statuses == {"absent", "prepared", "active", "orphan", "gc_pending"}
Records == [status : Statuses, expected : Nat, op : Operations \cup {"none"}, old : BOOLEAN]
NoRecord == [status |-> "absent", expected |-> 0, op |-> "none", old |-> FALSE]

\* Receipts of preparations and of garbage collections.
Preparations == [version : Versions \cup {NoVersion}, expected : Nat]
NoPreparation == [version |-> NoVersion, expected |-> 0]
GcReceipts == [version : Versions \cup {NoVersion}, status : {"absent", "pending", "completed"}]
NoGc == [version |-> NoVersion, status |-> "absent"]

Pcs == {"idle", "put", "prepare", "cas", "gc_begin", "gc_delete", "gc_finish",
        "previous", "tombstone", "delete"}
RequestStates == [pc : Pcs, version : Versions \cup {NoVersion},
                  op : Operations \cup {"none"}, seen : Pointers, prior : BOOLEAN]
IdleRequest == [pc |-> "idle", version |-> NoVersion, op |-> "none", seen |-> NoPointer,
                prior |-> FALSE]

\* Types of the variables.
TypeOK ==
  /\ pointer \in Pointers
  /\ records \in [Versions -> Records]
  /\ prepared \in [Operations -> Preparations]
  /\ gcs \in [Operations -> GcReceipts]
  /\ tombstones \in [Operations -> Pointers]
  /\ objects \subseteq Versions
  /\ req \in [Requests -> RequestStates]
  /\ received \in Nat
  /\ activated \subseteq Operations \X Nat \X Versions
  /\ collected \subseteq Versions

Init ==
  /\ pointer = NoPointer
  /\ records = [v \in Versions |-> NoRecord]
  /\ prepared = [o \in Operations |-> NoPreparation]
  /\ gcs = [o \in Operations |-> NoGc]
  /\ tombstones = [o \in Operations |-> NoPointer]
  /\ objects = {}
  /\ req = [q \in Requests |-> IdleRequest]
  /\ received = 0
  /\ activated = {}
  /\ collected = {}

\* A request arrives, goes on, or has been answered.
Receive(q, request) ==
  /\ req[q].pc = "idle"
  /\ received < MaxRequests
  /\ received' = received + 1
  /\ req' = [req EXCEPT ![q] = request]
  /\ UNCHANGED <<coordinatorVars, objects, effects>>
GoTo(q, pc) ==
  /\ req' = [req EXCEPT ![q] = IF pc = "idle" THEN IdleRequest ELSE [req[q] EXCEPT !.pc = pc]]
  /\ UNCHANGED received
Done(q) == GoTo(q, "idle")

SetStatus(v, status) == [records EXCEPT ![v].status = status]

(***************************************************************************)
(* handleUpload                                                            *)
(***************************************************************************)

\* The request reads the pointer before it reads its own body.
BeginUpload(q, v, o) ==
  /\ "upload" \in Kinds
  /\ Receive(q, [IdleRequest EXCEPT !.pc = "put", !.version = v, !.op = o, !.seen = pointer])

\* Mutant: the pointer is read again where its version is needed.
ExpectedLate(q) == pointer.pv

\* expectedPointerVersion: an upload of the active content expects to have
\* been the last change itself.
Expected(q) ==
  LET seen == req[q].seen
  IN IF seen.state = "active" /\ seen.version = req[q].version THEN seen.pv - 1 ELSE seen.pv

\* uploadVerified: a conditional put.  An object that exists is compared and
\* is the same, since its content names it.
UploadVerified(q) ==
  /\ req[q].pc = "put"
  /\ objects' = objects \cup {req[q].version}
  /\ GoTo(q, "prepare")
  /\ UNCHANGED <<coordinatorVars, effects>>

PreparationCount == Cardinality({o \in Operations : prepared[o] # NoPreparation})
RecordCount == Cardinality({v \in Versions : records[v].status # "absent"})

\* Mutant: the receipt is found without comparing the input.
PrepareAgainBlindly(q) ==
  /\ prepared[req[q].op] # NoPreparation
  /\ GoTo(q, "cas")
  /\ UNCHANGED <<coordinatorVars, objects, effects>>

\* prepareProjectVersion with an operation id that has a receipt.
PrepareAgain(q) ==
  LET receipt == [version |-> req[q].version, expected |-> Expected(q)]
  IN /\ prepared[req[q].op] # NoPreparation
     /\ IF prepared[req[q].op] = receipt THEN GoTo(q, "cas") ELSE Done(q)
     /\ UNCHANGED <<coordinatorVars, objects, effects>>

\* Mutant: a version that has a record takes no room.
PrepareRecordedUnbounded(q) ==
  LET v == req[q].version
      receipt == [version |-> v, expected |-> Expected(q)]
  IN /\ prepared[req[q].op] = NoPreparation
     /\ records[v].status # "absent"
     /\ IF records[v].status # "gc_pending" /\ records[v].expected = Expected(q)
        THEN prepared' = [prepared EXCEPT ![req[q].op] = receipt] /\ GoTo(q, "cas")
        ELSE UNCHANGED prepared /\ Done(q)
     /\ UNCHANGED <<pointer, records, gcs, tombstones, objects, effects>>

\* prepareProjectVersion of a version that has a record.
PrepareRecorded(q) ==
  LET v == req[q].version
      receipt == [version |-> v, expected |-> Expected(q)]
  IN /\ prepared[req[q].op] = NoPreparation
     /\ records[v].status # "absent"
     /\ IF /\ records[v].status # "gc_pending"
           /\ records[v].expected = Expected(q)
           /\ PreparationCount < Capacity
        THEN prepared' = [prepared EXCEPT ![req[q].op] = receipt] /\ GoTo(q, "cas")
        ELSE UNCHANGED prepared /\ Done(q)
     /\ UNCHANGED <<pointer, records, gcs, tombstones, objects, effects>>

\* prepareProjectVersion of a new version; against a newer pointer it is an
\* orphan from the start.
PrepareNew(q) ==
  LET v == req[q].version
      receipt == [version |-> v, expected |-> Expected(q)]
      record(status) == [status |-> status, expected |-> Expected(q), op |-> req[q].op,
                         old |-> FALSE]
      stale == pointer # NoPointer /\ pointer.pv # Expected(q)
  IN /\ prepared[req[q].op] = NoPreparation
     /\ records[v].status = "absent"
     /\ IF RecordCount < Capacity /\ PreparationCount < Capacity
        THEN /\ records' = [records EXCEPT ![v] = record(IF stale THEN "orphan" ELSE "prepared")]
             /\ prepared' = [prepared EXCEPT ![req[q].op] = receipt]
             /\ GoTo(q, IF stale THEN "idle" ELSE "cas")
        ELSE UNCHANGED <<records, prepared>> /\ Done(q)
     /\ UNCHANGED <<pointer, gcs, tombstones, objects, effects>>

PrepareProjectVersion(q) ==
  /\ req[q].pc = "prepare"
  /\ PrepareAgain(q) \/ PrepareRecorded(q) \/ PrepareNew(q)

\* The record casProjectPointer insists on.
Castable(q) ==
  LET v == req[q].version
  IN /\ records[v].status \notin {"absent", "gc_pending"}
     /\ records[v].expected = Expected(q)

\* The pointer already is what the request asks for.
AlreadyActive(q) ==
  /\ pointer.state = "active"
  /\ pointer.version = req[q].version
  /\ pointer.pv \in {Expected(q), Expected(q) + 1}

\* The record of the version the pointer leaves behind can be orphaned.
PreviousReplaceable(v) ==
  pointer.version \notin {NoVersion, v} =>
    records[pointer.version].status \notin {"absent", "gc_pending"}

\* casProjectPointer against an older pointer: the version is left behind.
CasStale(q) ==
  /\ pointer.pv # Expected(q)
  /\ records' = SetStatus(req[q].version, "orphan")
  /\ UNCHANGED <<pointer, activated>>

\* casProjectPointer that moves the pointer.
CasCurrent(q) ==
  LET v == req[q].version
  IN /\ pointer.pv = Expected(q)
     /\ PreviousReplaceable(v)
     /\ pointer' = [state |-> "active", pv |-> pointer.pv + 1, version |-> v]
     /\ records' = [u \in Versions |->
                      IF u = v THEN [records[u] EXCEPT !.status = "active"]
                      ELSE IF u = pointer.version THEN [records[u] EXCEPT !.status = "orphan"]
                      ELSE records[u]]
     /\ activated' = activated \cup {<<req[q].op, pointer.pv + 1, v>>}

\* casProjectPointer.
CasProjectPointer(q) ==
  /\ req[q].pc = "cas"
  /\ \/ Castable(q) /\ ~AlreadyActive(q) /\ (CasStale(q) \/ CasCurrent(q))
     \/ /\ \/ ~Castable(q)
           \/ AlreadyActive(q)
           \/ pointer.pv = Expected(q) /\ ~PreviousReplaceable(req[q].version)
        /\ UNCHANGED <<pointer, records, activated>>
  /\ Done(q)
  /\ UNCHANGED <<prepared, gcs, tombstones, objects, collected>>

(***************************************************************************)
(* handleGcProject                                                         *)
(***************************************************************************)

\* The request looks for its own operation first, for its retention boundary.
BeginGcRequest(q, v, o) ==
  /\ "gc" \in Kinds
  /\ Receive(q, [IdleRequest EXCEPT !.pc = "gc_begin", !.version = v, !.op = o,
                                    !.prior = (gcs[o] # NoGc)])

\* beginProjectVersionGc of an operation that has a receipt.  A request that
\* did not know of it computed another retention boundary, unless the two
\* were received in the same millisecond.
GcAgain(q) ==
  LET op == gcs[req[q].op]
  IN /\ op # NoGc
     /\ IF op.version # req[q].version THEN Done(q)
        ELSE \/ GoTo(q, IF op.status = "completed" THEN "idle" ELSE "gc_delete")
             \/ ~req[q].prior /\ Done(q)
     /\ UNCHANGED <<coordinatorVars, objects, effects>>

\* Mutant: the pointer of a deleted project does not count.
CollectableUnnamed(v) == records[v].status = "orphan" /\ records[v].old

\* An orphan old enough, which the pointer does not name, deleted or not.
Collectable(v) ==
  /\ records[v].status = "orphan"
  /\ records[v].old
  /\ pointer.version # v

\* The receipts after a completed one made room for another.
GcPruned ==
  LET count == Cardinality({o \in Operations : gcs[o] # NoGc})
      completed == {o \in Operations : gcs[o].status = "completed"}
  IN IF count < Capacity THEN {gcs} ELSE {[gcs EXCEPT ![o] = NoGc] : o \in completed}

\* beginProjectVersionGc of a new operation.
GcNew(q) ==
  LET v == req[q].version
  IN /\ gcs[req[q].op] = NoGc
     /\ IF Collectable(v) /\ GcPruned # {}
        THEN /\ \E kept \in GcPruned :
                  gcs' = [kept EXCEPT ![req[q].op] = [version |-> v, status |-> "pending"]]
             /\ records' = SetStatus(v, "gc_pending")
             /\ collected' = collected \cup {v}
             /\ GoTo(q, "gc_delete")
        ELSE UNCHANGED <<gcs, records, collected>> /\ Done(q)
     /\ UNCHANGED <<pointer, prepared, tombstones, objects, activated>>

BeginProjectVersionGc(q) == req[q].pc = "gc_begin" /\ (GcAgain(q) \/ GcNew(q))

\* deleteGcObject.  Where it fails the operation is left pending.
DeleteGcObject(q) ==
  /\ req[q].pc = "gc_delete"
  /\ objects' = objects \ {req[q].version}
  /\ GoTo(q, "gc_finish")
  /\ UNCHANGED <<coordinatorVars, effects>>

\* finishProjectVersionGc after a deletion.
FinishProjectVersionGc(q) ==
  LET v == req[q].version
      gone == records[v].status = "absent"
      free == records[v].status = "gc_pending" /\ pointer.version # v
  IN /\ req[q].pc = "gc_finish"
     /\ IF gcs[req[q].op].version = v /\ (gone \/ free)
        THEN /\ gcs' = [gcs EXCEPT ![req[q].op].status = "completed"]
             /\ records' = [records EXCEPT ![v] = NoRecord]
             /\ prepared' = [o \in Operations |->
                               IF ~gone /\ o = records[v].op THEN NoPreparation ELSE prepared[o]]
        ELSE UNCHANGED <<gcs, records, prepared>>
     /\ Done(q)
     /\ UNCHANGED <<pointer, tombstones, objects, effects>>

(***************************************************************************)
(* handleDeleteProject                                                     *)
(***************************************************************************)

BeginDelete(q, o) ==
  /\ "delete" \in Kinds
  /\ Receive(q, [IdleRequest EXCEPT !.pc = "previous", !.op = o, !.seen = pointer])

\* readProjectTombstoneOperation: a retry goes on only if the pointer it read
\* is the tombstone it left, a new deletion only if that pointer is active.
ReadTombstoneOperation(q) ==
  LET previous == tombstones[req[q].op]
      seen == req[q].seen
  IN /\ req[q].pc = "previous"
     /\ GoTo(q, IF previous # NoPointer /\ seen = previous THEN "delete"
                ELSE IF previous = NoPointer /\ seen.state = "active" THEN "tombstone"
                ELSE "idle")
     /\ UNCHANGED <<coordinatorVars, objects, effects>>

\* casProjectTombstone.
CasProjectTombstone(q) ==
  LET seen == req[q].seen
      previous == tombstones[req[q].op]
      next == [state |-> "deleted", pv |-> pointer.pv + 1, version |-> pointer.version]
  IN /\ req[q].pc = "tombstone"
     /\ IF previous # NoPointer
        THEN /\ GoTo(q, IF previous.pv = seen.pv + 1 THEN "delete" ELSE "idle")
             /\ UNCHANGED <<pointer, records, tombstones>>
        ELSE IF pointer.state = "active" /\ pointer.pv = seen.pv
        THEN /\ pointer' = next
             /\ tombstones' = [tombstones EXCEPT ![req[q].op] = next]
             /\ records' = IF records[pointer.version].status = "absent" THEN records
                           ELSE SetStatus(pointer.version, "orphan")
             /\ GoTo(q, "delete")
        ELSE Done(q) /\ UNCHANGED <<pointer, records, tombstones>>
     /\ UNCHANGED <<prepared, gcs, objects, effects>>

\* deleteVerified removes the object of the pointer the request has read.
DeleteVerified(q) ==
  /\ req[q].pc = "delete"
  /\ objects' = objects \ {req[q].seen.version}
  /\ Done(q)
  /\ UNCHANGED <<coordinatorVars, effects>>

(***************************************************************************)
(* Failures and time                                                       *)
(***************************************************************************)

\* The request ends early: Core refuses the bundle, the bucket fails, the
\* worker is evicted, the client goes away.
Abandon(q) ==
  /\ req[q].pc # "idle"
  /\ Done(q)
  /\ UNCHANGED <<coordinatorVars, objects, effects>>

\* The retention hour passes.  No request lasts that long.
RetentionPasses ==
  /\ \A q \in Requests : req[q].pc = "idle"
  /\ \E v \in Versions : records[v].status # "absent" /\ ~records[v].old
  /\ records' = [v \in Versions |->
                   IF records[v].status = "absent" THEN records[v]
                   ELSE [records[v] EXCEPT !.old = TRUE]]
  /\ UNCHANGED <<pointer, prepared, gcs, tombstones, objects, req, historyVars>>

UploadStep(q) ==
  \/ \E v \in Versions, o \in Operations : BeginUpload(q, v, o)
  \/ UploadVerified(q)
  \/ PrepareProjectVersion(q)
  \/ CasProjectPointer(q)

GcStep(q) ==
  \/ \E v \in Versions, o \in Operations : BeginGcRequest(q, v, o)
  \/ BeginProjectVersionGc(q)
  \/ DeleteGcObject(q)
  \/ FinishProjectVersionGc(q)

DeleteStep(q) ==
  \/ \E o \in Operations : BeginDelete(q, o)
  \/ ReadTombstoneOperation(q)
  \/ CasProjectTombstone(q)
  \/ DeleteVerified(q)

Next ==
  \/ RetentionPasses
  \/ \E q \in Requests : UploadStep(q) \/ GcStep(q) \/ DeleteStep(q) \/ Abandon(q)

Spec == Init /\ [][Next]_vars

(***************************************************************************)
(* Properties                                                              *)
(***************************************************************************)

\* Uploads of one content under many operation ids, deletions and collections
\* keep the history within its bound, and every record keeps the receipt of
\* the operation that made it, the one receipt its collection gives back
\* (prepareProjectVersion, finishProjectVersionGc).
HistoryWithinBound ==
  /\ PreparationCount <= Capacity /\ RecordCount <= Capacity
  /\ \A v \in Versions : records[v].status # "absent" => prepared[records[v].op].version = v

\* The pointer and the records agree: the active pointer names the one active
\* record, and a tombstone names an orphan that is kept.  Garbage collection
\* that started before never takes the record away (casProjectPointer,
\* casProjectTombstone, beginProjectVersionGc, finishProjectVersionGc).
PointerBacked ==
  \A v \in Versions :
    /\ records[v].status = "active" <=> pointer.state = "active" /\ pointer.version = v
    /\ pointer.state = "deleted" /\ pointer.version = v => records[v].status = "orphan"

\* No lost update: a step that changes the pointer is the step of a request
\* that has read exactly the pointer it replaces, although it read it several
\* calls earlier and may be a retry (handleUpload, handleDeleteProject).
NoLostUpdate ==
  [][pointer' # pointer =>
       /\ pointer'.pv = pointer.pv + 1
       /\ \E q \in Requests :
            /\ req[q].pc \in {"cas", "tombstone"}
            /\ req[q].seen = pointer]_vars

\* An upload takes effect at most once: whatever else happens between its
\* retries, an operation moves the pointer once, until a collection of what it
\* uploaded gives its receipt back (prepareProjectVersion, casProjectPointer).
UploadedOnce ==
  \A a, b \in activated : a[1] = b[1] /\ a # b => a[3] \in collected \/ b[3] \in collected

\* Until a collection of the active version was begun its object is in the
\* bucket: neither the deletion of an earlier pointer, however often it is
\* repeated and however late it gets to the bucket, nor an upload that finds
\* its content already stored leaves the pointer without it (uploadVerified,
\* deleteVerified).
ActiveObjectKept ==
  pointer.state = "active" /\ pointer.version \notin collected => pointer.version \in objects

\* An upload that was answered took effect once and what it activated is
\* stored, up to a collection (handleUpload, handleDeleteProject).
UploadedOnceAndKept == UploadedOnce /\ ActiveObjectKept

\* Does not hold: the object of the active version is in the bucket.  A
\* collection of an orphan deletes the object an upload of the same content
\* has just found stored (uploadVerified, deleteGcObject).
ActiveObjectStored == pointer.state = "active" => pointer.version \in objects
=============================================================================
