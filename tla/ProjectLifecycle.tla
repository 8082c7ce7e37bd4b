-------------------------- MODULE ProjectLifecycle --------------------------
(***************************************************************************)
(* How the global state and the projects of an installation come to exist  *)
(* (HostBridgeRuntime::open_internal and create_project in core/bridge.rs, *)
(* NativeProject and ProjectDatabase in core/store.rs, GlobalDatabase in   *)
(* core/global_store.rs, atomic_write_new in native/lib.rs).               *)
(*                                                                         *)
(* A host holds .global.lock while it runs, so one request is in progress  *)
(* at a time, and a creation is a sequence of durable steps in the file    *)
(* system, the project database and the registry.  The process can die     *)
(* between any two of them; nothing is undone, neither then nor when a     *)
(* step is refused.  Paths, permissions and the identity checks of the     *)
(* file guards are left out: no other program touches the files.           *)
(***************************************************************************)
EXTENDS Naturals, FiniteSets

CONSTANTS
  Projects,    \* project ids
  Titles,      \* what else a manifest says: title and language
  StageNames,  \* names of stage files: process id and a sequence number, which recur
  MaxCrashes,  \* bound: crashes of the host
  NoTitle

ASSUME LifecycleAssumption == NoTitle \notin Titles /\ MaxCrashes \in Nat

VARIABLES
  globalDb,   \* global.sqlite
  registry,   \* project_registry: the title of every registered project
  manifest,   \* quillframe.toml of every project directory
  stages,     \* the stage files of every project directory
  database,   \* project.sqlite: how far it is, and project_identity
  pc,         \* where the host is
  request,    \* the creation in progress
  crashes,
  created     \* the creations that were answered

files == <<manifest, stages, database>>
vars == <<globalDb, registry, files, pc, request, crashes, created>>

DatabaseStates == {"absent", "empty", "schema", "ready"}
NoDatabase == [state |-> "absent", title |-> NoTitle]

CreateSteps == {"stage", "publish", "reserve", "schema", "initial", "register"}

\* Files, registry and the request in progress are well typed (NativeProject).
TypeOK ==
  /\ globalDb \in DatabaseStates \ {"schema"}
  /\ registry \in [Projects -> Titles \cup {NoTitle}]
  /\ manifest \in [Projects -> Titles \cup {NoTitle}]
  /\ stages \in [Projects -> SUBSET StageNames]
  /\ database \in [Projects -> [state : DatabaseStates, title : Titles \cup {NoTitle}]]
  /\ pc \in {"down", "global_schema", "idle"} \cup CreateSteps
  /\ request \in [project : Projects, title : Titles, stage : StageNames]
  /\ crashes \in 0..MaxCrashes
  /\ created \subseteq [project : Projects, title : Titles]

Init ==
  /\ globalDb = "absent"
  /\ registry = [p \in Projects |-> NoTitle]
  /\ manifest = [p \in Projects |-> NoTitle]
  /\ stages = [p \in Projects |-> {}]
  /\ database = [p \in Projects |-> NoDatabase]
  /\ pc = "down"
  /\ request \in [project : Projects, title : Titles, stage : StageNames]
  /\ crashes = 0
  /\ created = {}

(***************************************************************************)
(* The host                                                                *)
(***************************************************************************)

\* GlobalDatabase::create, when global.sqlite does not exist: the file is
\* reserved, then its schema is one transaction.
ReserveGlobal ==
  /\ pc = "down" /\ globalDb = "absent"
  /\ globalDb' = "empty"
  /\ pc' = "global_schema"
  /\ UNCHANGED <<registry, files, request, crashes, created>>

ApplyFreshGlobalSchema ==
  /\ pc = "global_schema"
  /\ globalDb' = "ready"
  /\ pc' = "idle"
  /\ UNCHANGED <<registry, files, request, crashes, created>>

\* GlobalDatabase::open, whenever the file exists: any other than the exact
\* schema is refused.
OpenGlobal ==
  /\ pc = "down" /\ globalDb = "ready"
  /\ pc' = "idle"
  /\ UNCHANGED <<globalDb, registry, files, request, crashes, created>>

CloseHost ==
  /\ pc = "idle"
  /\ pc' = "down"
  /\ UNCHANGED <<globalDb, registry, files, request, crashes, created>>

Crash ==
  /\ pc # "down" /\ crashes < MaxCrashes
  /\ crashes' = crashes + 1
  /\ pc' = "down"
  /\ UNCHANGED <<globalDb, registry, files, request, created>>

(***************************************************************************)
(* project.create                                                          *)
(***************************************************************************)

\* A step the file system or the database refuses ends the request.
Refuse == pc' = "idle" /\ UNCHANGED <<globalDb, registry, files, request, crashes, created>>

\* The project directory is created, or used as it is.
CreateProject(p, t, n) ==
  /\ pc = "idle"
  /\ request' = [project |-> p, title |-> t, stage |-> n]
  /\ pc' = "stage"
  /\ UNCHANGED <<globalDb, registry, files, crashes, created>>

\* atomic_write_new: the manifest is written to a stage file that must be new.
WriteManifestStage ==
  /\ pc = "stage"
  /\ IF request.stage \in stages[request.project] THEN Refuse
     ELSE /\ stages' = [stages EXCEPT ![request.project] = @ \cup {request.stage}]
          /\ pc' = "publish"
          /\ UNCHANGED <<globalDb, registry, manifest, database, request, crashes, created>>

\* Mutant: the rename replaces an existing manifest.
PublishManifestReplacing ==
  /\ pc = "publish"
  /\ manifest' = [manifest EXCEPT ![request.project] = request.title]
  /\ stages' = [stages EXCEPT ![request.project] = @ \ {request.stage}]
  /\ pc' = "reserve"
  /\ UNCHANGED <<globalDb, registry, database, request, crashes, created>>

\* It is renamed to its place unless there is a manifest; refused, it stays.
PublishManifest ==
  /\ pc = "publish"
  /\ IF manifest[request.project] # NoTitle THEN Refuse
     ELSE /\ manifest' = [manifest EXCEPT ![request.project] = request.title]
          /\ stages' = [stages EXCEPT ![request.project] = @ \ {request.stage}]
          /\ pc' = "reserve"
          /\ UNCHANGED <<globalDb, registry, database, request, crashes, created>>

\* create_reserved: project.sqlite must be new.
ReserveDatabase ==
  /\ pc = "reserve"
  /\ IF database[request.project] # NoDatabase THEN Refuse
     ELSE /\ database' = [database EXCEPT ![request.project].state = "empty"]
          /\ pc' = "schema"
          /\ UNCHANGED <<globalDb, registry, manifest, stages, request, crashes, created>>

\* The schema is one transaction, the first story nodes and the identity of
\* the project another.
ApplyFreshProjectSchema ==
  /\ pc = "schema"
  /\ database' = [database EXCEPT ![request.project].state = "schema"]
  /\ pc' = "initial"
  /\ UNCHANGED <<globalDb, registry, manifest, stages, request, crashes, created>>

InsertInitialProject ==
  /\ pc = "initial"
  /\ database' = [database EXCEPT ![request.project] = [state |-> "ready", title |-> request.title]]
  /\ pc' = "register"
  /\ UNCHANGED <<globalDb, registry, manifest, stages, request, crashes, created>>

\* The project is registered, unless the id is, and the request answered.
RegisterProject ==
  /\ pc = "register"
  /\ IF registry[request.project] # NoTitle THEN Refuse
     ELSE /\ registry' = [registry EXCEPT ![request.project] = request.title]
          /\ created' = created \cup {[project |-> request.project, title |-> request.title]}
          /\ pc' = "idle"
          /\ UNCHANGED <<globalDb, files, request, crashes>>

Next ==
  \/ ReserveGlobal \/ ApplyFreshGlobalSchema \/ OpenGlobal \/ CloseHost \/ Crash
  \/ \E p \in Projects, t \in Titles, n \in StageNames : CreateProject(p, t, n)
  \/ WriteManifestStage \/ PublishManifest
  \/ ReserveDatabase \/ ApplyFreshProjectSchema \/ InsertInitialProject \/ RegisterProject

Spec == Init /\ [][Next]_vars

(***************************************************************************)
(* Properties                                                              *)
(***************************************************************************)

\* What opening a project requires of its database: the exact schema, and the
\* identity of the manifest, which is written last.
SchemaIsCurrent(p) == database[p].state \in {"schema", "ready"}
IdentityMatches(p) == database[p].state = "ready" /\ database[p].title = manifest[p]

\* NativeProject::open accepts the directory.
Openable(p) == manifest[p] # NoTitle /\ SchemaIsCurrent(p) /\ IdentityMatches(p)

\* project.list accepts the entry of the registry.
Listable(p) == manifest[p] = registry[p]

\* Every registered project can be opened, and project.list, which fails as a
\* whole when the manifest of one registered project differs from its entry,
\* works: whatever creations were interrupted, refused or repeated with
\* another title.
RegisteredIsUsable ==
  \A p \in Projects : registry[p] # NoTitle => Openable(p) /\ Listable(p)

\* An id is created once: a creation that was answered stays what the registry,
\* the manifest and the database say, and no later creation of the same id is
\* answered.
CreatedOnce ==
  /\ \A c \in created : registry[c.project] = c.title
  /\ \A c, d \in created : c.project = d.project => c = d

\* Only a crash leaves a project behind that is neither registered nor being
\* created: no refused request does.
AbandonedOnlyAfterCrash ==
  crashes = 0 /\ pc = "idle"
  => \A p \in Projects : manifest[p] # NoTitle => registry[p] # NoTitle

\* Does not hold: a creation that was interrupted leaves an id that can be
\* created again or is registered already.  After a crash behind the manifest
\* it can be neither created nor opened (create_project).
InterruptedCreationRecovers ==
  pc = "idle" => \A p \in Projects : manifest[p] # NoTitle => registry[p] # NoTitle

\* Does not hold: a host that died while it created the global state can be
\* started again (open_internal, GlobalDatabase::create).
InterruptedStartRecovers == pc = "down" => globalDb # "empty"
=============================================================================
