------------------------ MODULE InstallationProofs ------------------------
(***************************************************************************)
(* Proofs about an installation (MCInstallation): its projects             *)
(* (ProjectLifecycle), for any number of projects, titles, stage names and *)
(* crashes, and its model services (ModelServices), for any number of      *)
(* endpoints, references, versions and crashes.                            *)
(***************************************************************************)
EXTENDS MCInstallation, TLAPS

(***************************************************************************)
(* Projects                                                                *)
(***************************************************************************)

\* The steps of a creation that come after the publication of its manifest.
PublishedSteps == {"reserve", "schema", "initial", "register"}

\* What is in the registry is in the manifest and in the database as well.
RegistryBacked ==
  \A p \in Projects : registry[p] # NoTitle =>
    /\ manifest[p] = registry[p]
    /\ database[p] = [state |-> "ready", title |-> registry[p]]

\* A creation past the publication owns its manifest and is not registered;
\* the database is new when it is to be reserved, ready when it is registered.
CreationOwns ==
  /\ pc \in PublishedSteps =>
       manifest[request.project] = request.title /\ registry[request.project] = NoTitle
  /\ pc = "reserve" => database[request.project] = NoDatabase
  /\ pc = "register" => database[request.project] = [state |-> "ready", title |-> request.title]

\* No database comes before its manifest.
ManifestFirst == \A p \in Projects : manifest[p] = NoTitle => database[p] = NoDatabase

\* What was answered is registered.
AnsweredRegistered == \A c \in created : registry[c.project] = c.title

\* Without a crash a manifest is registered or its creation in progress.
OwnedWithoutCrash ==
  crashes = 0 =>
    \A p \in Projects : manifest[p] # NoTitle =>
      registry[p] # NoTitle \/ (pc \in PublishedSteps /\ p = request.project)

\* The inductive invariant.
LifecycleInv ==
  /\ TypeOK /\ RegistryBacked /\ CreationOwns /\ ManifestFirst
  /\ AnsweredRegistered /\ OwnedWithoutCrash

\* A new installation satisfies the invariant.
LEMMA InitInv == Init => LifecycleInv
BY LifecycleAssumption
DEF Init, LifecycleInv, TypeOK, RegistryBacked, CreationOwns, ManifestFirst, AnsweredRegistered,
    OwnedWithoutCrash, PublishedSteps, CreateSteps, DatabaseStates, NoDatabase

\* Steps of the host leave the projects as they are.
LEMMA HostPreserves ==
  ASSUME LifecycleInv,
         ReserveGlobal \/ ApplyFreshGlobalSchema \/ OpenGlobal \/ CloseHost \/ Crash
         \/ (Refuse /\ pc \in {"stage", "publish"}) \/ UNCHANGED vars
  PROVE  LifecycleInv'
<1> USE LifecycleAssumption
        DEF LifecycleInv, TypeOK, RegistryBacked, CreationOwns, ManifestFirst, AnsweredRegistered,
            OwnedWithoutCrash, PublishedSteps, CreateSteps, DatabaseStates, NoDatabase, files, vars
<1>1. CASE ReserveGlobal BY <1>1 DEF ReserveGlobal
<1>2. CASE ApplyFreshGlobalSchema BY <1>2 DEF ApplyFreshGlobalSchema
<1>3. CASE OpenGlobal BY <1>3 DEF OpenGlobal
<1>4. CASE CloseHost BY <1>4 DEF CloseHost
<1>5. CASE Crash BY <1>5 DEF Crash
<1>6. CASE Refuse /\ pc \in {"stage", "publish"} BY <1>6 DEF Refuse
<1>7. CASE UNCHANGED vars BY <1>7
<1> QED BY <1>1, <1>2, <1>3, <1>4, <1>5, <1>6, <1>7

\* The steps of a creation, up to its answer.
LEMMA CreationPreserves ==
  ASSUME LifecycleInv,
         \/ \E p \in Projects, t \in Titles, n \in StageNames : CreateProject(p, t, n)
         \/ WriteManifestStage \/ PublishManifest
         \/ ReserveDatabase \/ ApplyFreshProjectSchema \/ InsertInitialProject \/ RegisterProject
  PROVE  LifecycleInv'
<1> USE LifecycleAssumption
        DEF LifecycleInv, TypeOK, RegistryBacked, CreationOwns, ManifestFirst, AnsweredRegistered,
            OwnedWithoutCrash, PublishedSteps, CreateSteps, DatabaseStates, NoDatabase, files
<1>1. ASSUME NEW p \in Projects, NEW t \in Titles, NEW n \in StageNames, CreateProject(p, t, n)
      PROVE  LifecycleInv'
  BY <1>1 DEF CreateProject
<1>2. CASE WriteManifestStage
  <2>1. CASE Refuse BY <1>2, <2>1, HostPreserves DEF WriteManifestStage
  <2>2. CASE ~Refuse BY <1>2, <2>2 DEF WriteManifestStage
  <2> QED BY <2>1, <2>2
<1>3. CASE PublishManifest
  <2>1. CASE Refuse BY <1>3, <2>1, HostPreserves DEF PublishManifest
  <2>2. CASE ~Refuse
    <3> DEFINE q == request.project
    <3>1. /\ q \in Projects /\ request.title \in Titles
          /\ manifest[q] = NoTitle /\ database[q] = NoDatabase /\ registry[q] = NoTitle
      BY <1>3, <2>2 DEF PublishManifest
    <3>2. /\ manifest' = [manifest EXCEPT ![q] = request.title]
          /\ stages' = [stages EXCEPT ![q] = @ \ {request.stage}]
          /\ pc' = "reserve"
          /\ UNCHANGED <<globalDb, registry, database, request, crashes, created>>
      BY <1>3, <2>2 DEF PublishManifest
    <3>3. TypeOK' BY <3>1, <3>2
    <3>4. RegistryBacked' BY <3>1, <3>2
    <3>5. CreationOwns' BY <3>1, <3>2
    <3>6. ManifestFirst' /\ AnsweredRegistered' BY <3>1, <3>2
    <3>7. OwnedWithoutCrash' BY <1>3, <3>1, <3>2 DEF PublishManifest
    <3> QED BY <3>3, <3>4, <3>5, <3>6, <3>7
  <2> QED BY <2>1, <2>2
<1>4. CASE ReserveDatabase BY <1>4 DEF ReserveDatabase, Refuse
<1>5. CASE ApplyFreshProjectSchema BY <1>5 DEF ApplyFreshProjectSchema
<1>6. CASE InsertInitialProject BY <1>6 DEF InsertInitialProject
<1>7. CASE RegisterProject BY <1>7 DEF RegisterProject, Refuse
<1> QED BY <1>1, <1>2, <1>3, <1>4, <1>5, <1>6, <1>7

\* The invariant is inductive.
THEOREM Invariant == Spec => []LifecycleInv
<1>1. LifecycleInv /\ [Next]_vars => LifecycleInv'
  BY HostPreserves, CreationPreserves DEF Next
<1> QED BY InitInv, <1>1, PTL DEF Spec

\* Files, registry and the request in progress are well typed, for any number
\* of projects and crashes.
THEOREM TypeCorrect == Spec => []TypeOK
<1>1. LifecycleInv => TypeOK BY DEF LifecycleInv
<1> QED BY Invariant, <1>1, PTL

\* Every registered project can be opened and listed, whatever creations were
\* interrupted, refused or repeated (create_project, NativeProject::open).
THEOREM RegisteredUsable == Spec => []RegisteredIsUsable
<1>1. LifecycleInv => RegisteredIsUsable
  <2> SUFFICES ASSUME LifecycleInv, NEW p \in Projects, registry[p] # NoTitle
               PROVE  Openable(p) /\ Listable(p)
    BY DEF RegisteredIsUsable
  <2>1. manifest[p] = registry[p] /\ database[p] = [state |-> "ready", title |-> registry[p]]
    BY DEF LifecycleInv, RegistryBacked
  <2> QED BY <2>1 DEF Openable, Listable, SchemaIsCurrent, IdentityMatches
<1> QED BY Invariant, <1>1, PTL

\* A creation that was answered stays what was created, and no later creation
\* of its id is answered (create_project).
THEOREM CreatedAtMostOnce == Spec => []CreatedOnce
<1>1. LifecycleInv => CreatedOnce
  BY DEF LifecycleInv, AnsweredRegistered, CreatedOnce, TypeOK
<1> QED BY Invariant, <1>1, PTL

\* Only a crash leaves a project behind that is neither registered nor being
\* created: no refused request does (create_project, atomic_write_new).
THEOREM RefusalsLeaveNothing == Spec => []AbandonedOnlyAfterCrash
<1>1. LifecycleInv => AbandonedOnlyAfterCrash
  BY DEF LifecycleInv, OwnedWithoutCrash, PublishedSteps, AbandonedOnlyAfterCrash
<1> QED BY Invariant, <1>1, PTL

(***************************************************************************)
(* Model services                                                          *)
(***************************************************************************)

\* Every reference in the database, the keyring or the request was allocated.
RefsAllocated ==
  /\ \A e \in Endpoints : services[e].ref <= refs
  /\ \A r \in secrets : r <= refs
  /\ serviceRequest.new <= refs /\ serviceRequest.current.ref <= refs

\* No two services share a token.
RefsDistinct ==
  \A e, f \in Endpoints : services[e].ref = services[f].ref /\ services[e].ref # Services!NoRef => e = f

\* Until it saves, and while it deletes, a request works on the stored record.
ReadsStored ==
  /\ servicePc \in {"write", "save", "undo", "delete_token", "delete"} =>
       services[serviceRequest.endpoint] = serviceRequest.current
  /\ servicePc \in {"write", "save", "undo"} => serviceRequest.current.version < MaxVersions

\* The reference a request allocated is nobody's until it is saved, and its
\* token is in the keyring by then.
NewIsFresh ==
  /\ servicePc \in {"write", "undo"} => serviceRequest.new # Services!NoRef
  /\ servicePc \in {"write", "save", "undo"} /\ serviceRequest.new # Services!NoRef =>
       \A e \in Endpoints : services[e].ref # serviceRequest.new
  /\ servicePc = "save" => serviceRequest.new \in secrets \cup {Services!NoRef}

\* A token that is being deleted is nobody's any more, or its service's only.
OldIsUnused ==
  /\ servicePc = "delete_old" =>
       /\ serviceRequest.current.ref # Services!NoRef
       /\ \A e \in Endpoints : services[e].ref # serviceRequest.current.ref
  /\ servicePc = "delete" => serviceRequest.current.ref \notin secrets

\* A token only the request in progress still knows of.
InHand(r) ==
  \/ servicePc \in {"save", "undo"} /\ r = serviceRequest.new
  \/ servicePc = "delete_old" /\ r = serviceRequest.current.ref

\* Without a crash the keyring has no token beside these and the stored ones.
AccountedFor ==
  serviceCrashes = 0 =>
    \A r \in secrets : (\E e \in Endpoints : services[e].ref = r) \/ r \in undeleted \/ InHand(r)

\* The inductive invariant of the model services.
ServicesInv ==
  /\ Services!TypeOK /\ RefsAllocated /\ RefsDistinct /\ ReadsStored /\ NewIsFresh /\ OldIsUnused
  /\ AccountedFor /\ Services!CredentialsResolve /\ Services!CatalogIsCurrent

\* An installation without services satisfies the invariant.
LEMMA ServicesInit == Services!Init => ServicesInv
<1> SUFFICES ASSUME Services!Init PROVE ServicesInv OBVIOUS
<1> USE ServicesAssumption
        DEF Services!Init, Services!Services, Services!NoService, Services!NoRef, Services!Refs
<1>1. Services!TypeOK
  <2>1. services \in [Endpoints -> Services!Services \cup {Services!NoService}] OBVIOUS
  <2>2. serviceRequest \in Services!Requests BY DEF Services!Requests
  <2> QED BY <2>1, <2>2 DEF Services!TypeOK, Services!Steps
<1>2. RefsAllocated /\ RefsDistinct BY DEF RefsAllocated, RefsDistinct
<1>3. ReadsStored /\ NewIsFresh /\ OldIsUnused BY DEF ReadsStored, NewIsFresh, OldIsUnused
<1>4. AccountedFor BY DEF AccountedFor
<1>5. Services!CredentialsResolve /\ Services!CatalogIsCurrent
  BY DEF Services!CredentialsResolve, Services!CatalogIsCurrent
<1> QED BY <1>1, <1>2, <1>3, <1>4, <1>5 DEF ServicesInv

\* A request begins: it reads the record, and its reference is a fresh one.
LEMMA BeginPreserves ==
  ASSUME ServicesInv, NEW e \in Endpoints, NEW token \in BOOLEAN, NEW discover \in BOOLEAN,
         NEW step \in {"write", "save", "delete_token", "delete", "discover"},
         Services!Begin(e, token, discover, step),
         step = "write" => token,
         step = "save" => ~token,
         step \in {"write", "save"} => services[e].version < MaxVersions,
         step = "delete" => services[e].ref = Services!NoRef,
         step \in {"delete_token", "delete", "discover"} => ~token
  PROVE  ServicesInv'
<1> USE ServicesAssumption
        DEF ServicesInv, Services!TypeOK, RefsAllocated, RefsDistinct, ReadsStored, NewIsFresh,
            OldIsUnused, Services!CredentialsResolve, Services!CatalogIsCurrent,
            Services!Services, Services!NoService, Services!NoRef, Services!Refs, Services!Requests,
            Services!Steps, Services!Begin
<1>1. Services!TypeOK' OBVIOUS
<1>2. RefsAllocated' OBVIOUS
<1>3. RefsDistinct' OBVIOUS
<1>4. ReadsStored' OBVIOUS
<1>5. NewIsFresh' OBVIOUS
<1>6. OldIsUnused' OBVIOUS
<1>7. AccountedFor' BY DEF AccountedFor, InHand
<1>8. Services!CredentialsResolve' OBVIOUS
<1>9. Services!CatalogIsCurrent' OBVIOUS
<1> QED BY <1>1, <1>2, <1>3, <1>4, <1>5, <1>6, <1>7, <1>8, <1>9

\* The steps of a request, its failures and its loss in a crash.
LEMMA StepPreserves ==
  ASSUME ServicesInv,
         \/ Services!WriteSecret \/ Services!SaveModelService \/ Services!UndoWrite
         \/ Services!DeleteOldSecret \/ Services!DeleteServiceSecret \/ Services!DeleteModelService
         \/ Services!DiscoverService \/ Services!Crash \/ UNCHANGED serviceVars
  PROVE  ServicesInv'
<1> USE ServicesAssumption
        DEF ServicesInv, Services!TypeOK, RefsAllocated, RefsDistinct, ReadsStored, NewIsFresh,
            OldIsUnused, Services!CredentialsResolve, Services!CatalogIsCurrent,
            AccountedFor, InHand, Services!Return,
            Services!Services, Services!NoService, Services!NoRef, Services!Refs, Services!Requests,
            Services!Steps
<1>1. CASE Services!WriteSecret
  <2> USE <1>1 DEF Services!WriteSecret
  <2>1. Services!TypeOK' OBVIOUS
  <2>2. RefsAllocated' OBVIOUS
  <2>8. RefsDistinct' OBVIOUS
  <2>3. ReadsStored' OBVIOUS
  <2>4. NewIsFresh' /\ OldIsUnused' OBVIOUS
  <2>5. AccountedFor' OBVIOUS
  <2>6. Services!CredentialsResolve' OBVIOUS
  <2>7. Services!CatalogIsCurrent' OBVIOUS
  <2> QED BY <2>1, <2>2, <2>3, <2>4, <2>5, <2>6, <2>7, <2>8
<1>2. CASE Services!SaveModelService
  <2> DEFINE e == serviceRequest.endpoint
             new == Services!Saved(serviceRequest)
  <2>1. CASE /\ services' = [services EXCEPT ![e] = new]
             /\ interrupted' = interrupted \ {e}
             /\ servicePc' = IF serviceRequest.current.ref # Services!NoRef THEN "delete_old"
                             ELSE IF serviceRequest.discover THEN "discover" ELSE "idle"
             /\ UNCHANGED <<secrets, refs, serviceRequest, serviceCrashes, undeleted>>
    <3>1. /\ servicePc = "save" /\ e \in Endpoints /\ new \in Services!Services
          /\ new.ref = serviceRequest.new /\ new.catalog = 0
      BY <1>2 DEF Services!SaveModelService, Services!Saved
    <3> HIDE DEF new
    <3>2. services' \in [Endpoints -> Services!Services \cup {Services!NoService}]
      BY <2>1, <3>1
    <3>3. \A f \in Endpoints : services'[f] = IF f = e THEN new ELSE services[f]
      BY <2>1, <3>1
    <3>4. Services!TypeOK' BY <2>1, <3>1, <3>2
    <3>5. RefsAllocated' BY <2>1, <3>1, <3>3
    <3>6. RefsDistinct' BY <2>1, <3>1, <3>3
    <3>7. ReadsStored' /\ NewIsFresh' BY <2>1, <3>1, <3>3
    <3>8. OldIsUnused' BY <2>1, <3>1, <3>3
    <3>9. AccountedFor' BY <2>1, <3>1, <3>3
    <3>10. Services!CredentialsResolve' BY <2>1, <3>1, <3>3
    <3>11. Services!CatalogIsCurrent' BY <2>1, <3>1, <3>3
    <3> QED BY <3>4, <3>5, <3>6, <3>7, <3>8, <3>9, <3>10, <3>11
  <2>2. CASE /\ servicePc' \in {"undo", "idle"}
             /\ servicePc' = "idle" => serviceRequest.new = Services!NoRef
             /\ servicePc' = "undo" => serviceRequest.new # Services!NoRef
             /\ UNCHANGED <<services, secrets, refs, serviceRequest, serviceCrashes, undeleted, interrupted>>
    <3>1. servicePc = "save" BY <1>2 DEF Services!SaveModelService
    <3> QED BY <2>2, <3>1
  <2> QED BY <1>2, <2>1, <2>2 DEF Services!SaveModelService
<1>3. CASE Services!UndoWrite BY <1>3 DEF Services!UndoWrite, Services!DeleteSecret
<1>4. CASE Services!DeleteOldSecret
  <2> DEFINE r == serviceRequest.current.ref
  <2>1. /\ servicePc = "delete_old" /\ r \in Services!Refs /\ servicePc' \in {"discover", "idle"}
        /\ UNCHANGED <<services, refs, serviceRequest, serviceCrashes, interrupted>>
    BY <1>4 DEF Services!DeleteOldSecret
  <2>2. \/ secrets' = secrets \ {r} /\ UNCHANGED undeleted
        \/ undeleted' = undeleted \cup {r} /\ UNCHANGED secrets
    BY <1>4 DEF Services!DeleteOldSecret, Services!DeleteSecret
  <2>3. Services!TypeOK' BY <2>1, <2>2
  <2>4. RefsAllocated' /\ RefsDistinct' BY <2>1, <2>2
  <2>5. ReadsStored' /\ NewIsFresh' /\ OldIsUnused' BY <2>1
  <2>6. AccountedFor'
    <3> SUFFICES ASSUME serviceCrashes = 0, NEW s \in secrets'
                 PROVE  (\E e \in Endpoints : services[e].ref = s) \/ s \in undeleted'
      BY <2>1
    <3>1. s \in secrets /\ (s = r => s \in undeleted') /\ undeleted \subseteq undeleted' BY <2>2
    <3>2. InHand(s) => s = r BY <2>1
    <3> QED BY <3>1, <3>2
  <2>7. Services!CredentialsResolve' BY <2>1, <2>2
  <2>8. Services!CatalogIsCurrent' BY <2>1
  <2> QED BY <2>3, <2>4, <2>5, <2>6, <2>7, <2>8
<1>5. CASE Services!DeleteServiceSecret
  <2> DEFINE r == serviceRequest.current.ref
  <2>1. CASE /\ secrets' = secrets \ {r}
             /\ servicePc' = "delete"
             /\ UNCHANGED <<services, refs, serviceRequest, serviceCrashes, undeleted, interrupted>>
    <3>1. servicePc = "delete_token" BY <1>5 DEF Services!DeleteServiceSecret
    <3>2. Services!TypeOK' BY <2>1
    <3>3. RefsAllocated' /\ RefsDistinct' BY <2>1
    <3>4. ReadsStored' /\ NewIsFresh' /\ OldIsUnused' BY <2>1, <3>1
    <3>5. AccountedFor' BY <2>1, <3>1
    <3>6. Services!CredentialsResolve' BY <2>1, <3>1
    <3>7. Services!CatalogIsCurrent' BY <2>1
    <3> QED BY <3>2, <3>3, <3>4, <3>5, <3>6, <3>7
  <2>2. CASE servicePc' = "idle"
             /\ UNCHANGED <<services, secrets, refs, serviceRequest, serviceCrashes, undeleted, interrupted>>
    <3>1. servicePc = "delete_token" BY <1>5 DEF Services!DeleteServiceSecret
    <3> QED BY <2>2, <3>1
  <2> QED BY <1>5, <2>1, <2>2 DEF Services!DeleteServiceSecret
<1>6. CASE Services!DeleteModelService BY <1>6 DEF Services!DeleteModelService
<1>7. CASE Services!DiscoverService BY <1>7 DEF Services!DiscoverService
<1>8. CASE Services!Crash BY <1>8 DEF Services!Crash
<1>9. CASE UNCHANGED serviceVars BY <1>9 DEF serviceVars
<1> QED BY <1>1, <1>2, <1>3, <1>4, <1>5, <1>6, <1>7, <1>8, <1>9

\* The invariant is inductive, in an installation as for the services alone.
THEOREM ServicesInvariant == InstallationSpec => []ServicesInv
<1>1. InstallationInit => ServicesInv BY ServicesInit DEF InstallationInit
<1>2. ServicesInv /\ Services!Next => ServicesInv'
  <2> SUFFICES ASSUME ServicesInv, Services!Next PROVE ServicesInv' OBVIOUS
  <2> USE DEF Services!ModelServiceAdd, Services!ModelServiceTokenReplace,
              Services!ModelServiceTokenRemove, Services!ModelServiceDelete,
              Services!ModelServiceDiscover
  <2>1. ASSUME NEW e \in Endpoints,
               \/ \E token \in BOOLEAN : Services!ModelServiceAdd(e, token)
               \/ Services!ModelServiceTokenReplace(e) \/ Services!ModelServiceTokenRemove(e)
               \/ Services!ModelServiceDelete(e) \/ Services!ModelServiceDiscover(e)
        PROVE  ServicesInv'
    <3>1. ASSUME NEW token \in BOOLEAN, Services!ModelServiceAdd(e, token) PROVE ServicesInv'
      BY <3>1, BeginPreserves
    <3>2. CASE Services!ModelServiceTokenReplace(e)
      <4>1. services[e].version < MaxVersions BY <3>2, ServicesAssumption
      <4> QED BY <3>2, <4>1, BeginPreserves
    <3>3. CASE Services!ModelServiceTokenRemove(e)
      <4>1. services[e].version < MaxVersions BY <3>3, ServicesAssumption
      <4> QED BY <3>3, <4>1, BeginPreserves
    <3>4. CASE Services!ModelServiceDelete(e) BY <3>4, BeginPreserves
    <3>5. CASE Services!ModelServiceDiscover(e) BY <3>5, BeginPreserves
    <3> QED BY <2>1, <3>1, <3>2, <3>3, <3>4, <3>5
  <2> QED BY <2>1, StepPreserves DEF Services!Next
<1>3. ServicesInv /\ [InstallationNext]_<<vars, serviceVars, subject>> => ServicesInv'
  BY <1>2, StepPreserves DEF InstallationNext
<1> QED BY <1>1, <1>3, PTL DEF InstallationSpec

\* Services, keyring and the request in progress are well typed.
THEOREM ServicesTyped == InstallationSpec => []Services!TypeOK
<1>1. ServicesInv => Services!TypeOK BY DEF ServicesInv
<1> QED BY ServicesInvariant, <1>1, PTL

\* Database and keyring agree in both directions, whatever failed or was cut
\* off between the two stores: a stored reference has its token unless its
\* service is being deleted, and no token is forgotten without a crash or a
\* refusal of the keyring (save_model_service, delete_model_service).
THEOREM KeyringAgrees == InstallationSpec => []TokensMatchServices
<1>1. ServicesInv => TokensMatchServices
  BY DEF ServicesInv, Services!TypeOK, AccountedFor, InHand, TokensMatchServices,
         Services!TokensMatchServices, Services!NoForgottenTokens, Services!Referenced,
         Services!Refs, Services!NoRef
<1> QED BY ServicesInvariant, <1>1, PTL

\* A recorded catalog was read with the present endpoint and token, although
\* nothing compares versions when it is recorded (record_model_catalog).
THEOREM CatalogCurrent == InstallationSpec => []CatalogIsCurrent
<1>1. ServicesInv => CatalogIsCurrent BY DEF ServicesInv, CatalogIsCurrent
<1> QED BY ServicesInvariant, <1>1, PTL
=============================================================================
