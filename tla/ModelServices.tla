---------------------------- MODULE ModelServices ----------------------------
(***************************************************************************)
(* The model services of an installation and their access tokens           *)
(* (model_service_* and discover_service in core/bridge.rs, model_services *)
(* in core/global_store.rs, OsSecretStore in secrets/lib.rs).              *)
(*                                                                         *)
(* The database stores a reference to a token, the keyring of the system   *)
(* the token itself, and no transaction covers both.  Requests exclude     *)
(* each other (.global.lock); the process can die between two steps, and   *)
(* every call of the keyring and of the service may fail.  Tokens are left *)
(* out: a reference names one token for ever.                              *)
(***************************************************************************)
EXTENDS Naturals, FiniteSets

CONSTANTS
  Endpoints,    \* URLs of services; a service is found by its URL
  MaxRefs,      \* bound: references ever allocated
  MaxVersions,  \* bound: versions of a service
  MaxCrashes    \* bound: crashes of the host

VARIABLES
  services,    \* model_services, by endpoint
  secrets,     \* the references the keyring has a token for
  refs,        \* references allocated so far
  pc, request, \* the request in progress: its step, what it read and what it writes
  crashes,
  undeleted,   \* tokens a request could not delete
  interrupted  \* endpoints whose deletion was cut off

vars == <<services, secrets, refs, pc, request, crashes, undeleted, interrupted>>

NoRef == 0
Refs == 1..MaxRefs

\* catalog is the version whose endpoint and token the recorded snapshot was
\* read with, 0 if there is no snapshot; version 0 is no service.
Services == [version : 1..MaxVersions, ref : Refs \cup {NoRef}, catalog : 0..MaxVersions]
NoService == [version |-> 0, ref |-> NoRef, catalog |-> 0]

\* What a request read first (current), the reference it allocated (new) and
\* whether the saved record is to be looked up at the service (add only).
Requests == [endpoint : Endpoints, current : Services \cup {NoService}, new : Refs \cup {NoRef},
             discover : BOOLEAN]

Steps == {"idle", "write", "save", "undo", "delete_old", "delete_token", "delete", "discover"}

\* Services, keyring and the request in progress are well typed (model_services).
TypeOK ==
  /\ services \in [Endpoints -> Services \cup {NoService}]
  /\ secrets \subseteq Refs
  /\ refs \in 0..MaxRefs
  /\ pc \in Steps
  /\ request \in Requests
  /\ crashes \in 0..MaxCrashes
  /\ undeleted \subseteq Refs
  /\ interrupted \subseteq Endpoints

Init ==
  /\ services = [e \in Endpoints |-> NoService]
  /\ secrets = {}
  /\ refs = 0
  /\ pc = "idle"
  /\ request \in [endpoint : Endpoints, current : {NoService}, new : {NoRef}, discover : {FALSE}]
  /\ crashes = 0
  /\ undeleted = {}
  /\ interrupted = {}

(***************************************************************************)
(* Requests                                                                *)
(***************************************************************************)

\* The record is read; a token gets a fresh reference.
Begin(e, token, discover, step) ==
  /\ pc = "idle"
  /\ token => refs < MaxRefs
  /\ refs' = IF token THEN refs + 1 ELSE refs
  /\ request' = [endpoint |-> e, current |-> services[e], new |-> IF token THEN refs + 1 ELSE NoRef,
                 discover |-> discover]
  /\ pc' = step
  /\ UNCHANGED <<services, secrets, crashes, undeleted, interrupted>>

\* model.service.add, with or without a token: also how the service at an
\* endpoint is configured anew.
ModelServiceAdd(e, token) ==
  services[e].version < MaxVersions /\ Begin(e, token, TRUE, IF token THEN "write" ELSE "save")

\* model.service.token.replace and model.service.token.remove.
ModelServiceTokenReplace(e) ==
  services[e].version \in 1..MaxVersions - 1 /\ Begin(e, TRUE, FALSE, "write")
ModelServiceTokenRemove(e) ==
  services[e].version \in 1..MaxVersions - 1 /\ Begin(e, FALSE, FALSE, "save")

\* model.service.delete.
ModelServiceDelete(e) ==
  Begin(e, FALSE, FALSE, IF services[e].ref = NoRef THEN "delete" ELSE "delete_token")

\* model.service.discover and model.service.test.
ModelServiceDiscover(e) == services[e] # NoService /\ Begin(e, FALSE, TRUE, "discover")

Return == pc' = "idle" /\ UNCHANGED <<refs, request, crashes>>

(***************************************************************************)
(* Steps                                                                   *)
(***************************************************************************)

\* write_secret: the token is stored before its reference is.
WriteSecret ==
  /\ pc = "write"
  /\ \/ /\ secrets' = secrets \cup {request.new}
        /\ pc' = "save"
        /\ UNCHANGED <<services, refs, request, crashes, undeleted, interrupted>>
     \/ Return /\ UNCHANGED <<services, secrets, undeleted, interrupted>>

\* Mutant: the snapshot of the previous configuration is kept.
SavedKeepingCatalog(r) ==
  [version |-> r.current.version + 1, ref |-> r.new, catalog |-> r.current.catalog]

\* save_model_service: a new version, without a snapshot.
Saved(r) == [version |-> r.current.version + 1, ref |-> r.new, catalog |-> 0]

\* It fails if the stored version is not the one that was read, or as any
\* transaction may; a token that was written is then deleted again.
SaveModelService ==
  LET e == request.endpoint
  IN /\ pc = "save"
     /\ \/ /\ services[e].version = request.current.version
           /\ services' = [services EXCEPT ![e] = Saved(request)]
           /\ interrupted' = interrupted \ {e}
           /\ pc' = IF request.current.ref # NoRef THEN "delete_old"
                    ELSE IF request.discover THEN "discover" ELSE "idle"
           /\ UNCHANGED <<secrets, refs, request, crashes, undeleted>>
        \/ IF request.new = NoRef
           THEN Return /\ UNCHANGED <<services, secrets, undeleted, interrupted>>
           ELSE /\ pc' = "undo"
                /\ UNCHANGED <<services, secrets, refs, request, crashes, undeleted, interrupted>>

\* delete_secret; a token that is missing already counts as deleted.
DeleteSecret(ref) ==
  \/ secrets' = secrets \ {ref} /\ UNCHANGED undeleted
  \/ undeleted' = undeleted \cup {ref} /\ UNCHANGED secrets

\* Mutant: the written token is forgotten.
UndoWriteOmitted ==
  /\ pc = "undo"
  /\ Return /\ UNCHANGED <<services, secrets, undeleted, interrupted>>

\* The failure of this deletion is ignored.
UndoWrite ==
  /\ pc = "undo"
  /\ DeleteSecret(request.new)
  /\ Return /\ UNCHANGED <<services, interrupted>>

\* The token of the previous version; its failure ends the request.
DeleteOldSecret ==
  /\ pc = "delete_old"
  /\ DeleteSecret(request.current.ref)
  /\ pc' = IF request.discover /\ undeleted' = undeleted THEN "discover" ELSE "idle"
  /\ UNCHANGED <<services, refs, request, crashes, interrupted>>

\* A service is deleted after its token.
DeleteServiceSecret ==
  /\ pc = "delete_token"
  /\ \/ /\ secrets' = secrets \ {request.current.ref}
        /\ pc' = "delete"
        /\ UNCHANGED <<services, refs, request, crashes, undeleted, interrupted>>
     \/ Return /\ UNCHANGED <<services, secrets, undeleted, interrupted>>

DeleteModelService ==
  /\ pc = "delete"
  /\ \/ /\ services' = [services EXCEPT ![request.endpoint] = NoService]
        /\ interrupted' = interrupted \ {request.endpoint}
     \/ interrupted' = interrupted \cup {request.endpoint} /\ UNCHANGED services
  /\ Return /\ UNCHANGED <<secrets, undeleted>>

\* The record is read again and the service asked with its token, which fails
\* if the keyring has none; record_model_catalog does not compare versions.
\* Reading, asking and recording are one step: the runtime of the request holds
\* .global.lock to its end, while it waits for the answer as well.
DiscoverService ==
  LET e == request.endpoint
      read == services[e]
  IN /\ pc = "discover"
     /\ \/ /\ read.ref \in secrets \cup {NoRef}
           /\ services' = [services EXCEPT ![e].catalog = read.version]
        \/ UNCHANGED services
     /\ Return /\ UNCHANGED <<secrets, undeleted, interrupted>>

Crash ==
  /\ pc # "idle" /\ crashes < MaxCrashes
  /\ crashes' = crashes + 1
  /\ interrupted' = IF pc = "delete" THEN interrupted \cup {request.endpoint}
                    ELSE interrupted
  /\ pc' = "idle"
  /\ UNCHANGED <<services, secrets, refs, request, undeleted>>

Next ==
  \/ \E e \in Endpoints :
       \/ \E token \in BOOLEAN : ModelServiceAdd(e, token)
       \/ ModelServiceTokenReplace(e) \/ ModelServiceTokenRemove(e)
       \/ ModelServiceDelete(e) \/ ModelServiceDiscover(e)
  \/ WriteSecret \/ SaveModelService \/ UndoWrite \/ DeleteOldSecret
  \/ DeleteServiceSecret \/ DeleteModelService \/ DiscoverService
  \/ Crash

Spec == Init /\ [][Next]_vars

(***************************************************************************)
(* Properties                                                              *)
(***************************************************************************)

\* The references that are stored.
Referenced == {services[e].ref : e \in Endpoints} \ {NoRef}

\* A reference in the database names a token in the keyring, whatever failed
\* or was cut off between the two stores: except of a service that its user
\* is deleting or was deleting when the host died.
CredentialsResolve ==
  \A e \in Endpoints :
    \/ services[e].ref \in secrets \cup {NoRef}
    \/ e \in interrupted
    \/ pc = "delete" /\ request.endpoint = e

\* A token is deleted from the keyring when no service refers to it any more:
\* what is left behind is only what the keyring refused to delete, or what a
\* crash cut off.
NoForgottenTokens ==
  pc = "idle" /\ crashes = 0 => secrets \subseteq Referenced \cup undeleted

\* Database and keyring agree in both directions (save_model_service,
\* delete_model_service).
TokensMatchServices == CredentialsResolve /\ NoForgottenTokens

\* The recorded catalog was read with the endpoint and the token that are
\* configured now, although nothing compares versions when it is recorded.
CatalogIsCurrent ==
  \A e \in Endpoints : services[e].catalog \in {0, services[e].version}
=============================================================================
