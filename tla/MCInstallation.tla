--------------------------- MODULE MCInstallation ---------------------------
(***************************************************************************)
(* An installation: its global state and projects (ProjectLifecycle) and   *)
(* its model services (ModelServices).  Requests exclude each other and    *)
(* the two parts share no state, so that what one of them can do does not  *)
(* depend on the other: a behaviour of both is one of each, and TLC        *)
(* explores the parts one at a time.                                       *)
(***************************************************************************)
EXTENDS ProjectLifecycle, TLC

CONSTANTS Endpoints, MaxRefs, MaxVersions, MaxServiceCrashes

ASSUME ServicesAssumption == MaxRefs \in Nat /\ MaxVersions \in Nat /\ MaxServiceCrashes \in Nat

VARIABLES
  services, secrets, refs, servicePc, serviceRequest, serviceCrashes, undeleted, interrupted,
  subject   \* the part that is explored

serviceVars == <<services, secrets, refs, servicePc, serviceRequest, serviceCrashes, undeleted, interrupted>>

Services == INSTANCE ModelServices
  WITH pc <- servicePc, request <- serviceRequest, crashes <- serviceCrashes,
       MaxCrashes <- MaxServiceCrashes

InstallationInit == Init /\ Services!Init /\ subject \in {"projects", "services"}

InstallationNext ==
  /\ UNCHANGED subject
  /\ \/ subject = "projects" /\ Next /\ UNCHANGED serviceVars
     \/ subject = "services" /\ Services!Next /\ UNCHANGED vars

InstallationSpec == InstallationInit /\ [][InstallationNext]_<<vars, serviceVars, subject>>

\* A service's token is in the keyring, and no other token is (ModelServices).
TokensMatchServices == Services!TokensMatchServices

\* A recorded catalog is the one of the present service (ModelServices).
CatalogIsCurrent == Services!CatalogIsCurrent

Symmetry == Permutations(Projects) \cup Permutations(Titles) \cup Permutations(StageNames)
            \cup Permutations(Endpoints)
=============================================================================
