--------------------------- MODULE MCHostedAccess ---------------------------
(***************************************************************************)
(* Access to the hosted deployment: the proofs of single requests          *)
(* (CoreNonces) and logins, sessions and their secrets (HostedSessions).   *)
(* The parts share the clock and no record, so that TLC explores them one  *)
(* at a time.                                                              *)
(*                                                                         *)
(* Two deliveries of the callback of one login, or of two logins, and one  *)
(* read of a secret; four proofs, two of which carry the same nonce, and   *)
(* room for two: the index fills, a proof is replayed on both sides of     *)
(* every boundary, and a nonce is used by another proof during and after   *)
(* the window of the first.                                                *)
(***************************************************************************)
EXTENDS CoreNonces, TLC

CONSTANTS
  Logins, Callbacks, AuthWindow, Idle, Absolute, MaxIndex, MaxReads,
  p1, p2, p3, p4, n1, n2, n3

ASSUME SessionsAssumption ==
  AuthWindow \in Nat /\ Idle \in Nat /\ Absolute \in Nat /\ MaxIndex \in Nat /\ MaxReads \in Nat

VARIABLES
  auth, pc, login, sessions, leases, destroyed, alarm, late, reader, reads, logout, ended,
  subject   \* the part that is explored

nonceVars == <<issued, records, index, uses, calls, answer>>
sessionVars == <<auth, pc, login, sessions, leases, destroyed, alarm, late, reader, reads, logout, ended>>

Access == INSTANCE HostedSessions

\* What the other part starts with is immaterial.
AccessInit ==
  /\ Init /\ Access!Init
  /\ subject \in {"sessions", "nonces"}
  /\ subject = "nonces" => \A c, d \in Callbacks : login[c] = login[d]

AccessNext ==
  /\ UNCHANGED subject
  /\ \/ subject = "sessions" /\ Access!Next /\ UNCHANGED nonceVars
     \/ subject = "nonces" /\ Next /\ UNCHANGED sessionVars

AccessSpec == AccessInit /\ [][AccessNext]_<<clock, sessionVars, nonceVars, subject>>

\* One login makes one session, however often its callback comes (HostedSessions).
OneSessionPerLogin == Access!OneSessionPerLogin

\* No secret outlives its session, nor its term for want of an alarm (HostedSessions).
SecretsEnd == Access!SecretsEnd

MCProofs == {p1, p2, p3, p4}
MCNonces == {n1, n2, n3}
MCNonce == [p \in MCProofs |-> CASE p = p1 -> n1 [] p = p2 -> n2 [] p = p3 -> n3 [] p = p4 -> n1]

Interchangeable == Permutations(Callbacks) \cup Permutations(Logins)
=============================================================================
