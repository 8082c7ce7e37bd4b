----------------------------- MODULE CoreNonces -----------------------------
(***************************************************************************)
(* The single use of Core proofs in the hosted deployment                  *)
(* (consumeCoreNonce in cloud/src/workspace-coordinator.ts and the time    *)
(* window of cloud/src/core-provenance.ts).                                *)
(*                                                                         *)
(* A request is signed with a fresh nonce, and the coordinator of the      *)
(* workspace records the nonce before the proof goes to the Core.  The     *)
(* call can be late or be made twice.  A record is kept as long as a       *)
(* verifier accepts its proof, and a bounded index lists the records.  The *)
(* call reads the clock and queues its transaction in one turn of the      *)
(* event loop, so that it happens at one time; the clock never steps back. *)
(***************************************************************************)
EXTENDS Naturals, FiniteSets

CONSTANTS
  Proofs,    \* signed proofs
  Nonces,
  Nonce,     \* the nonce of a proof
  Unused,    \* no record
  Lifetime,  \* the time between issued_at and expires_at (30 s)
  Skew,      \* CORE_NONCE_REPLAY_SKEW_MS, CORE_PROOF_SKEW_MS (5 s)
  IndexMax,  \* CORE_NONCE_INDEX_MAX (256)
  MaxClock,  \* bound: time
  MaxCalls   \* bound: calls made for one proof

ASSUME NoncesAssumption ==
  /\ Nonce \in [Proofs -> Nonces]
  /\ Unused \notin Proofs
  /\ IsFiniteSet(Proofs) /\ IsFiniteSet(Nonces)
  /\ Lifetime \in Nat /\ Skew \in Nat /\ IndexMax \in Nat
  /\ MaxClock \in Nat /\ MaxCalls \in Nat

VARIABLES
  clock,
  issued,   \* when a proof was signed, Unsigned before
  records,  \* core-nonce:*, the proof a nonce was consumed for
  index,    \* core-nonce-index, likewise by nonce
  uses,     \* how often a proof was accepted
  calls,    \* how often a proof was presented
  answer    \* of the last call

vars == <<clock, issued, records, index, uses, calls, answer>>

Unsigned == MaxClock + 1

Refusals == {"core_nonce_invalid", "core_nonce_record_invalid", "core_nonce_capacity",
             "core_nonce_replayed", "core_nonce_digest_conflict"}

\* What the index lists.
Listed(idx) == {n \in Nonces : idx[n] # Unused}

\* The variables have their types, and the index never exceeds its limit.
TypeOK ==
  /\ clock \in 0..MaxClock
  /\ issued \in [Proofs -> 0..Unsigned]
  /\ records \in [Nonces -> Proofs \cup {Unused}]
  /\ index \in [Nonces -> Proofs \cup {Unused}]
  /\ Cardinality(Listed(index)) <= IndexMax
  /\ uses \in [Proofs -> 0..MaxCalls] /\ calls \in [Proofs -> 0..MaxCalls]
  /\ answer \in Refusals \cup {"none", "consumed"}

Init ==
  /\ clock = 0
  /\ issued = [p \in Proofs |-> Unsigned]
  /\ records = [n \in Nonces |-> Unused]
  /\ index = [n \in Nonces |-> Unused]
  /\ uses = [p \in Proofs |-> 0]
  /\ calls = [p \in Proofs |-> 0]
  /\ answer = "none"

Tick ==
  /\ clock < MaxClock
  /\ clock' = clock + 1
  /\ UNCHANGED <<issued, records, index, uses, calls, answer>>

\* signCoreProof in the handler of a request.
Sign(p) ==
  /\ issued[p] = Unsigned
  /\ issued' = [issued EXCEPT ![p] = clock]
  /\ UNCHANGED <<clock, records, index, uses, calls, answer>>

\* replay_expires_at, the last time at which a verifier accepts the proof.
ReplayExpiresAt(p) == issued[p] + Lifetime + Skew

\* The window in which coordinator and verifier accept the proof.  With one
\* clock a proof is never presented before it was issued.
InWindow(p) == clock <= ReplayExpiresAt(p)

\* The entries the call keeps; it deletes the records of the others.
\* Mutant: the skew is not part of the retention.
LiveIndexLifetime == [n \in Nonces |-> IF index[n] # Unused /\ issued[index[n]] + Lifetime > clock
                                       THEN index[n] ELSE Unused]
\* Mutant: nothing is ever discarded.
LiveIndexAll == index
LiveIndex == [n \in Nonces |-> IF index[n] # Unused /\ ReplayExpiresAt(index[n]) > clock
                               THEN index[n] ELSE Unused]

Purged == [n \in Nonces |-> IF index[n] # Unused /\ LiveIndex[n] = Unused THEN Unused ELSE records[n]]

Exhausted(p) == Cardinality(Listed(LiveIndex)) >= IndexMax /\ LiveIndex[Nonce[p]] = Unused

\* Every live entry has its record.
Consistent == \A n \in Listed(LiveIndex) : records[n] = LiveIndex[n]

\* The record the nonce still has once the expired ones are deleted.
Previous(p) == Purged[Nonce[p]]
StillHeld(p) == Previous(p) # Unused /\ ReplayExpiresAt(Previous(p)) > clock

Refusal(p) ==
  CASE ~InWindow(p)                           -> "core_nonce_invalid"
    [] InWindow(p) /\ ~Consistent             -> "core_nonce_record_invalid"
    [] InWindow(p) /\ Consistent /\ Exhausted(p) -> "core_nonce_capacity"
    [] OTHER -> IF Previous(p) = p THEN "core_nonce_replayed" ELSE "core_nonce_digest_conflict"

Acceptable(p) == InWindow(p) /\ Consistent /\ ~Exhausted(p) /\ ~StillHeld(p)

\* A refusal is returned from the transaction, which therefore commits: the
\* expired records are deleted although the index goes on listing them.
Refused(p) ==
  /\ ~Acceptable(p)
  /\ answer' = Refusal(p)
  /\ records' = IF InWindow(p) THEN Purged ELSE records
  /\ UNCHANGED <<index, uses>>

Consumed(p) ==
  /\ Acceptable(p)
  /\ answer' = "consumed"
  /\ records' = [Purged EXCEPT ![Nonce[p]] = p]
  /\ index' = [LiveIndex EXCEPT ![Nonce[p]] = p]
  /\ uses' = [uses EXCEPT ![p] = @ + 1]

ConsumeCoreNonce(p) ==
  /\ issued[p] # Unsigned
  /\ calls[p] < MaxCalls
  /\ calls' = [calls EXCEPT ![p] = @ + 1]
  /\ Refused(p) \/ Consumed(p)
  /\ UNCHANGED <<clock, issued>>

Next ==
  \/ Tick
  \/ \E p \in Proofs : Sign(p) \/ ConsumeCoreNonce(p)

Spec == Init /\ [][Next]_vars

(***************************************************************************)
(* Properties                                                              *)
(***************************************************************************)

\* A proof is accepted once before the end of its window, however often and
\* however late it is presented and whatever is discarded in between
\* (consumeCoreNonce and its index of live entries).
OnceInWindow == \A p \in Proofs : uses[p] > 1 => issued[p] # Unsigned /\ clock >= ReplayExpiresAt(p)

\* A transaction that deletes records and then refuses leaves the index ahead
\* of the records; no later call takes that for damage
\* (core_nonce_record_invalid is never answered).
NeverInvalid == answer # "core_nonce_record_invalid"

\* A call is refused for want of room only while as many proofs as the index
\* holds were consumed and can still be verified: expired entries, those a
\* refused call left listed included, take no room (CORE_NONCE_INDEX_MAX).
FullOnlyOfLive ==
  [][calls' # calls /\ answer' = "core_nonce_capacity" =>
       Cardinality({p \in Proofs : uses[p] > 0 /\ ReplayExpiresAt(p) > clock}) >= IndexMax]_vars

\* Two proofs with one nonce are both accepted only one after the window of
\* the other (core_nonce_digest_conflict).
NonceNamesOneProof ==
  [][\A p, q \in Proofs : Nonce[p] = Nonce[q] /\ p # q /\ uses[q] > 0 /\ ReplayExpiresAt(q) > clock =>
       uses'[p] = uses[p]]_vars

\* Does not hold: a proof is used once.  In the last instant of its window the
\* record is discarded and the proof still accepted (consumeCoreNonce).
SingleUse == \A p \in Proofs : uses[p] <= 1
=============================================================================
