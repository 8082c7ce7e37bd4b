------------------------- MODULE HostedAccessProofs -------------------------
(***************************************************************************)
(* Proofs about the access to the hosted deployment (MCHostedAccess): the  *)
(* proofs of single requests (CoreNonces), for any finite sets of proofs   *)
(* and nonces, any assignment of nonces to proofs and any lifetime, skew   *)
(* and capacity, and the logins, sessions and secrets (HostedSessions),    *)
(* for any logins and callbacks and any periods and limits.                *)
(***************************************************************************)
EXTENDS MCHostedAccess, FiniteSetTheorems, WellFoundedInduction, TLAPS

(***************************************************************************)
(* Proofs of requests                                                      *)
(***************************************************************************)

\* An entry of the index is a signed proof with that nonce that was accepted.
IndexOK ==
  \A n \in Nonces : index[n] # Unused =>
    Nonce[index[n]] = n /\ issued[index[n]] # Unsigned /\ uses[index[n]] > 0

\* A live entry of the index has its record, whatever refused calls deleted.
LiveRecorded ==
  \A n \in Nonces : index[n] # Unused /\ ReplayExpiresAt(index[n]) > clock => records[n] = index[n]

\* An accepted proof is recorded and listed until the end of its window.
HeldInWindow ==
  \A p \in Proofs : uses[p] > 0 =>
    /\ issued[p] # Unsigned
    /\ ReplayExpiresAt(p) > clock => records[Nonce[p]] = p /\ index[Nonce[p]] = p

\* No proof is accepted more often than it is presented.
UsesCounted == \A p \in Proofs : uses[p] <= calls[p]

\* The inductive invariant.
NoncesInv ==
  /\ TypeOK /\ IndexOK /\ LiveRecorded /\ HeldInWindow /\ UsesCounted
  /\ OnceInWindow /\ NeverInvalid

\* A coordinator without records satisfies the invariant.
LEMMA InitInv == Init => NoncesInv
<1> SUFFICES ASSUME Init PROVE NoncesInv OBVIOUS
<1>1. Listed(index) = {} BY DEF Init, Listed
<1>2. Cardinality(Listed(index)) = 0 BY <1>1, FS_EmptySet
<1>3. TypeOK BY <1>2, NoncesAssumption DEF Init, TypeOK, Unsigned, Refusals
<1> QED BY <1>3 DEF Init, NoncesInv, IndexOK, LiveRecorded, HeldInWindow, UsesCounted, OnceInWindow, NeverInvalid, Refusals

\* The end of a window is a number.
LEMMA ReplayType == TypeOK => \A p \in Proofs : ReplayExpiresAt(p) \in Nat
BY NoncesAssumption DEF TypeOK, ReplayExpiresAt, Unsigned

\* Live entries are entries of the index, which has room for them.
LEMMA LiveIndexType ==
  ASSUME TypeOK
  PROVE  /\ LiveIndex \in [Nonces -> Proofs \cup {Unused}]
         /\ Purged \in [Nonces -> Proofs \cup {Unused}]
         /\ IsFiniteSet(Listed(LiveIndex))
         /\ Cardinality(Listed(LiveIndex)) \in Nat
         /\ Cardinality(Listed(LiveIndex)) <= IndexMax
<1>1. LiveIndex \in [Nonces -> Proofs \cup {Unused}] /\ Purged \in [Nonces -> Proofs \cup {Unused}]
  BY DEF TypeOK, LiveIndex, Purged
<1>2. IsFiniteSet(Listed(index)) /\ Listed(index) \subseteq Nonces
  BY NoncesAssumption, FS_Subset DEF Listed
<1>3. Listed(LiveIndex) \subseteq Listed(index) BY DEF Listed, LiveIndex
<1>4. IsFiniteSet(Listed(LiveIndex)) /\ Cardinality(Listed(LiveIndex)) <= Cardinality(Listed(index))
  BY <1>2, <1>3, FS_Subset
<1>5. Cardinality(Listed(LiveIndex)) \in Nat /\ Cardinality(Listed(index)) \in Nat
  BY <1>2, <1>4, FS_CardinalityType
<1> QED BY <1>1, <1>4, <1>5, NoncesAssumption DEF TypeOK

\* What a call finds: live entries with their records, and an accepted proof
\* that is still in its window.
LEMMA CallFinds ==
  ASSUME NoncesInv
  PROVE  /\ Consistent
         /\ \A n \in Nonces : index[n] # Unused /\ ReplayExpiresAt(index[n]) > clock =>
              LiveIndex[n] = index[n] /\ Purged[n] = index[n]
         /\ \A q \in Proofs : uses[q] > 0 /\ ReplayExpiresAt(q) > clock =>
              LiveIndex[Nonce[q]] = q /\ Purged[Nonce[q]] = q
<1> USE NoncesAssumption
<1>1. \A n \in Nonces : index[n] # Unused /\ ReplayExpiresAt(index[n]) > clock =>
        LiveIndex[n] = index[n] /\ Purged[n] = index[n]
  BY DEF NoncesInv, LiveRecorded, LiveIndex, Purged, TypeOK
<1>2. \A q \in Proofs : uses[q] > 0 /\ ReplayExpiresAt(q) > clock =>
        LiveIndex[Nonce[q]] = q /\ Purged[Nonce[q]] = q
  BY <1>1 DEF NoncesInv, HeldInWindow
<1>3. Consistent
  BY DEF NoncesInv, LiveRecorded, Consistent, Listed, LiveIndex, TypeOK
<1> QED BY <1>1, <1>2, <1>3

\* Time passes.
LEMMA TickPreserves ==
  ASSUME NoncesInv, Tick
  PROVE  NoncesInv'
<1> USE NoncesAssumption DEF NoncesInv
<1>1. \A p \in Proofs : ReplayExpiresAt(p) \in Nat /\ ReplayExpiresAt(p)' = ReplayExpiresAt(p)
  BY ReplayType DEF Tick, ReplayExpiresAt
<1>2. clock \in Nat /\ clock' = clock + 1 /\ clock' \in 0..MaxClock
  BY DEF TypeOK, Tick
<1>3. TypeOK' BY <1>2 DEF TypeOK, Tick, Listed
<1>4. IndexOK' BY DEF IndexOK, Tick, Unsigned
<1>5. LiveRecorded'
  <2> SUFFICES ASSUME NEW n \in Nonces, index[n] # Unused, ReplayExpiresAt(index[n]) > clock + 1
               PROVE  records[n] = index[n]
    BY <1>2 DEF LiveRecorded, Tick, ReplayExpiresAt
  <2>1. ReplayExpiresAt(index[n]) \in Nat BY <1>1 DEF TypeOK
  <2>2. ReplayExpiresAt(index[n]) > clock BY <1>2, <2>1
  <2> QED BY <2>2 DEF LiveRecorded
<1>6. HeldInWindow' BY <1>1, <1>2 DEF HeldInWindow, Tick, Unsigned
<1>7. UsesCounted' /\ NeverInvalid' BY DEF UsesCounted, NeverInvalid, Tick
<1>8. OnceInWindow' BY <1>1, <1>2 DEF OnceInWindow, Tick, Unsigned
<1> QED BY <1>3, <1>4, <1>5, <1>6, <1>7, <1>8

\* A proof that is signed was neither accepted nor listed before.
LEMMA SignPreserves ==
  ASSUME NoncesInv, NEW p \in Proofs, Sign(p)
  PROVE  NoncesInv'
<1> USE NoncesAssumption DEF NoncesInv
<1>1. \A q \in Proofs : q # p => ReplayExpiresAt(q)' = ReplayExpiresAt(q) /\ issued'[q] = issued[q]
  BY DEF Sign, ReplayExpiresAt, TypeOK
<1>2. TypeOK' BY DEF TypeOK, Sign, Listed, Unsigned
<1>3. uses[p] = 0 BY DEF HeldInWindow, Sign, TypeOK
<1>4. \A n \in Nonces : index[n] # p BY <1>3 DEF IndexOK, TypeOK
<1>5. IndexOK'
  <2> SUFFICES ASSUME NEW n \in Nonces, index[n] # Unused
               PROVE  Nonce[index[n]] = n /\ issued'[index[n]] # Unsigned /\ uses[index[n]] > 0
    BY DEF IndexOK, Sign, Unsigned
  <2> QED BY <1>1, <1>4 DEF IndexOK, TypeOK
<1>6. LiveRecorded'
  <2> SUFFICES ASSUME NEW n \in Nonces, index[n] # Unused,
                      issued'[index[n]] + Lifetime + Skew > clock
               PROVE  records[n] = index[n]
    BY DEF LiveRecorded, Sign, ReplayExpiresAt
  <2>1. index[n] \in Proofs /\ index[n] # p BY <1>4 DEF TypeOK
  <2>2. issued'[index[n]] = issued[index[n]] BY <1>1, <2>1
  <2> QED BY <2>2 DEF LiveRecorded, ReplayExpiresAt
<1>7. HeldInWindow' BY <1>1, <1>3 DEF HeldInWindow, Sign, Unsigned
<1>8. UsesCounted' /\ NeverInvalid' BY DEF UsesCounted, NeverInvalid, Sign
<1>9. OnceInWindow' BY <1>1, <1>3 DEF OnceInWindow, Sign, Unsigned
<1> QED BY <1>2, <1>5, <1>6, <1>7, <1>8, <1>9

\* A refused call deletes records of dead entries only.
LEMMA RefusedPreserves ==
  ASSUME NoncesInv, NEW p \in Proofs, ConsumeCoreNonce(p), Refused(p)
  PROVE  NoncesInv'
<1> USE NoncesAssumption DEF NoncesInv
<1>1. /\ UNCHANGED <<clock, issued, index, uses>>
      /\ answer' = Refusal(p) /\ records' \in {Purged, records}
      /\ calls' = [calls EXCEPT ![p] = @ + 1] /\ calls[p] < MaxCalls
  BY DEF ConsumeCoreNonce, Refused
<1>2. \A q \in Proofs : ReplayExpiresAt(q)' = ReplayExpiresAt(q) BY <1>1 DEF ReplayExpiresAt
<1>3. answer' \in Refusals /\ answer' # "core_nonce_record_invalid"
  BY <1>1, CallFinds DEF Refusal, Refusals
<1>4. TypeOK' BY <1>1, <1>3, LiveIndexType DEF TypeOK, Listed, Unsigned
<1>5. IndexOK' BY <1>1 DEF IndexOK, Unsigned
<1>6. LiveRecorded'
  <2> SUFFICES ASSUME NEW n \in Nonces, index[n] # Unused, ReplayExpiresAt(index[n]) > clock
               PROVE  records'[n] = index[n]
    BY <1>1, <1>2 DEF LiveRecorded, TypeOK
  <2> QED BY <1>1, CallFinds DEF LiveRecorded
<1>7. HeldInWindow'
  <2> SUFFICES ASSUME NEW q \in Proofs, uses[q] > 0
               PROVE  issued[q] # Unsigned
                      /\ (ReplayExpiresAt(q) > clock => records'[Nonce[q]] = q /\ index[Nonce[q]] = q)
    BY <1>1, <1>2 DEF HeldInWindow, Unsigned
  <2> QED BY <1>1, CallFinds DEF HeldInWindow
<1>8. UsesCounted' BY <1>1 DEF UsesCounted, TypeOK
<1>9. OnceInWindow' BY <1>1, <1>2 DEF OnceInWindow, Unsigned
<1> QED BY <1>3, <1>4, <1>5, <1>6, <1>7, <1>8, <1>9 DEF NeverInvalid

\* A call that is accepted finds no accepted proof with its nonce in its window.
LEMMA NonceFree ==
  ASSUME NoncesInv, NEW p \in Proofs, Acceptable(p)
  PROVE  \A q \in Proofs : Nonce[q] = Nonce[p] /\ uses[q] > 0 => ~(ReplayExpiresAt(q) > clock)
<1> SUFFICES ASSUME NEW q \in Proofs, Nonce[q] = Nonce[p], uses[q] > 0, ReplayExpiresAt(q) > clock
             PROVE  FALSE
  OBVIOUS
<1>1. Previous(p) = q BY CallFinds DEF Previous
<1> QED BY <1>1, NoncesAssumption DEF Acceptable, StillHeld

\* The accepted proof has room in the index.
LEMMA RoomInIndex ==
  ASSUME NoncesInv, NEW p \in Proofs, Acceptable(p)
  PROVE  Cardinality(Listed([LiveIndex EXCEPT ![Nonce[p]] = p])) <= IndexMax
<1> USE NoncesAssumption
<1> DEFINE L == Listed(LiveIndex)
<1>1. /\ LiveIndex \in [Nonces -> Proofs \cup {Unused}] /\ Nonce[p] \in Nonces
      /\ IsFiniteSet(L) /\ Cardinality(L) \in Nat /\ Cardinality(L) <= IndexMax
  BY LiveIndexType DEF NoncesInv
<1>2. Listed([LiveIndex EXCEPT ![Nonce[p]] = p]) = L \cup {Nonce[p]}
  BY <1>1 DEF Listed
<1>3. Cardinality(L \cup {Nonce[p]}) = IF Nonce[p] \in L THEN Cardinality(L) ELSE Cardinality(L) + 1
  BY <1>1, FS_AddElement
<1>4. Nonce[p] \in L \/ Cardinality(L) < IndexMax
  BY <1>1 DEF Acceptable, Exhausted, Listed
<1>5. IndexMax \in Nat OBVIOUS
<1> HIDE NoncesAssumption DEF L
<1>6. Cardinality(L \cup {Nonce[p]}) <= IndexMax BY <1>1, <1>3, <1>4, <1>5
<1> QED BY <1>2, <1>6 DEF L

\* An accepted call records and lists its proof and discards what is dead.
LEMMA ConsumedPreserves ==
  ASSUME NoncesInv, NEW p \in Proofs, ConsumeCoreNonce(p), Consumed(p)
  PROVE  NoncesInv'
<1> USE NoncesAssumption DEF NoncesInv
<1>1. /\ UNCHANGED <<clock, issued>> /\ issued[p] # Unsigned
      /\ answer' = "consumed"
      /\ records' = [Purged EXCEPT ![Nonce[p]] = p]
      /\ index' = [LiveIndex EXCEPT ![Nonce[p]] = p]
      /\ uses' = [uses EXCEPT ![p] = @ + 1]
      /\ calls' = [calls EXCEPT ![p] = @ + 1] /\ calls[p] < MaxCalls
      /\ Acceptable(p)
  BY DEF ConsumeCoreNonce, Consumed
<1>2. \A q \in Proofs : ReplayExpiresAt(q) \in Nat /\ ReplayExpiresAt(q)' = ReplayExpiresAt(q)
  BY <1>1, ReplayType DEF ReplayExpiresAt
<1>3. /\ clock \in Nat /\ uses \in [Proofs -> 0..MaxCalls] /\ calls \in [Proofs -> 0..MaxCalls]
      /\ index \in [Nonces -> Proofs \cup {Unused}]
      /\ LiveIndex \in [Nonces -> Proofs \cup {Unused}] /\ Purged \in [Nonces -> Proofs \cup {Unused}]
      /\ Nonce[p] \in Nonces
  BY LiveIndexType DEF TypeOK
<1>4. uses'[p] = uses[p] + 1 /\ \A q \in Proofs : q # p => uses'[q] = uses[q]
  BY <1>1, <1>3
<1>5. UsesCounted' BY <1>1, <1>3, <1>4 DEF UsesCounted
<1>6. TypeOK'
  <2>1. uses' \in [Proofs -> 0..MaxCalls] /\ calls' \in [Proofs -> 0..MaxCalls]
    BY <1>1, <1>3 DEF UsesCounted
  <2>2. records' \in [Nonces -> Proofs \cup {Unused}] /\ index' \in [Nonces -> Proofs \cup {Unused}]
    BY <1>1, <1>3
  <2>3. Cardinality(Listed(index)') <= IndexMax
    <3>1. Listed(index)' = Listed([LiveIndex EXCEPT ![Nonce[p]] = p]) BY <1>1 DEF Listed
    <3> QED BY <1>1, <3>1, RoomInIndex
  <2> QED BY <1>1, <2>1, <2>2, <2>3 DEF TypeOK, Unsigned
<1>7. IndexOK'
  <2> SUFFICES ASSUME NEW n \in Nonces, index'[n] # Unused
               PROVE  Nonce[index'[n]] = n /\ issued[index'[n]] # Unsigned /\ uses'[index'[n]] > 0
    BY <1>1 DEF IndexOK, Unsigned
  <2>1. CASE n = Nonce[p] BY <1>1, <1>3, <1>4, <2>1
  <2>2. CASE n # Nonce[p]
    <3>1. index'[n] = index[n] /\ index[n] \in Proofs BY <1>1, <1>3, <2>2 DEF LiveIndex
    <3> QED BY <1>3, <1>4, <3>1 DEF IndexOK
  <2> QED BY <2>1, <2>2
<1>8. LiveRecorded'
  <2> SUFFICES ASSUME NEW n \in Nonces, index'[n] # Unused, issued[index'[n]] + Lifetime + Skew > clock
               PROVE  records'[n] = index'[n]
    BY <1>1 DEF LiveRecorded, ReplayExpiresAt
  <2>1. CASE n = Nonce[p] BY <1>1, <1>3, <2>1
  <2>2. CASE n # Nonce[p]
    <3>1. index'[n] = index[n] /\ records'[n] = Purged[n] BY <1>1, <1>3, <2>2 DEF LiveIndex
    <3> QED BY <3>1, CallFinds DEF ReplayExpiresAt
  <2> QED BY <2>1, <2>2
<1>9. HeldInWindow'
  <2> SUFFICES ASSUME NEW q \in Proofs, uses'[q] > 0
               PROVE  issued[q] # Unsigned
                      /\ (ReplayExpiresAt(q) > clock => records'[Nonce[q]] = q /\ index'[Nonce[q]] = q)
    BY <1>1, <1>2 DEF HeldInWindow, Unsigned
  <2>1. CASE q = p BY <1>1, <1>3, <2>1
  <2>2. CASE q # p
    <3>1. uses[q] > 0 /\ issued[q] # Unsigned BY <1>4, <2>2 DEF HeldInWindow
    <3>2. ASSUME ReplayExpiresAt(q) > clock
          PROVE  records'[Nonce[q]] = q /\ index'[Nonce[q]] = q
      <4>1. Nonce[q] # Nonce[p] BY <1>1, <3>1, <3>2, NonceFree
      <4>2. records'[Nonce[q]] = Purged[Nonce[q]] /\ index'[Nonce[q]] = LiveIndex[Nonce[q]]
        BY <1>1, <1>3, <4>1
      <4> QED BY <3>1, <3>2, <4>2, CallFinds
    <3> QED BY <3>1, <3>2
  <2> QED BY <2>1, <2>2
<1>10. OnceInWindow'
  <2> SUFFICES ASSUME NEW q \in Proofs, uses'[q] > 1
               PROVE  issued[q] # Unsigned /\ clock >= ReplayExpiresAt(q)
    BY <1>1, <1>2 DEF OnceInWindow, Unsigned
  <2>1. CASE q = p BY <1>1, <1>2, <1>3, <1>4, <2>1, NonceFree
  <2>2. CASE q # p BY <1>4, <2>2 DEF OnceInWindow
  <2> QED BY <2>1, <2>2
<1>11. NeverInvalid' BY <1>1 DEF NeverInvalid
<1> QED BY <1>5, <1>6, <1>7, <1>8, <1>9, <1>10, <1>11

\* The invariant is inductive.
THEOREM Invariant == Spec => []NoncesInv
<1>1. ASSUME NoncesInv, Next PROVE NoncesInv'
  <2>1. CASE Tick BY <1>1, <2>1, TickPreserves
  <2>2. ASSUME NEW p \in Proofs, Sign(p) PROVE NoncesInv' BY <1>1, <2>2, SignPreserves
  <2>3. ASSUME NEW p \in Proofs, ConsumeCoreNonce(p) PROVE NoncesInv'
    BY <1>1, <2>3, RefusedPreserves, ConsumedPreserves DEF ConsumeCoreNonce
  <2> QED BY <1>1, <2>1, <2>2, <2>3 DEF Next
<1>2. ASSUME NoncesInv, UNCHANGED vars PROVE NoncesInv'
  BY <1>2 DEF vars, NoncesInv, TypeOK, IndexOK, LiveRecorded, HeldInWindow, UsesCounted, OnceInWindow,
              NeverInvalid, Listed, Unsigned, ReplayExpiresAt
<1> QED BY InitInv, <1>1, <1>2, PTL DEF Spec

\* Records and index are well typed and the index keeps its limit, for any
\* capacity (consumeCoreNonce, CORE_NONCE_INDEX_MAX).
THEOREM TypeCorrect == Spec => []TypeOK
<1>1. NoncesInv => TypeOK BY DEF NoncesInv
<1> QED BY Invariant, <1>1, PTL

\* A proof is accepted once before the end of its window, for any number of
\* presentations of any proofs (consumeCoreNonce).
THEOREM AcceptedOnce == Spec => []OnceInWindow
<1>1. NoncesInv => OnceInWindow BY DEF NoncesInv
<1> QED BY Invariant, <1>1, PTL

\* The records a refused call deletes are never missed by a later call
\* (consumeCoreNonce).
THEOREM IndexNeverInvalid == Spec => []NeverInvalid
<1>1. NoncesInv => NeverInvalid BY DEF NoncesInv
<1> QED BY Invariant, <1>1, PTL

\* Two proofs with one nonce are accepted only one after the window of the
\* other (consumeCoreNonce).
THEOREM NonceOfOneProof == Spec => NonceNamesOneProof
<1> DEFINE Kept == \A p, q \in Proofs :
      Nonce[p] = Nonce[q] /\ p # q /\ uses[q] > 0 /\ ReplayExpiresAt(q) > clock => uses'[p] = uses[p]
<1>1. ASSUME NoncesInv, Next PROVE Kept
  <2> SUFFICES ASSUME NEW p \in Proofs, NEW q \in Proofs, Nonce[p] = Nonce[q], p # q,
                      uses[q] > 0, ReplayExpiresAt(q) > clock
               PROVE  uses'[p] = uses[p]
    OBVIOUS
  <2>1. CASE Tick BY <2>1 DEF Tick
  <2>2. ASSUME NEW r \in Proofs, Sign(r) PROVE uses'[p] = uses[p] BY <2>2 DEF Sign
  <2>3. ASSUME NEW r \in Proofs, ConsumeCoreNonce(r) PROVE uses'[p] = uses[p]
    <3>1. CASE Refused(r) BY <3>1 DEF Refused
    <3>2. CASE Consumed(r)
      <4>1. r # p BY <1>1, <3>2, NonceFree DEF Consumed
      <4> QED BY <1>1, <3>2, <4>1 DEF Consumed, NoncesInv, TypeOK
    <3> QED BY <2>3, <3>1, <3>2 DEF ConsumeCoreNonce
  <2> QED BY <1>1, <2>1, <2>2, <2>3 DEF Next
<1>2. ASSUME NoncesInv, [Next]_vars PROVE [Kept]_vars BY <1>1, <1>2
<1> QED BY Invariant, <1>2, PTL DEF Spec, NonceNamesOneProof

\* A call is refused for want of room only while as many proofs as the index
\* holds were accepted and are in their window (CORE_NONCE_INDEX_MAX).
THEOREM CapacityOfLive == Spec => FullOnlyOfLive
<1> DEFINE Live == {p \in Proofs : uses[p] > 0 /\ ReplayExpiresAt(p) > clock}
           Full == calls' # calls /\ answer' = "core_nonce_capacity" => Cardinality(Live) >= IndexMax
<1> USE NoncesAssumption
<1>1. ASSUME NoncesInv, NEW p \in Proofs, Exhausted(p) PROVE Cardinality(Live) >= IndexMax
  <2> DEFINE L == Listed(LiveIndex)
             f == [n \in L |-> LiveIndex[n]]
  <2>1. IsFiniteSet(Live) BY FS_Subset
  <2>2. \A n \in L : LiveIndex[n] = index[n] /\ index[n] # Unused /\ n \in Nonces
                      /\ ReplayExpiresAt(index[n]) > clock
    BY DEF Listed, LiveIndex
  <2>3. \A n \in L : index[n] \in Live /\ Nonce[index[n]] = n
    BY <1>1, <2>2 DEF NoncesInv, IndexOK, TypeOK
  <2>4. f \in Injection(L, Live)
    BY <2>2, <2>3 DEF Injection, IsInjective
  <2>5. Cardinality(L) <= Cardinality(Live) BY <2>1, <2>4, FS_Injection
  <2>6. Cardinality(L) \in Nat /\ Cardinality(Live) \in Nat /\ Cardinality(L) >= IndexMax
    BY <1>1, <2>1, LiveIndexType, FS_CardinalityType DEF NoncesInv, Exhausted
  <2> QED BY <2>5, <2>6
<1>2. ASSUME NoncesInv, Next PROVE Full
  <2>1. CASE Tick BY <2>1 DEF Tick
  <2>2. ASSUME NEW p \in Proofs, Sign(p) PROVE Full BY <2>2 DEF Sign
  <2>3. ASSUME NEW p \in Proofs, ConsumeCoreNonce(p), answer' = "core_nonce_capacity" PROVE Exhausted(p)
    <3>1. CASE Refused(p) BY <1>2, <2>3, <3>1, CallFinds DEF Refused, Refusal
    <3>2. CASE Consumed(p) BY <2>3, <3>2 DEF Consumed
    <3> QED BY <2>3, <3>1, <3>2 DEF ConsumeCoreNonce
  <2>4. ASSUME NEW p \in Proofs, ConsumeCoreNonce(p) PROVE Full BY <1>1, <1>2, <2>3, <2>4
  <2> QED BY <1>2, <2>1, <2>2, <2>4 DEF Next
<1>3. ASSUME NoncesInv, [Next]_vars PROVE [Full]_vars BY <1>2, <1>3
<1> QED BY Invariant, <1>3, PTL DEF Spec, FullOnlyOfLive

(***************************************************************************)
(* Logins and sessions                                                     *)
(***************************************************************************)

\* A callback that was admitted, or made a session, is the one of its login.
Admitted(c) ==
  pc[c] \notin {"idle", "failed"} \/ sessions[c].state # "none"

\* A login whose callback came is consumed, and admits one callback.
LoginConsumed ==
  /\ \A c \in Callbacks : pc[c] # "idle" => auth[login[c]].state = "consumed"
  /\ \A c \in Callbacks : sessions[c].state # "none" => pc[c] # "idle"
  /\ \A c, d \in Callbacks : login[c] = login[d] /\ Admitted(c) /\ Admitted(d) => c = d

\* A session is ended after its vault, and only when it is used no more.
VaultFirst ==
  \A c \in Callbacks :
    /\ pc[c] = "undo_session" => c \in destroyed
    /\ logout[c] # "idle" => pc[c] = "done"
    /\ logout[c] = "session" => c \in destroyed
    /\ c \in ended => c \in destroyed /\ pc[c] \in {"done", "failed"} /\ sessions[c].state # "live"

\* The index lists finitely many leases, none of a destroyed session.
LeasesOwned == IsFiniteSet(leases) /\ \A x \in leases : x.session \notin destroyed

\* The inductive invariant of logins, sessions and secrets.
SessionsInv ==
  /\ Access!TypeOK /\ LoginConsumed /\ VaultFirst /\ LeasesOwned /\ Access!AlarmCoversLeases

\* HostedSessions counts with the same Cardinality.
LEMMA SameCardinality == ASSUME NEW S PROVE Access!Cardinality(S) = Cardinality(S)
BY Zenon DEF Access!Cardinality, Cardinality

\* A set of numbers has a least element, which is its Min.
LEMMA MinIsLeast ==
  ASSUME NEW S \in SUBSET Nat, S # {}
  PROVE  Access!Min(S) \in S /\ \A y \in S : Access!Min(S) <= y
<1> DEFINE less == {ss \in Nat \X Nat : ss[1] < ss[2]}
<1>1. IsWellFoundedOn(less, Nat) BY NatLessThanWellFounded, Zenon DEF OpToRel
<1>2. PICK x \in S : \A y \in S : ~ (<<y, x>> \in less)
  <2> HIDE DEF less
  <2> QED BY <1>1, WFMin
<1>3. ASSUME NEW y \in S PROVE x <= y
  <2>1. y \in Nat /\ x \in Nat /\ <<y, x>> \in Nat \X Nat OBVIOUS
  <2>2. <<y, x>>[1] = y /\ <<y, x>>[2] = x OBVIOUS
  <2>3. ~ (<<y, x>>[1] < <<y, x>>[2]) BY <1>2, <2>1, Zenon
  <2> QED BY <2>1, <2>2, <2>3
<1> QED BY <1>3 DEF Access!Min

\* A lease expires at a time within its own term.
LEMMA ExpiresTime ==
  ASSUME NEW x \in Access!Leases
  PROVE  Access!Expires(x) \in Nat /\ Access!Expires(x) <= MaxClock
<1> USE NoncesAssumption, SessionsAssumption DEF Access!Leases, Access!Times
<1>1. {x.accessed + Idle, x.absolute} \in SUBSET Nat OBVIOUS
<1>2. /\ Access!Expires(x) \in {x.accessed + Idle, x.absolute}
      /\ Access!Expires(x) <= x.absolute
  BY <1>1, MinIsLeast DEF Access!Expires
<1> QED BY <1>1, <1>2

\* What a transaction of the vault leaves behind: leases within the index,
\* none of a destroyed session, and an alarm for each; no tombstone goes.
VaultKept ==
  /\ leases' \subseteq Access!Leases /\ Cardinality(leases') <= MaxIndex
  /\ alarm' \in 0..Access!NoAlarm
  /\ destroyed' \subseteq Callbacks /\ destroyed \subseteq destroyed'
  /\ LeasesOwned' /\ Access!AlarmCoversLeases'

\* scheduleNextAlarmTx restores that, whatever leases it is given.
LEMMA ScheduleKeeps ==
  ASSUME NEW ls \in SUBSET Access!Leases, IsFiniteSet(ls), Cardinality(ls) <= MaxIndex,
         NEW gone \in SUBSET Callbacks, destroyed \subseteq gone, NEW now,
         Access!Schedule(ls, gone, now)
  PROVE  VaultKept
<1> DEFINE kept == Access!Kept(ls, gone, now)
           times == {Access!Expires(x) : x \in kept}
<1>1. /\ leases' = kept /\ destroyed' = gone
      /\ alarm' = IF kept = {} THEN Access!NoAlarm ELSE Access!Min(times)
  BY DEF Access!Schedule
<1>2. kept \in SUBSET ls /\ \A x \in kept : x.session \notin gone BY DEF Access!Kept
<1> HIDE DEF kept
<1>3. IsFiniteSet(kept) /\ Cardinality(kept) <= Cardinality(ls) BY <1>2, FS_Subset
<1>4. Cardinality(kept) \in Nat /\ Cardinality(ls) \in Nat BY <1>3, FS_CardinalityType
<1>5. Cardinality(kept) <= MaxIndex BY <1>3, <1>4, SessionsAssumption
<1>6. \A x \in kept : Access!Expires(x) \in Nat /\ Access!Expires(x) <= MaxClock BY <1>2, ExpiresTime
<1>7. kept # {} => Access!Min(times) \in times /\ \A x \in kept : Access!Min(times) <= Access!Expires(x)
  <2> SUFFICES ASSUME kept # {}
               PROVE  Access!Min(times) \in times /\ \A y \in times : Access!Min(times) <= y
    OBVIOUS
  <2>1. times \in SUBSET Nat /\ times # {} BY <1>6
  <2> HIDE DEF times
  <2> QED BY <2>1, MinIsLeast
<1>8. alarm' \in 0..Access!NoAlarm
  <2>1. CASE kept = {} BY <2>1, <1>1, NoncesAssumption DEF Access!NoAlarm
  <2>2. CASE kept # {}
    <3>1. alarm' \in times BY <2>2, <1>1, <1>7
    <3>2. PICK x \in kept : alarm' = Access!Expires(x) BY <3>1
    <3> QED BY <3>2, <1>6, NoncesAssumption DEF Access!NoAlarm
  <2> QED BY <2>1, <2>2
<1>9. \A x \in kept : alarm' <= Access!Expires(x) BY <1>1, <1>7
<1>10. LeasesOwned' BY <1>1, <1>2, <1>3 DEF LeasesOwned
<1>11. Access!AlarmCoversLeases' BY <1>1, <1>9 DEF Access!AlarmCoversLeases, Access!Expires, Access!Min
<1> QED BY <1>1, <1>2, <1>5, <1>8, <1>10, <1>11 DEF VaultKept

\* The transactions of the vault keep what they are to keep.
LEMMA UnchangedKeeps ==
  ASSUME SessionsInv, UNCHANGED <<leases, destroyed, alarm>>
  PROVE  VaultKept
<1>1. Cardinality(leases) <= MaxIndex BY SameCardinality DEF SessionsInv, Access!TypeOK
<1>2. leases' = leases /\ destroyed' = destroyed /\ alarm' = alarm OBVIOUS
<1>3. LeasesOwned' BY <1>2 DEF SessionsInv, LeasesOwned
<1>4. Access!AlarmCoversLeases'
  BY <1>2 DEF SessionsInv, Access!AlarmCoversLeases, Access!Expires, Access!Min
<1> QED BY <1>1, <1>2, <1>3, <1>4 DEF SessionsInv, Access!TypeOK, VaultKept

LEMMA FewerKeep ==
  ASSUME SessionsInv, NEW ls \in SUBSET leases, NEW gone \in SUBSET Callbacks, destroyed \subseteq gone,
         NEW now, Access!Schedule(ls, gone, now)
  PROVE  VaultKept
<1>1. IsFiniteSet(ls) /\ Cardinality(ls) <= Cardinality(leases) BY FS_Subset DEF SessionsInv, LeasesOwned
<1>2. Cardinality(ls) \in Nat /\ Cardinality(leases) \in Nat
  BY <1>1, FS_CardinalityType DEF SessionsInv, LeasesOwned
<1>3. Cardinality(leases) <= MaxIndex BY SameCardinality DEF SessionsInv, Access!TypeOK
<1>5. Cardinality(ls) <= MaxIndex BY <1>1, <1>2, <1>3, SessionsAssumption
<1>4. ls \in SUBSET Access!Leases BY DEF SessionsInv, Access!TypeOK
<1> QED BY <1>1, <1>4, <1>5, ScheduleKeeps

LEMMA LeaseKeeps ==
  ASSUME SessionsInv, NEW c \in Callbacks, NEW p \in Access!Purposes, Access!LeaseSecret(c, p)
  PROVE  VaultKept /\ destroyed' = destroyed
<1> PICK now \in Access!Times :
      /\ now + Absolute <= MaxClock
      /\ Access!Leasable(c)
      /\ Access!Schedule(leases \cup {Access!NewLease(c, p, now)}, destroyed, now)
  BY DEF Access!LeaseSecret
<1> DEFINE new == Access!NewLease(c, p, now)
<1>1. new \in Access!Leases
  BY NoncesAssumption, SessionsAssumption DEF Access!NewLease, Access!Leases, Access!Times
<1> HIDE DEF new
<1>2. IsFiniteSet(leases) /\ leases \subseteq Access!Leases /\ Cardinality(leases) \in Nat
  BY FS_CardinalityType DEF SessionsInv, LeasesOwned, Access!TypeOK
<1>3. IsFiniteSet(leases \cup {new}) /\ Cardinality(leases \cup {new}) <= Cardinality(leases) + 1
  BY <1>2, FS_AddElement
<1>4. Cardinality(leases \cup {new}) \in Nat BY <1>3, FS_CardinalityType
<1>5. Cardinality(leases \cup {new}) <= MaxIndex
  BY <1>2, <1>3, <1>4, SameCardinality, SessionsAssumption DEF Access!Leasable
<1>6. destroyed \in SUBSET Callbacks BY DEF SessionsInv, Access!TypeOK
<1>7. Access!Schedule(leases \cup {new}, destroyed, now) BY DEF new
<1>8. VaultKept BY <1>1, <1>2, <1>3, <1>5, <1>6, <1>7, ScheduleKeeps
<1> QED BY <1>7, <1>8 DEF Access!Schedule

LEMMA DestroyKeeps ==
  ASSUME SessionsInv, NEW c \in Callbacks, Access!VaultDestroySession(c)
  PROVE  VaultKept /\ c \in destroyed'
<1>1. CASE c \in destroyed BY <1>1, UnchangedKeeps DEF Access!VaultDestroySession, Access!vault
<1>2. CASE c \notin destroyed
  <2>1. Access!Schedule({x \in leases : x.session # c}, destroyed \cup {c}, clock)
    BY <1>2 DEF Access!VaultDestroySession
  <2>2. VaultKept
    <3>1. destroyed \cup {c} \in SUBSET Callbacks BY DEF SessionsInv, Access!TypeOK
    <3>2. {x \in leases : x.session # c} \in SUBSET leases OBVIOUS
    <3> QED BY <2>1, <3>1, <3>2, FewerKeep
  <2> QED BY <2>1, <2>2 DEF Access!Schedule
<1> QED BY <1>1, <1>2

LEMMA RefreshKeeps ==
  ASSUME SessionsInv, NEW x \in leases, NEW now \in Access!Times,
         Access!Schedule((leases \ {x}) \cup {[x EXCEPT !.accessed = now]}, destroyed, now)
  PROVE  VaultKept
<1> DEFINE new == [x EXCEPT !.accessed = now]
<1>1. IsFiniteSet(leases) /\ leases \subseteq Access!Leases /\ Cardinality(leases) \in Nat
      /\ Cardinality(leases) <= MaxIndex
  BY SameCardinality, FS_CardinalityType DEF SessionsInv, LeasesOwned, Access!TypeOK
<1>2. new \in Access!Leases BY <1>1 DEF Access!Leases
<1> HIDE DEF new
<1>3. /\ IsFiniteSet(leases \ {x}) /\ Cardinality(leases \ {x}) = Cardinality(leases) - 1
      /\ Cardinality(leases \ {x}) \in Nat
  BY <1>1, FS_RemoveElement, FS_CardinalityType
<1>4. /\ IsFiniteSet((leases \ {x}) \cup {new})
      /\ Cardinality((leases \ {x}) \cup {new}) <= Cardinality(leases \ {x}) + 1
  <2> DEFINE rest == leases \ {x}
  <2> HIDE DEF rest
  <2>1. IsFiniteSet(rest) /\ Cardinality(rest) \in Nat BY <1>3 DEF rest
  <2>2. IsFiniteSet(rest \cup {new}) /\ Cardinality(rest \cup {new}) <= Cardinality(rest) + 1
    BY <2>1, FS_AddElement
  <2> QED BY <2>2 DEF rest
<1>5. Cardinality((leases \ {x}) \cup {new}) \in Nat BY <1>4, FS_CardinalityType
<1>6. Cardinality((leases \ {x}) \cup {new}) <= MaxIndex
  BY <1>1, <1>3, <1>4, <1>5, SessionsAssumption
<1>7. destroyed \in SUBSET Callbacks BY DEF SessionsInv, Access!TypeOK
<1>8. (leases \ {x}) \cup {new} \in SUBSET Access!Leases BY <1>1, <1>2
<1>9. Access!Schedule((leases \ {x}) \cup {new}, destroyed, now) BY DEF new
<1> QED BY <1>4, <1>6, <1>7, <1>8, <1>9, ScheduleKeeps

\* No callback, no lease: the initial state satisfies the invariant.
LEMMA SessionsInit == Access!Init => SessionsInv
<1> SUFFICES ASSUME Access!Init PROVE SessionsInv OBVIOUS
<1> USE NoncesAssumption, SessionsAssumption DEF Access!Init
<1>1. IsFiniteSet(leases) /\ Cardinality(leases) = 0 BY FS_EmptySet
<1>2. Access!TypeOK BY <1>1, SameCardinality DEF Access!TypeOK, Access!Times, Access!NoAlarm, Access!NoRead
<1>3. LoginConsumed BY DEF LoginConsumed, Admitted
<1>4. VaultFirst BY DEF VaultFirst
<1>5. LeasesOwned /\ Access!AlarmCoversLeases BY <1>1 DEF LeasesOwned, Access!AlarmCoversLeases
<1> QED BY <1>2, <1>3, <1>4, <1>5 DEF SessionsInv

\* A step of the vault, its clock or its reader.
OnlyVault ==
  /\ VaultKept
  /\ clock' \in Access!Times
  /\ reader' \in {Access!NoRead} \cup [step : {"decrypt"}, lease : Access!Leases, now : Access!Times]
  /\ reads' \in 0..MaxReads
  /\ UNCHANGED <<auth, pc, login, sessions, late, logout, ended>>

\* Time, the alarm and the reads of secrets change the vault only.
LEMMA VaultStep ==
  ASSUME SessionsInv,
         \/ Access!Tick \/ Access!Alarm \/ Access!FinishRead
         \/ \E lease \in leases : Access!ReadSecret(lease)
         \/ Next /\ UNCHANGED sessionVars
         \/ UNCHANGED <<clock, sessionVars>>
  PROVE  SessionsInv'
<1> USE NoncesAssumption, SessionsAssumption DEF Access!vault
<1>1. OnlyVault
  <2> USE DEF OnlyVault
  <2>1. CASE Access!Tick
    BY <2>1, UnchangedKeeps DEF Access!Tick, Access!Times, SessionsInv, Access!TypeOK
  <2>2. CASE Access!Alarm
    <3>1. VaultKept
      <4>1. Access!Schedule({x \in leases : clock < Access!Expires(x)}, destroyed, clock)
        BY <2>2 DEF Access!Alarm
      <4>2. {x \in leases : clock < Access!Expires(x)} \in SUBSET leases OBVIOUS
      <4>3. destroyed \in SUBSET Callbacks BY DEF SessionsInv, Access!TypeOK
      <4> QED BY <4>1, <4>2, <4>3, FewerKeep
    <3> QED BY <2>2, <3>1 DEF Access!Alarm, SessionsInv, Access!TypeOK
  <2>3. CASE Access!FinishRead
    <3>1. reader.lease \in Access!Leases /\ reader.now \in Access!Times
      BY <2>3 DEF Access!FinishRead, SessionsInv, Access!TypeOK, Access!NoRead
    <3>2. VaultKept
      <4>1. CASE Access!UnchangedSince(reader.lease)
        <5>1. /\ reader.lease \in leases
              /\ Access!Schedule((leases \ {reader.lease}) \cup {[reader.lease EXCEPT !.accessed = reader.now]},
                                 destroyed, reader.now)
          BY <2>3, <4>1 DEF Access!FinishRead, Access!UnchangedSince
        <5> QED BY <5>1, <3>1, RefreshKeeps
      <4>2. CASE ~Access!UnchangedSince(reader.lease)
        BY <2>3, <4>2, UnchangedKeeps DEF Access!FinishRead
      <4> QED BY <4>1, <4>2
    <3> QED BY <2>3, <3>2 DEF Access!FinishRead, SessionsInv, Access!TypeOK
  <2>4. ASSUME NEW lease \in leases, Access!ReadSecret(lease)
        PROVE  OnlyVault
    <3>1. reads' \in 0..MaxReads BY <2>4 DEF Access!ReadSecret, SessionsInv, Access!TypeOK
    <3>2. /\ VaultKept
          /\ reader' \in {Access!NoRead} \cup [step : {"decrypt"}, lease : Access!Leases, now : Access!Times]
      <4>1. CASE clock - lease.accessed > Idle \/ clock >= lease.absolute
        <5>1. Access!Schedule(leases \ {lease}, destroyed, clock) /\ UNCHANGED reader
          BY <2>4, <4>1 DEF Access!ReadSecret
        <5>2. destroyed \in SUBSET Callbacks BY DEF SessionsInv, Access!TypeOK
        <5>3. leases \ {lease} \in SUBSET leases OBVIOUS
        <5>4. VaultKept BY <5>1, <5>2, <5>3, FewerKeep
        <5> QED BY <5>1, <5>4 DEF SessionsInv, Access!TypeOK
      <4>2. CASE ~(clock - lease.accessed > Idle \/ clock >= lease.absolute)
        BY <2>4, <4>2, UnchangedKeeps DEF Access!ReadSecret, SessionsInv, Access!TypeOK
      <4> QED BY <4>1, <4>2
    <3> QED BY <2>4, <3>1, <3>2 DEF Access!ReadSecret, SessionsInv, Access!TypeOK
  <2>5. CASE Next /\ UNCHANGED sessionVars
    <3>1. clock' \in Access!Times
      BY <2>5 DEF Next, Tick, Sign, ConsumeCoreNonce, SessionsInv, Access!TypeOK, Access!Times
    <3> QED BY <2>5, <3>1, UnchangedKeeps DEF sessionVars, SessionsInv, Access!TypeOK
  <2>6. CASE UNCHANGED <<clock, sessionVars>>
    BY <2>6, UnchangedKeeps DEF sessionVars, SessionsInv, Access!TypeOK
  <2> QED BY <2>1, <2>2, <2>3, <2>4, <2>5, <2>6
<1> USE <1>1 DEF OnlyVault
<1>2. Access!TypeOK' BY SameCardinality DEF SessionsInv, Access!TypeOK, VaultKept
<1>3. LoginConsumed' BY DEF SessionsInv, LoginConsumed, Admitted
<1>4. VaultFirst' BY DEF SessionsInv, VaultFirst, VaultKept
<1> QED BY <1>1, <1>2, <1>3, <1>4 DEF SessionsInv, VaultKept

\* The steps of the handler of a callback.
LEMMA CallbackStep ==
  ASSUME SessionsInv, NEW c \in Callbacks,
         \/ Access!HandleCallback(c) \/ Access!AuthenticateCode(c) \/ Access!CreateSession(c)
         \/ Access!Lease(c) \/ Access!LoseLease(c) \/ Access!UndoVault(c) \/ Access!UndoSession(c)
         \/ Access!AbortCallback(c)
  PROVE  SessionsInv'
<1> USE NoncesAssumption, SessionsAssumption
        DEF SessionsInv, Access!Goto, Access!vault
<1>1. CASE Access!HandleCallback(c)
  <2> USE <1>1 DEF Access!HandleCallback, Access!Consume
  <2>1. VaultKept BY UnchangedKeeps
  <2>2. Access!TypeOK' BY <2>1, SameCardinality DEF Access!TypeOK, VaultKept
  <2>3. LoginConsumed' BY DEF LoginConsumed, Admitted, Access!TypeOK
  <2>4. VaultFirst' BY DEF VaultFirst, Access!TypeOK
  <2> QED BY <2>1, <2>2, <2>3, <2>4 DEF VaultKept
<1>2. CASE Access!AuthenticateCode(c)
  <2> USE <1>2 DEF Access!AuthenticateCode
  <2>1. VaultKept BY UnchangedKeeps
  <2>2. Access!TypeOK' BY <2>1, SameCardinality DEF Access!TypeOK, VaultKept
  <2>3. LoginConsumed' BY DEF LoginConsumed, Admitted, Access!TypeOK
  <2>4. VaultFirst' BY DEF VaultFirst, Access!TypeOK
  <2> QED BY <2>1, <2>2, <2>3, <2>4 DEF VaultKept
<1>3. CASE Access!CreateSession(c)
  <2> USE <1>3 DEF Access!CreateSession
  <2>1. VaultKept BY UnchangedKeeps
  <2>2. Access!TypeOK' BY <2>1, SameCardinality DEF Access!TypeOK, VaultKept, Access!Times
  <2>3. LoginConsumed' BY DEF LoginConsumed, Admitted, Access!TypeOK
  <2>4. VaultFirst' BY DEF VaultFirst, Access!TypeOK
  <2> QED BY <2>1, <2>2, <2>3, <2>4 DEF VaultKept
<1>4. CASE Access!Lease(c)
  <2> USE <1>4 DEF Access!Lease
  <2>1. VaultKept BY UnchangedKeeps, LeaseKeeps DEF Access!Purpose, Access!Purposes
  <2>2. Access!TypeOK' BY <2>1, SameCardinality DEF Access!TypeOK, VaultKept
  <2>3. LoginConsumed'
    <3>1. /\ pc[c] \notin {"idle", "failed"}
          /\ \E step \in {"lease_refresh", "done", "undo_vault"} : pc' = [pc EXCEPT ![c] = step]
          /\ UNCHANGED <<auth, login, sessions>>
      OBVIOUS
    <3> HIDE <1>4
    <3> QED BY <3>1 DEF LoginConsumed, Admitted, Access!TypeOK
  <2>4. VaultFirst' BY <2>1 DEF VaultFirst, Access!TypeOK, VaultKept
  <2> QED BY <2>1, <2>2, <2>3, <2>4 DEF VaultKept
<1>5. CASE Access!LoseLease(c)
  <2> USE <1>5 DEF Access!LoseLease
  <2>1. VaultKept BY UnchangedKeeps
  <2>2. Access!TypeOK'
    BY <2>1, SameCardinality DEF Access!TypeOK, VaultKept, Access!Purpose, Access!Purposes
  <2>3. LoginConsumed' BY DEF LoginConsumed, Admitted, Access!TypeOK
  <2>4. VaultFirst' BY DEF VaultFirst, Access!TypeOK
  <2> QED BY <2>1, <2>2, <2>3, <2>4 DEF VaultKept
<1>6. CASE Access!UndoVault(c)
  <2> USE <1>6 DEF Access!UndoVault
  <2>1. VaultKept /\ c \in destroyed' BY DestroyKeeps
  <2>2. Access!TypeOK' BY <2>1, SameCardinality DEF Access!TypeOK, VaultKept
  <2>3. LoginConsumed' BY DEF LoginConsumed, Admitted, Access!TypeOK
  <2>4. VaultFirst' BY <2>1 DEF VaultFirst, Access!TypeOK, VaultKept
  <2> QED BY <2>1, <2>2, <2>3, <2>4 DEF VaultKept
<1>7. CASE Access!UndoSession(c)
  <2> USE <1>7 DEF Access!UndoSession, Access!DestroySession
  <2>1. VaultKept BY UnchangedKeeps
  <2>2. Access!TypeOK' BY <2>1, SameCardinality DEF Access!TypeOK, VaultKept
  <2>3. LoginConsumed' BY DEF LoginConsumed, Admitted, Access!TypeOK
  <2>4. VaultFirst' BY DEF VaultFirst, Access!TypeOK
  <2> QED BY <2>1, <2>2, <2>3, <2>4 DEF VaultKept
<1>8. CASE Access!AbortCallback(c)
  <2> USE <1>8 DEF Access!AbortCallback
  <2>1. VaultKept BY UnchangedKeeps
  <2>2. Access!TypeOK' BY <2>1, SameCardinality DEF Access!TypeOK, VaultKept
  <2>3. LoginConsumed' BY DEF LoginConsumed, Admitted, Access!TypeOK
  <2>4. VaultFirst' BY DEF VaultFirst, Access!TypeOK
  <2> QED BY <2>1, <2>2, <2>3, <2>4 DEF VaultKept
<1> QED BY <1>1, <1>2, <1>3, <1>4, <1>5, <1>6, <1>7, <1>8

\* The steps of a login, a session and its logout that are not the callback's.
LEMMA SessionStep ==
  ASSUME SessionsInv,
         \/ \E l \in Logins : Access!BeginAuth(l)
         \/ \E c \in Callbacks :
              \/ Access!Authenticate(c) \/ Access!HandleLogout(c) \/ Access!LogoutVault(c)
              \/ Access!LogoutSession(c) \/ Access!AbortLogout(c)
              \/ \E purpose \in Access!Purposes : Access!LateLease(c, purpose)
  PROVE  SessionsInv'
<1> USE NoncesAssumption, SessionsAssumption
        DEF SessionsInv, Access!vault
<1>1. ASSUME NEW l \in Logins, Access!BeginAuth(l) PROVE SessionsInv'
  <2> USE <1>1 DEF Access!BeginAuth
  <2>1. VaultKept BY UnchangedKeeps
  <2>2. Access!TypeOK' BY <2>1, SameCardinality DEF Access!TypeOK, VaultKept, Access!Times
  <2>3. LoginConsumed' BY DEF LoginConsumed, Admitted, Access!TypeOK
  <2>4. VaultFirst' BY DEF VaultFirst, Access!TypeOK
  <2> QED BY <2>1, <2>2, <2>3, <2>4 DEF VaultKept
<1>2. ASSUME NEW c \in Callbacks, Access!Authenticate(c) \/ Access!HandleLogout(c) PROVE SessionsInv'
  <2>1. /\ VaultKept /\ UNCHANGED <<clock, auth, pc, login, destroyed, late, reader, reads, ended>>
        /\ pc[c] = "done" /\ sessions[c].state = "live"
    BY <1>2, UnchangedKeeps DEF Access!Authenticate, Access!HandleLogout
  <2>2. \E s \in [state : {"live", "gone"}, seen : Access!Times, absolute : 0..(MaxClock + Absolute)] :
          sessions' = [sessions EXCEPT ![c] = s]
    <3>1. Access!Validated(c) BY <1>2 DEF Access!Authenticate, Access!HandleLogout
    <3> DEFINE s == IF Access!Expired(c) THEN [sessions[c] EXCEPT !.state = "gone"]
                                         ELSE [sessions[c] EXCEPT !.seen = clock]
    <3>2. sessions' = [sessions EXCEPT ![c] = s] BY <3>1 DEF Access!Validated
    <3>3. s \in [state : {"live", "gone"}, seen : Access!Times, absolute : 0..(MaxClock + Absolute)]
      BY <2>1 DEF Access!TypeOK
    <3> QED BY <3>2, <3>3
  <2>3. logout' = logout \/ \E step \in {"idle", "vault"} : logout' = [logout EXCEPT ![c] = step]
    BY <1>2 DEF Access!Authenticate, Access!HandleLogout
  <2>4. Access!TypeOK' BY <2>1, <2>2, <2>3, SameCardinality DEF Access!TypeOK, VaultKept
  <2>5. LoginConsumed' BY <2>1, <2>2 DEF LoginConsumed, Admitted, Access!TypeOK
  <2>6. VaultFirst' BY <2>1, <2>2, <2>3 DEF VaultFirst, Access!TypeOK
  <2> QED BY <2>1, <2>4, <2>5, <2>6 DEF VaultKept
<1>3. ASSUME NEW c \in Callbacks, Access!LogoutVault(c) PROVE SessionsInv'
  <2> USE <1>3 DEF Access!LogoutVault
  <2>1. VaultKept /\ c \in destroyed' BY DestroyKeeps
  <2>2. Access!TypeOK' BY <2>1, SameCardinality DEF Access!TypeOK, VaultKept
  <2>3. LoginConsumed' BY DEF LoginConsumed, Admitted, Access!TypeOK
  <2>4. VaultFirst' BY <2>1 DEF VaultFirst, Access!TypeOK, VaultKept
  <2> QED BY <2>1, <2>2, <2>3, <2>4 DEF VaultKept
<1>4. ASSUME NEW c \in Callbacks, Access!LogoutSession(c) PROVE SessionsInv'
  <2> USE <1>4 DEF Access!LogoutSession, Access!DestroySession
  <2>1. VaultKept BY UnchangedKeeps
  <2>2. Access!TypeOK' BY <2>1, SameCardinality DEF Access!TypeOK, VaultKept
  <2>3. LoginConsumed' BY DEF LoginConsumed, Admitted, Access!TypeOK
  <2>4. VaultFirst' BY DEF VaultFirst, Access!TypeOK
  <2> QED BY <2>1, <2>2, <2>3, <2>4 DEF VaultKept
<1>5. ASSUME NEW c \in Callbacks, Access!AbortLogout(c) PROVE SessionsInv'
  <2> USE <1>5 DEF Access!AbortLogout
  <2>1. VaultKept BY UnchangedKeeps
  <2>2. Access!TypeOK' BY <2>1, SameCardinality DEF Access!TypeOK, VaultKept
  <2>3. LoginConsumed' BY DEF LoginConsumed, Admitted, Access!TypeOK
  <2>4. VaultFirst' BY DEF VaultFirst, Access!TypeOK
  <2> QED BY <2>1, <2>2, <2>3, <2>4 DEF VaultKept
<1>6. ASSUME NEW c \in Callbacks, NEW purpose \in Access!Purposes, Access!LateLease(c, purpose)
      PROVE  SessionsInv'
  <2> USE <1>6 DEF Access!LateLease
  <2>1. VaultKept BY UnchangedKeeps, LeaseKeeps
  <2>2. Access!TypeOK' BY <2>1, SameCardinality DEF Access!TypeOK, VaultKept
  <2>3. LoginConsumed' BY DEF LoginConsumed, Admitted, Access!TypeOK
  <2>4. VaultFirst' BY <2>1 DEF VaultFirst, Access!TypeOK, VaultKept
  <2> QED BY <2>1, <2>2, <2>3, <2>4 DEF VaultKept
<1> QED BY <1>1, <1>2, <1>3, <1>4, <1>5, <1>6

\* The invariant is inductive; the proofs of requests move the clock only.
THEOREM SessionsInvariant == AccessSpec => []SessionsInv
<1>1. AccessInit => SessionsInv BY SessionsInit DEF AccessInit
<1>2. SessionsInv /\ Access!Next => SessionsInv'
  <2> SUFFICES ASSUME SessionsInv, Access!Next PROVE SessionsInv' OBVIOUS
  <2>1. CASE \/ Access!Tick \/ Access!Alarm \/ Access!FinishRead
             \/ \E lease \in leases : Access!ReadSecret(lease)
    BY <2>1, VaultStep
  <2>2. CASE \E l \in Logins : Access!BeginAuth(l) BY <2>2, SessionStep
  <2>3. ASSUME NEW c \in Callbacks,
               \/ Access!HandleCallback(c) \/ Access!AuthenticateCode(c) \/ Access!CreateSession(c)
               \/ Access!Lease(c) \/ Access!LoseLease(c) \/ Access!UndoVault(c)
               \/ Access!UndoSession(c) \/ Access!AbortCallback(c)
        PROVE  SessionsInv'
    BY <2>3, CallbackStep
  <2>4. ASSUME NEW c \in Callbacks,
               \/ Access!Authenticate(c) \/ Access!HandleLogout(c) \/ Access!LogoutVault(c)
               \/ Access!LogoutSession(c) \/ Access!AbortLogout(c)
               \/ \E purpose \in Access!Purposes : Access!LateLease(c, purpose)
        PROVE  SessionsInv'
    BY <2>4, SessionStep
  <2> QED BY <2>1, <2>2, <2>3, <2>4 DEF Access!Next
<1>3. SessionsInv /\ [AccessNext]_<<clock, sessionVars, nonceVars, subject>> => SessionsInv'
  BY <1>2, VaultStep DEF AccessNext
<1> QED BY <1>1, <1>3, PTL DEF AccessSpec

\* Logins, sessions and the vault are well typed, and the index of the vault
\* never passes its limit (MAX_INDEX).
THEOREM SessionsTyped == AccessSpec => []Access!TypeOK
<1>1. SessionsInv => Access!TypeOK BY DEF SessionsInv
<1> QED BY SessionsInvariant, <1>1, PTL

\* However often and late the callback of a login arrives, it makes one
\* session (consumeAuth and its consumed marker).
THEOREM LoginsMakeOneSession == AccessSpec => []OneSessionPerLogin
<1>1. SessionsInv => OneSessionPerLogin
  BY DEF SessionsInv, LoginConsumed, Admitted, OneSessionPerLogin, Access!OneSessionPerLogin
<1> QED BY SessionsInvariant, <1>1, PTL

\* After a completed logout or undo neither the session nor a secret of it is
\* left, and none comes back, whatever calls and reads were still under way;
\* and the alarm is set no later than any secret expires (handleLogout,
\* leaseSecret, readSecret, scheduleNextAlarmTx).
THEOREM SecretsAreEnded == AccessSpec => []SecretsEnd
<1>1. SessionsInv => SecretsEnd
  BY DEF SessionsInv, VaultFirst, LeasesOwned, SecretsEnd, Access!SecretsEnd, Access!NothingLeftAfterEnd,
         Access!TypeOK
<1> QED BY SessionsInvariant, <1>1, PTL
=============================================================================
