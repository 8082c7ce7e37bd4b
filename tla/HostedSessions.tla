--------------------------- MODULE HostedSessions ---------------------------
(***************************************************************************)
(* Login, session and logout of the hosted deployment: handleAuthorize,    *)
(* handleCallback, authenticate and handleLogout (cloud/src/index.ts), the *)
(* authorization transactions and sessions of workspace-coordinator.ts and *)
(* the secret leases of session-vault.ts.                                  *)
(*                                                                         *)
(* Coordinator and vault are two durable objects: each method is one       *)
(* transaction (readSecret two), and a handler that calls several of them  *)
(* can stop in between.  A call whose answer is lost still happens, later. *)
(* One workspace is modelled; a session is named by the delivery of the    *)
(* callback that creates it.                                               *)
(***************************************************************************)
EXTENDS Integers, FiniteSets, FiniteSetsExt

CONSTANTS
  Logins,      \* authorization transactions
  Callbacks,   \* deliveries of the callback request
  AuthWindow,  \* AUTH_MS
  Idle,        \* IDLE_MS
  Absolute,    \* ABSOLUTE_MS
  MaxIndex,    \* MAX_INDEX of the vault
  MaxClock,    \* bound: time
  MaxReads     \* bound: reads of a secret

VARIABLES
  clock,
  auth,      \* auth:* and auth-consumed:* of a login: its state, and when it expires
  pc,        \* the step of a callback
  login,     \* the login a callback is for
  sessions,  \* session:* and session-tombstone:*
  leases,    \* lease:*, listed in lease-index and in the index of the session
  destroyed, \* vault-tombstone:*
  alarm,     \* the alarm of the vault, NoAlarm if none is set
  late,      \* lease calls still under way after their caller gave up
  reader,    \* the read of a secret in progress
  reads,
  logout,    \* the step of the logout of a session
  ended      \* sessions whose logout or undo was completed

vault == <<leases, destroyed, alarm>>
vars == <<clock, auth, pc, login, sessions, leases, destroyed, alarm, late, reader, reads, logout, ended>>

Times == 0..MaxClock
NoAlarm == MaxClock + 1
Purposes == {"workos_access", "workos_refresh"}
Leases == [session : Callbacks, purpose : Purposes, accessed : Times, absolute : Times]
NoRead == [step |-> "idle"]

\* Every variable has its type, and the index of the vault its limit.
TypeOK ==
  /\ clock \in Times
  /\ auth \in [Logins -> [state : {"none", "pending", "consumed"}, expires : 0..(MaxClock + AuthWindow)]]
  /\ pc \in [Callbacks -> {"idle", "exchange", "create", "lease_access", "lease_refresh",
                           "undo_vault", "undo_session", "done", "failed"}]
  /\ login \in [Callbacks -> Logins]
  /\ sessions \in [Callbacks -> [state : {"none", "live", "gone"}, seen : Times,
                                 absolute : 0..(MaxClock + Absolute)]]
  /\ leases \subseteq Leases /\ Cardinality(leases) <= MaxIndex
  /\ destroyed \subseteq Callbacks
  /\ alarm \in 0..NoAlarm
  /\ late \subseteq Callbacks \X Purposes
  /\ reader \in {NoRead} \cup [step : {"decrypt"}, lease : Leases, now : Times]
  /\ reads \in 0..MaxReads
  /\ logout \in [Callbacks -> {"idle", "vault", "session"}]
  /\ ended \subseteq Callbacks

Init ==
  /\ clock = 0
  /\ auth = [l \in Logins |-> [state |-> "none", expires |-> 0]]
  /\ pc = [c \in Callbacks |-> "idle"]
  /\ login \in [Callbacks -> Logins]
  /\ sessions = [c \in Callbacks |-> [state |-> "none", seen |-> 0, absolute |-> 0]]
  /\ leases = {} /\ destroyed = {} /\ alarm = NoAlarm
  /\ late = {}
  /\ reader = NoRead /\ reads = 0
  /\ logout = [c \in Callbacks |-> "idle"]
  /\ ended = {}

Tick ==
  /\ clock < MaxClock
  /\ clock' = clock + 1
  /\ UNCHANGED <<auth, pc, login, sessions, vault, late, reader, reads, logout, ended>>

Goto(c, step) == pc' = [pc EXCEPT ![c] = step]

(***************************************************************************)
(* The vault                                                               *)
(***************************************************************************)

Expires(lease) == Min({lease.accessed + Idle, lease.absolute})

\* scheduleNextAlarmTx: leases of destroyed sessions and expired ones go, and
\* the alarm is set for the first of the others to expire.
Kept(ls, gone, now) == {x \in ls : x.session \notin gone /\ now < Expires(x)}
Schedule(ls, gone, now) ==
  LET kept == Kept(ls, gone, now) IN
  /\ leases' = kept
  /\ destroyed' = gone
  /\ alarm' = IF kept = {} THEN NoAlarm ELSE Min({Expires(x) : x \in kept})

\* The time a call read before it waited for the cipher: now, or a moment ago.
Read(now) == now \in {clock, Max({0, clock - 1})}

NewLease(c, purpose, now) ==
  [session |-> c, purpose |-> purpose, accessed |-> now, absolute |-> now + Absolute]

\* The transaction of leaseSecret refuses a destroyed session; an index past
\* its limit makes it fail as a whole, for scheduling reads the index again.
Leasable(c) == c \notin destroyed /\ Cardinality(leases) < MaxIndex

LeaseSecret(c, purpose) == \E now \in Times :
  /\ Read(now)
  /\ now + Absolute <= MaxClock
  /\ Leasable(c)
  /\ Schedule(leases \cup {NewLease(c, purpose, now)}, destroyed, now)

\* destroySession of the vault; a second call finds the tombstone.
\* Mutant: it leaves no tombstone.
VaultDestroyNoTombstone(c) == Schedule({x \in leases : x.session # c}, destroyed, clock)
VaultDestroySession(c) ==
  IF c \in destroyed THEN UNCHANGED vault
  ELSE Schedule({x \in leases : x.session # c}, destroyed \cup {c}, clock)

\* alarm: the platform repeats it until it succeeds.
Alarm ==
  /\ alarm # NoAlarm
  /\ clock >= alarm
  /\ Schedule({x \in leases : clock < Expires(x)}, destroyed, clock)
  /\ UNCHANGED <<clock, auth, pc, login, sessions, late, reader, reads, logout, ended>>

\* readSecret up to the decryption: an expired lease is removed.
ReadSecret(lease) ==
  /\ reader = NoRead
  /\ reads < MaxReads
  /\ reads' = reads + 1
  /\ lease \in leases
  /\ lease.session \notin destroyed
  /\ IF clock - lease.accessed > Idle \/ clock >= lease.absolute
     THEN Schedule(leases \ {lease}, destroyed, clock) /\ UNCHANGED reader
     ELSE reader' = [step |-> "decrypt", lease |-> lease, now |-> clock] /\ UNCHANGED vault
  /\ UNCHANGED <<clock, auth, pc, login, sessions, late, logout, ended>>

\* The lease read is still there as it was, and its session was not destroyed.
UnchangedSince(lease) == lease.session \notin destroyed /\ lease \in leases

FinishRead ==
  /\ reader.step = "decrypt"
  /\ IF UnchangedSince(reader.lease)
     THEN Schedule((leases \ {reader.lease}) \cup {[reader.lease EXCEPT !.accessed = reader.now]},
                   destroyed, reader.now)
     ELSE UNCHANGED vault
  /\ reader' = NoRead
  /\ UNCHANGED <<clock, auth, pc, login, sessions, late, reads, logout, ended>>

(***************************************************************************)
(* Login                                                                   *)
(***************************************************************************)

BeginAuth(l) ==
  /\ auth[l].state = "none"
  /\ auth' = [auth EXCEPT ![l] = [state |-> "pending", expires |-> clock + AuthWindow]]
  /\ UNCHANGED <<clock, pc, login, sessions, vault, late, reader, reads, logout, ended>>

\* consumeAuth: whatever it answers, the transaction is consumed.
\* Mutant: it is consumed when the session exists.
ConsumeLater(l) == auth
Consume(l) == [auth EXCEPT ![l].state = "consumed"]

HandleCallback(c) ==
  /\ pc[c] = "idle"
  /\ auth[login[c]].state # "none"
  /\ auth' = Consume(login[c])
  /\ \E matches \in BOOLEAN :
       LET ok == auth[login[c]].state = "pending" /\ matches /\ clock < auth[login[c]].expires
       IN Goto(c, IF ok THEN "exchange" ELSE "failed")
  /\ UNCHANGED <<clock, login, sessions, vault, late, reader, reads, logout, ended>>

\* authenticateCode at WorkOS.
AuthenticateCode(c) ==
  /\ pc[c] = "exchange"
  /\ \E ok \in BOOLEAN : Goto(c, IF ok THEN "create" ELSE "failed")
  /\ UNCHANGED <<clock, auth, login, sessions, vault, late, reader, reads, logout, ended>>

CreateSession(c) ==
  /\ pc[c] = "create"
  /\ sessions' = [sessions EXCEPT ![c] = [state |-> "live", seen |-> clock, absolute |-> clock + Absolute]]
  /\ Goto(c, "lease_access")
  /\ UNCHANGED <<clock, auth, login, vault, late, reader, reads, logout, ended>>

Purpose(step) == IF step = "lease_access" THEN "workos_access" ELSE "workos_refresh"

Lease(c) ==
  /\ pc[c] \in {"lease_access", "lease_refresh"}
  /\ \/ /\ LeaseSecret(c, Purpose(pc[c]))
        /\ Goto(c, IF pc[c] = "lease_access" THEN "lease_refresh" ELSE "done")
     \/ ~Leasable(c) /\ Goto(c, "undo_vault") /\ UNCHANGED vault
  /\ UNCHANGED <<clock, auth, login, sessions, late, reader, reads, logout, ended>>

\* The answer is lost: the handler undoes the login while the call goes on.
LoseLease(c) ==
  /\ pc[c] \in {"lease_access", "lease_refresh"}
  /\ late' = late \cup {<<c, Purpose(pc[c])>>}
  /\ Goto(c, "undo_vault")
  /\ UNCHANGED <<clock, auth, login, sessions, vault, reader, reads, logout, ended>>

LateLease(c, purpose) ==
  /\ <<c, purpose>> \in late
  /\ late' = late \ {<<c, purpose>>}
  /\ LeaseSecret(c, purpose) \/ UNCHANGED vault
  /\ UNCHANGED <<clock, auth, pc, login, sessions, reader, reads, logout, ended>>

\* destroySession of the coordinator; it throws if the session is gone.
DestroySession(c) ==
  IF sessions[c].state = "live" THEN [sessions EXCEPT ![c].state = "gone"] ELSE sessions

UndoVault(c) ==
  /\ pc[c] = "undo_vault"
  /\ VaultDestroySession(c)
  /\ Goto(c, "undo_session")
  /\ UNCHANGED <<clock, auth, login, sessions, late, reader, reads, logout, ended>>

UndoSession(c) ==
  /\ pc[c] = "undo_session"
  /\ sessions' = DestroySession(c)
  /\ ended' = ended \cup {c}
  /\ Goto(c, "failed")
  /\ UNCHANGED <<clock, auth, login, vault, late, reader, reads, logout>>

\* The handler is cut off: what it wrote stays, nobody has the cookie.
AbortCallback(c) ==
  /\ pc[c] \in {"exchange", "create", "lease_access", "lease_refresh", "undo_vault", "undo_session"}
  /\ Goto(c, "failed")
  /\ UNCHANGED <<clock, auth, login, sessions, vault, late, reader, reads, logout, ended>>

(***************************************************************************)
(* The session                                                             *)
(***************************************************************************)

Expired(c) == clock - sessions[c].seen > Idle \/ clock >= sessions[c].absolute

\* validateSession.
Validated(c) ==
  sessions' = [sessions EXCEPT ![c] = IF Expired(c) THEN [@ EXCEPT !.state = "gone"]
                                                    ELSE [@ EXCEPT !.seen = clock]]

Authenticate(c) ==
  /\ pc[c] = "done"
  /\ sessions[c].state = "live"
  /\ Validated(c)
  /\ UNCHANGED <<clock, auth, pc, login, vault, late, reader, reads, logout, ended>>

HandleLogout(c) ==
  /\ pc[c] = "done"
  /\ logout[c] = "idle"
  /\ sessions[c].state = "live"
  /\ Validated(c)
  /\ logout' = [logout EXCEPT ![c] = IF Expired(c) THEN "idle" ELSE "vault"]
  /\ UNCHANGED <<clock, auth, pc, login, vault, late, reader, reads, ended>>

LogoutVault(c) ==
  /\ logout[c] = "vault"
  /\ VaultDestroySession(c)
  /\ logout' = [logout EXCEPT ![c] = "session"]
  /\ UNCHANGED <<clock, auth, pc, login, sessions, late, reader, reads, ended>>

LogoutSession(c) ==
  /\ logout[c] = "session"
  /\ sessions' = DestroySession(c)
  /\ ended' = ended \cup {c}
  /\ logout' = [logout EXCEPT ![c] = "idle"]
  /\ UNCHANGED <<clock, auth, pc, login, vault, late, reader, reads>>

AbortLogout(c) ==
  /\ logout[c] # "idle"
  /\ logout' = [logout EXCEPT ![c] = "idle"]
  /\ UNCHANGED <<clock, auth, pc, login, sessions, vault, late, reader, reads, ended>>

Next ==
  \/ Tick \/ Alarm \/ FinishRead
  \/ \E lease \in leases : ReadSecret(lease)
  \/ \E l \in Logins : BeginAuth(l)
  \/ \E c \in Callbacks :
       \/ HandleCallback(c) \/ AuthenticateCode(c) \/ CreateSession(c) \/ Lease(c) \/ LoseLease(c)
       \/ UndoVault(c) \/ UndoSession(c) \/ AbortCallback(c)
       \/ Authenticate(c) \/ HandleLogout(c) \/ LogoutVault(c) \/ LogoutSession(c) \/ AbortLogout(c)
       \/ \E purpose \in Purposes : LateLease(c, purpose)

Spec == Init /\ [][Next]_vars

(***************************************************************************)
(* Properties                                                              *)
(***************************************************************************)

\* However often and late the callback of a login arrives, it makes one
\* session (consumeAuth and its consumed marker).
OneSessionPerLogin ==
  \A c, d \in Callbacks : login[c] = login[d] /\ sessions[c].state # "none" /\ sessions[d].state # "none"
                          => c = d

\* Once a logout or the undo of a login is completed nothing of the session is
\* left on the server, and nothing comes back: neither a lease call that runs
\* after its caller gave up nor a read that was decrypting meanwhile stores a
\* secret again (handleLogout, handleCallback, leaseSecret, readSecret).
NothingLeftAfterEnd ==
  \A c \in ended : sessions[c].state # "live" /\ \A x \in leases : x.session # c

\* The alarm is set no later than any secret expires, whatever other leases
\* came, were read or went since (scheduleNextAlarmTx).
AlarmCoversLeases == \A x \in leases : alarm <= Expires(x)

\* No secret outlives its session, nor its own term for want of an alarm
\* (destroySession, scheduleNextAlarmTx).
SecretsEnd == NothingLeftAfterEnd /\ AlarmCoversLeases
=============================================================================
