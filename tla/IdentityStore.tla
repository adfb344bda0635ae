---------------------------- MODULE IdentityStore ----------------------------
(***************************************************************************)
(* The managed identity store of the server (internal/admin/store.go,      *)
(* protocols.go, stats.go) together with the gateway sessions that         *)
(* register with it (internal/gateway/server.go).                          *)
(*                                                                         *)
(* Every Store method runs under Store.mu, so it is one action, with the   *)
(* outcome of its save() as a choice.  What happens OUTSIDE the lock is a  *)
(* step of its own: the closers that Delete and SetProtocols call after    *)
(* unlocking, and the gateway's verify / register / track / serve / done / *)
(* release, which take the lock separately.  The process may die at any    *)
(* step and start again from identities.json.                              *)
(***************************************************************************)
EXTENDS Naturals, FiniteSets

CONSTANTS
  Ids,           \* user identities; randomID never repeats one
  Names,         \* display names
  Sessions,      \* gateway connections, one registration token each
  Cert,          \* the id in the client certificate of a session
  Transport,     \* what it runs over: "quic" or "https" (WebSocket)
  Choices,       \* protocol selections the administrator submits
  PoolSize,      \* client addresses of the AWG network
  NoUser,        \* an id that is not in state.Users
  NoSession      \* LastConnected of a user who never connected

Protocols == {"quic", "https", "awg"}
Pool == 1 .. PoolSize               \* addresses provisionAWG may hand out
NoAddress == 0                      \* User.AWG == nil

User == [name      : Names,
         protocols : SUBSET Protocols,   \* nil is {"quic", "https"}
         disabled  : BOOLEAN,
         awg       : Pool \cup {NoAddress},
         last      : Sessions \cup {NoSession}]

ASSUME ChoicesAssumption == Choices \subseteq SUBSET Protocols
ASSUME PoolAssumption == PoolSize \in Nat
ASSUME NoUserAssumption == NoUser \notin User
ASSUME NoSessionAssumption == NoSession \notin Sessions
ASSUME CertAssumption == Cert \in [Sessions -> Ids]
ASSUME TransportAssumption == Transport \in [Sessions -> {"quic", "https"}]

VARIABLES
  users,       \* Store.state.Users
  disk,        \* the users of identities.json
  issued,      \* ids handed out so far: a certificate for them exists
  expired,     \* ids whose Expires has passed
  active,      \* Store.active[id]: sessions with a registered closer
  stats,       \* Store.stats[id].live: sessions being accounted
  closing,     \* sessions whose closer a finished Delete/SetProtocols
               \* still has to call
  phase,       \* how far the goroutine of a session has got
  open         \* sessions whose connection is not closed

storeVars == <<users, disk, issued, expired, active, stats, closing>>
sessionVars == <<phase, open>>
vars == <<users, disk, issued, expired, active, stats, closing, phase, open>>

Phases == {"none", "verified", "registered", "serving", "served", "over"}

TypeOK ==
  /\ users \in [Ids -> User \cup {NoUser}]
  /\ disk \in [Ids -> User \cup {NoUser}]
  /\ issued \in SUBSET Ids
  /\ expired \in SUBSET Ids
  /\ active \in [Ids -> SUBSET Sessions]
  /\ stats \in [Ids -> SUBSET Sessions]
  /\ closing \in SUBSET Sessions
  /\ phase \in [Sessions -> Phases]
  /\ open \in SUBSET Sessions

\* OpenStore on an empty directory; nothing is connected.
Init ==
  /\ users = [u \in Ids |-> NoUser]
  /\ disk = users
  /\ issued = {}
  /\ expired = {}
  /\ active = [u \in Ids |-> {}]
  /\ stats = [u \in Ids |-> {}]
  /\ closing = {}
  /\ phase = [s \in Sessions |-> "none"]
  /\ open = {}

-----------------------------------------------------------------------------
(* What the store decides about one user.                                  *)

Known(u) == users[u] # NoUser

\* Store.allowed: the certificate of u is accepted.
Allowed(u) == Known(u) /\ ~users[u].disabled /\ u \notin expired

\* User.Allows
Allows(u, p) == p \in users[u].protocols

\* Slip: only the addresses of users who have AWG switched on count as taken.
TakenByEnabled(u) ==
  {users[v].awg : v \in {w \in Ids \ {u} : Known(w) /\ "awg" \in users[w].protocols}}

\* The addresses in use by anyone but u, whatever their protocols.
TakenAddresses(u) == {users[v].awg : v \in {w \in Ids \ {u} : Known(w)}}

FreeAddresses(u) == Pool \ TakenAddresses(u)

\* provisionAWG: keep the address u has, else the lowest free one; NoAddress
\* without the protocol.
Provisioned(u, protocols, awg) ==
  IF "awg" \notin protocols \/ awg # NoAddress
    THEN awg
    ELSE CHOOSE a \in FreeAddresses(u) : \A b \in FreeAddresses(u) : a <= b

CanProvision(u, protocols, awg) ==
  /\ protocols # {}
  /\ "awg" \in protocols /\ awg = NoAddress => FreeAddresses(u) # {}

\* Slip: the old map is not put back when save fails.
CommitNoRollback(new, saved) ==
  /\ users' = new
  /\ disk' = IF saved THEN new ELSE disk

\* One locked update of state.Users followed by save().  A failed save puts
\* the old map back and leaves the file alone.
Commit(new, saved) ==
  IF saved
    THEN users' = new /\ disk' = new
    ELSE UNCHANGED <<users, disk>>

-----------------------------------------------------------------------------
(* Operations of the administrator.                                        *)

\* CreateWithProtocols
Create(u, name, protocols, saved) ==
  /\ u \notin issued
  /\ \A v \in Ids : Known(v) => users[v].name # name
  /\ CanProvision(u, protocols, NoAddress)
  /\ Commit([users EXCEPT ![u] =
               [name |-> name, protocols |-> protocols, disabled |-> FALSE,
                awg |-> Provisioned(u, protocols, NoAddress),
                last |-> NoSession]], saved)
  /\ issued' = IF saved THEN issued \cup {u} ELSE issued
  /\ UNCHANGED <<expired, active, stats, closing, sessionVars>>

\* Rename
Rename(u, name, saved) ==
  /\ Known(u)
  /\ \A v \in Ids \ {u} : Known(v) => users[v].name # name
  /\ Commit([users EXCEPT ![u].name = name], saved)
  /\ UNCHANGED <<issued, expired, active, stats, closing, sessionVars>>

\* Slip: the user is removed from memory and the file is not rewritten.
DeleteUnsaved(u, saved) ==
  /\ Known(u)
  /\ users' = [users EXCEPT ![u] = NoUser]
  /\ stats' = [stats EXCEPT ![u] = {}]
  /\ active' = [active EXCEPT ![u] = {}]
  /\ closing' = closing \cup active[u]
  /\ UNCHANGED <<disk, issued, expired, sessionVars>>

\* Slip: the registrations are dropped before the closers are taken.
DeleteLosesClosers(u, saved) ==
  /\ Known(u)
  /\ Commit([users EXCEPT ![u] = NoUser], saved)
  /\ stats' = IF saved THEN [stats EXCEPT ![u] = {}] ELSE stats
  /\ active' = IF saved THEN [active EXCEPT ![u] = {}] ELSE active
  /\ UNCHANGED <<issued, expired, closing, sessionVars>>

\* Delete up to its unlock; CallCloser is the loop after it.
Delete(u, saved) ==
  /\ Known(u)
  /\ Commit([users EXCEPT ![u] = NoUser], saved)
  /\ stats' = IF saved THEN [stats EXCEPT ![u] = {}] ELSE stats
  /\ active' = IF saved THEN [active EXCEPT ![u] = {}] ELSE active
  /\ closing' = IF saved THEN closing \cup active[u] ELSE closing
  /\ UNCHANGED <<issued, expired, sessionVars>>

\* Slip: only disabling the user closes sessions.
ExcludedIfDisabled(u, protocols, disabled) ==
  IF disabled THEN active[u] ELSE {}

\* The sessions SetProtocols closes; they stay in active until released.
Excluded(u, protocols, disabled) ==
  {s \in active[u] : disabled \/ Transport[s] \notin protocols}

\* SetProtocols up to its unlock.
SetProtocols(u, protocols, disabled, saved) ==
  /\ Known(u)
  /\ CanProvision(u, protocols, users[u].awg)
  /\ Commit([users EXCEPT ![u] =
               [@ EXCEPT !.protocols = protocols, !.disabled = disabled,
                         !.awg = Provisioned(u, protocols, users[u].awg)]], saved)
  /\ closing' = IF saved THEN closing \cup Excluded(u, protocols, disabled)
                         ELSE closing
  /\ UNCHANGED <<issued, expired, active, stats, sessionVars>>

\* One iteration of "for _, close := range closers".
CallCloser(s) ==
  /\ s \in closing
  /\ closing' = closing \ {s}
  /\ open' = open \ {s}
  /\ UNCHANGED <<users, disk, issued, expired, active, stats, phase>>

-----------------------------------------------------------------------------
(* The goroutine of one gateway session (ServeQUIC, WebSocket).            *)

Goto(s, from, to) ==
  /\ phase[s] = from
  /\ phase' = [phase EXCEPT ![s] = to]

\* The TLS handshake: VerifyConnection = Store.Verify.
Connect(s) ==
  /\ Allowed(Cert[s])
  /\ Goto(s, "none", "verified")
  /\ open' = open \cup {s}
  /\ UNCHANGED storeVars

\* RegisterProtocol: the user may have been changed since the handshake.
Register(s) ==
  /\ Allowed(Cert[s]) /\ Allows(Cert[s], Transport[s])
  /\ Goto(s, "verified", "registered")
  /\ active' = [active EXCEPT ![Cert[s]] = @ \cup {s}]
  /\ UNCHANGED <<users, disk, issued, expired, stats, closing, open>>

RegisterRefused(s) ==
  /\ ~(Allowed(Cert[s]) /\ Allows(Cert[s], Transport[s]))
  /\ Goto(s, "verified", "over")
  /\ open' = open \ {s}
  /\ UNCHANGED storeVars

\* The connection metadata is saved too, but a failure is only logged: the
\* change stays in memory.
SaveMetadata(new, saved) ==
  /\ users' = new
  /\ disk' = IF saved THEN new ELSE disk

\* Slip: a registered session is accounted without looking at the user again.
TrackUnchecked(s, saved) ==
  LET u == Cert[s] IN
  /\ Goto(s, "registered", "serving")
  /\ stats' = [stats EXCEPT ![u] = @ \cup {s}]
  /\ IF Known(u) THEN SaveMetadata([users EXCEPT ![u].last = s], saved)
                 ELSE UNCHANGED <<users, disk>>
  /\ UNCHANGED <<issued, expired, active, closing, open>>

\* Track: checks the user again, for the registration does not keep him.
Track(s, saved) ==
  LET u == Cert[s] IN
  /\ Goto(s, "registered", "serving")
  /\ \/ /\ Allowed(u)
        /\ stats' = [stats EXCEPT ![u] = @ \cup {s}]
        /\ SaveMetadata([users EXCEPT ![u].last = s], saved)
     \/ /\ ~Allowed(u)
        /\ UNCHANGED <<stats, users, disk>>
  /\ UNCHANGED <<issued, expired, active, closing, open>>

\* The peer or the network ends the connection.
Disconnect(s) ==
  /\ s \in open
  /\ open' = open \ {s}
  /\ UNCHANGED <<storeVars, phase>>

\* serve returns once the connection is closed; then the deferred done().
Done(s, saved) ==
  LET u == Cert[s] IN
  /\ s \notin open
  /\ Goto(s, "serving", "served")
  /\ stats' = [stats EXCEPT ![u] = @ \ {s}]
  /\ IF Known(u) /\ users[u].last = s
       THEN SaveMetadata(users, saved)
       ELSE UNCHANGED <<users, disk>>
  /\ UNCHANGED <<issued, expired, active, closing, open>>

\* The deferred release().
Release(s) ==
  /\ Goto(s, "served", "over")
  /\ active' = [active EXCEPT ![Cert[s]] = @ \ {s}]
  /\ UNCHANGED <<users, disk, issued, expired, stats, closing, open>>

-----------------------------------------------------------------------------
(* The environment.                                                        *)

\* The ninety days of a certificate are over.
Expire(u) ==
  /\ u \in issued \ expired
  /\ expired' = expired \cup {u}
  /\ UNCHANGED <<users, disk, issued, active, stats, closing, sessionVars>>

\* The server process dies (also between an unlock and its closers) and
\* OpenStore loads the file; every connection and goroutine is gone.
Restart ==
  /\ users' = disk
  /\ active' = [u \in Ids |-> {}]
  /\ stats' = [u \in Ids |-> {}]
  /\ closing' = {}
  /\ phase' = [s \in Sessions |-> IF phase[s] = "none" THEN "none" ELSE "over"]
  /\ open' = {}
  /\ UNCHANGED <<disk, issued, expired>>

-----------------------------------------------------------------------------

Admin ==
  \E u \in Ids, saved \in BOOLEAN :
    \/ \E n \in Names, ps \in Choices : Create(u, n, ps, saved)
    \/ \E n \in Names : Rename(u, n, saved)
    \/ Delete(u, saved)
    \/ \E ps \in Choices, d \in BOOLEAN : SetProtocols(u, ps, d, saved)

Gateway(s) ==
  \/ Connect(s)
  \/ Register(s)
  \/ RegisterRefused(s)
  \/ \E saved \in BOOLEAN : Track(s, saved)
  \/ Disconnect(s)
  \/ \E saved \in BOOLEAN : Done(s, saved)
  \/ Release(s)

Next ==
  \/ Admin
  \/ \E s \in Sessions : CallCloser(s) \/ Gateway(s)
  \/ \E u \in Ids : Expire(u)
  \/ Restart

\* Go's scheduler runs every goroutine that can run: a handler finishes its
\* loop of closers, and a session goroutine its registration and its defers.
\* Nothing is assumed of the administrator, the peers or the clock.
Fairness ==
  \A s \in Sessions :
    /\ WF_vars(CallCloser(s))
    /\ WF_vars(Register(s) \/ RegisterRefused(s))
    /\ WF_vars(\E saved \in BOOLEAN : Track(s, saved))
    /\ WF_vars(\E saved \in BOOLEAN : Done(s, saved))
    /\ WF_vars(Release(s))

Spec == Init /\ [][Next]_vars /\ Fairness

-----------------------------------------------------------------------------
(* What the store promises.                                                *)

Entitled(s) ==
  /\ Known(Cert[s])
  /\ ~users[Cert[s]].disabled
  /\ Allows(Cert[s], Transport[s])

Served(s) == phase[s] \in {"registered", "serving"} /\ s \in open

\* Registration and revocation cannot miss each other: a connection that the
\* gateway serves belongs to a user who may use that protocol, or a handler
\* that has already revoked it still holds its closer.
ServedOnlyIfEntitled == \A s \in Sessions : Served(s) => Entitled(s) \/ s \in closing

\* Two entries agree on everything but the connection metadata.
SameUser(r, q) ==
  /\ r = NoUser <=> q = NoUser
  /\ r # NoUser => /\ r.name = q.name
                   /\ r.protocols = q.protocols
                   /\ r.disabled = q.disabled
                   /\ r.awg = q.awg

\* Every administrative change in memory is on disk, and one whose save
\* failed is in neither: a restart can neither undo nor resurrect it.
MemoryMatchesDisk == \A u \in Ids : SameUser(users[u], disk[u])

\* Names and AWG addresses identify users, also those of disabled users and
\* of users whose AWG protocol is switched off and keep their address.
NoSharedNameOrAddress ==
  \A u, v \in Ids :
    u # v /\ Known(u) /\ Known(v) =>
      /\ users[u].name # users[v].name
      /\ users[u].awg = users[v].awg => users[u].awg = NoAddress

\* The accounting of a deleted user is gone for good and a finished session
\* leaves neither a closer nor a live entry behind, in whatever order Delete
\* and the session's Register, Track, done and release take the lock.
NothingLeftBehind ==
  /\ \A u \in Ids : ~Known(u) => stats[u] = {} /\ active[u] = {}
  /\ \A u \in Ids : \A s \in active[u] :
       Cert[s] = u /\ phase[s] \in {"registered", "serving", "served"}
  /\ \A u \in Ids : \A s \in stats[u] : Cert[s] = u /\ phase[s] = "serving"

\* Why ServedOnlyIfEntitled holds: a served session is one the next Delete or
\* SetProtocols will find, or its closer has been taken already.
ServedIsRegistered ==
  \A s \in Sessions : Served(s) => s \in active[Cert[s]] \/ s \in closing

\* Only handed-out ids are in the file.
KnownWasIssued == \A u \in Ids : Known(u) => u \in issued

\* The inductive invariant of the proofs in ManagedServerProofs.
StoreInv ==
  /\ TypeOK
  /\ ServedOnlyIfEntitled
  /\ ServedIsRegistered
  /\ MemoryMatchesDisk
  /\ NoSharedNameOrAddress
  /\ NothingLeftBehind
  /\ KnownWasIssued

\* An identity that was deleted never comes back, a restart included.
DeletedForever ==
  [][\A u \in issued : users[u] = NoUser => users'[u] = NoUser]_vars

\* A session that is not entitled any more is eventually closed, and the
\* goroutine of a closed connection always gets through its defers.
RevokedSessionEnds ==
  \A s \in Sessions :
    /\ Served(s) /\ ~Entitled(s) ~> ~Served(s)
    /\ (phase[s] # "none" /\ s \notin open) ~> phase[s] = "over"
=============================================================================
