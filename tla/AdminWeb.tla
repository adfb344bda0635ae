------------------------------ MODULE AdminWeb ------------------------------
(***************************************************************************)
(* The administration pages over the capture manager: logins and the file  *)
(* that keeps them, the one-time QR tickets of the users' profiles, and    *)
(* the handlers that change users while captures and tickets of theirs     *)
(* exist. userCaptureMu serialises these handlers; starting an outer       *)
(* capture and issuing or using a ticket do not take it.                   *)
(*                                                                         *)
(* The identity store appears as what the handlers see of it: whether a    *)
(* user exists and is enabled, and his AWG address.                        *)
(***************************************************************************)
EXTENDS DebugCapture

CONSTANT Enrollment   \* profile tickets that exist at a time

VARIABLES
  logins,      \* w.sessions
  saved,       \* admin-sessions.json
  loggedOut,   \* those that were ended by a logout
  users,
  address,     \* Store: the address reserved for a user
  awg,         \* the users that may use AWG
  tickets,     \* w.tickets: the user of each
  stale,       \* tickets that were there when their user was changed
  mutex,       \* the handler that holds userCaptureMu
  outer,       \* captureStart requests that are past authorized()
  live,        \* the logins with an open statistics socket
  qr           \* the user whose profile a qr request has read

store == <<users, address, awg>>
webVars == <<logins, saved, loggedOut, store, tickets, stale, mutex, outer, live, qr>>
vars == <<captureVars, webVars>>

Free == [op |-> "free", owner |-> NoInfo.owner, user |-> NoUser, capture |-> NoCapture]
Hold(op, o, u, c) == mutex' = [op |-> op, owner |-> o, user |-> u, capture |-> c]

WebTypeOK ==
  /\ CaptureTypeOK
  /\ logins \subseteq Owner /\ saved \subseteq Owner
  /\ loggedOut \subseteq Owner
  /\ users \in [User -> {"absent", "enabled", "disabled", "deleted"}]
  /\ address \in [User -> Address \cup {NoAddress}]
  /\ awg \subseteq {u \in User : address[u] # NoAddress}
  /\ tickets \in [Enrollment -> User \cup {NoUser}] /\ stale \subseteq Enrollment
  /\ mutex \in [op : {"free", "logout", "request", "stop", "revoke", "capture"}, owner : Owner,
                user : User \cup {NoUser}, capture : Capture \cup {NoCapture}]
  /\ outer \subseteq Owner /\ live \subseteq Owner /\ qr \in User \cup {NoUser}

WebInit ==
  /\ CaptureInit
  /\ logins = {} /\ saved = {} /\ loggedOut = {}
  /\ users = [u \in User |-> "absent"] /\ address = [u \in User |-> NoAddress] /\ awg = {}
  /\ tickets = [t \in Enrollment |-> NoUser] /\ stale = {}
  /\ mutex = Free /\ outer = {} /\ live = {} /\ qr = NoUser

Known(u) == users[u] \in {"enabled", "disabled"}
Locked == mutex # Free

-----------------------------------------------------------------------------
(* Logins. If saveSessions fails the change is taken back, under w.mu.     *)

(* New tokens and identities are random: it does not matter which.         *)
Another(S) == CHOOSE x \in S : TRUE

(* The file keeps a login that has expired until it is written again.      *)
Expired == saved \ (logins \cup loggedOut)

(* An identifier is used for a new login once nothing is left of the last. *)
Forgotten(o) ==
  /\ o \notin logins \cup outer \cup live \cup (saved \ Expired)
  /\ mutex.op = "logout" => mutex.owner # o
  /\ \A c \in Capture : c \in sessions \/ c = managerMu => info[c].owner # o

Login(o) ==
  /\ Forgotten(o)
  /\ logins' = logins \cup {o} /\ saved' = logins'
  /\ loggedOut' = loggedOut \ {o}
  /\ UNCHANGED <<captureVars, store, tickets, stale, mutex, outer, live, qr>>

(* prune: eight hours have passed.                                         *)
Prune(o) ==
  /\ o \in logins
  /\ logins' = logins \ {o}
  /\ UNCHANGED <<captureVars, saved, loggedOut, store, tickets, stale, mutex, outer, live, qr>>

(* Slip: logout does not write the file.                                 *)
LogoutUnsaved(o) ==
  /\ ~Locked /\ o \in logins
  /\ logins' = logins \ {o}
  /\ loggedOut' = loggedOut \cup {o}
  /\ Hold("logout", o, NoUser, NoCapture)
  /\ UNCHANGED <<captureVars, saved, store, tickets, stale, outer, live, qr>>

Logout(o) ==
  /\ ~Locked /\ o \in logins
  /\ logins' = logins \ {o} /\ saved' = logins'
  /\ loggedOut' = loggedOut \cup {o}
  /\ Hold("logout", o, NoUser, NoCapture)
  /\ UNCHANGED <<captureVars, store, tickets, stale, outer, live, qr>>

LogoutStops ==
  /\ mutex.op = "logout"
  /\ StopOwner(mutex.owner)
  /\ mutex' = Free
  /\ UNCHANGED <<logins, saved, loggedOut, store, tickets, stale, outer, live, qr>>

(* liveStats: the socket is opened by a login.                             *)
LiveStats(o) ==
  /\ o \in logins \ live
  /\ live' = live \cup {o}
  /\ UNCHANGED <<captureVars, logins, saved, loggedOut, store, tickets, stale, mutex, outer, qr>>

(* Every five seconds; the browser may be gone, too.                       *)
LiveTick(o) ==
  /\ o \in live
  /\ live' = live \ {o}
  /\ UNCHANGED <<captureVars, logins, saved, loggedOut, store, tickets, stale, mutex, outer, qr>>

(* The process ends and starts again, at any point of any handler.         *)
Restart ==
  /\ logins' = saved \ Expired
  /\ sessions' = {} /\ running' = {} /\ managerMu' = NoCapture /\ closing' = FALSE
  /\ info' = [c \in Capture |-> NoInfo]
  /\ blocks' = [c \in Capture |-> <<>>] /\ keyLines' = [c \in Capture |-> 0]
  /\ unsent' = {} /\ pass' = [c \in Capture |-> {}]
  /\ viewer' = [c \in Capture |-> NoViewer]
  /\ tickets' = [t \in Enrollment |-> NoUser] /\ stale' = {}
  /\ mutex' = Free /\ outer' = {} /\ live' = {} /\ qr' = NoUser
  /\ UNCHANGED <<saved, loggedOut, store>>

-----------------------------------------------------------------------------
(* Users.                                                                  *)

Absent == {u \in User : users[u] = "absent"}
Taken == {address[u] : u \in {v \in User : Known(v)}}
TicketsOf(u) == {t \in Enrollment : tickets[t] = u}

(* Slip: add does not take userCaptureMu.                                *)
AddUnlocked(a) ==
  LET u == Another(Absent) IN
  /\ logins # {} /\ Absent # {} /\ a \in (Address \ Taken) \cup {NoAddress}
  /\ users' = [users EXCEPT ![u] = "enabled"]
  /\ address' = [address EXCEPT ![u] = a]
  /\ awg' = IF a = NoAddress THEN awg ELSE awg \cup {u}
  /\ UNCHANGED <<captureVars, logins, saved, loggedOut, tickets, stale, mutex, outer, live, qr>>

(* add: the handler is one step, as it changes nothing but the store.      *)
Add(a) ==
  LET u == Another(Absent) IN
  /\ ~Locked /\ logins # {}
  /\ Absent # {} /\ a \in (Address \ Taken) \cup {NoAddress}
  /\ users' = [users EXCEPT ![u] = "enabled"]
  /\ address' = [address EXCEPT ![u] = a]
  /\ awg' = IF a = NoAddress THEN awg ELSE awg \cup {u}
  /\ UNCHANGED <<captureVars, logins, saved, loggedOut, tickets, stale, mutex, outer, live, qr>>

(* What delete, toggle and protocols begin with: the store is changed.     *)
Changed(u) ==
  /\ stale' = stale \cup TicketsOf(u)
  /\ Hold("stop", mutex.owner, u, NoCapture)
  /\ UNCHANGED <<captureVars, logins, saved, loggedOut, tickets, outer, live, qr>>

Delete(u) ==
  /\ ~Locked /\ logins # {} /\ Known(u)
  /\ users' = [users EXCEPT ![u] = "deleted"]
  /\ address' = [address EXCEPT ![u] = NoAddress]
  /\ awg' = awg \ {u}
  /\ Changed(u)

(* Slip: switching a user on leaves his tickets.                         *)
EnableWithoutRevoking(u) ==
  /\ ~Locked /\ logins # {} /\ Known(u)
  /\ users' = [users EXCEPT ![u] = IF @ = "enabled" THEN "disabled" ELSE "enabled"]
  /\ UNCHANGED <<address, awg>>
  /\ \/ users[u] = "enabled" /\ Changed(u)
     \/ /\ users[u] = "disabled"
        /\ stale' = stale \cup TicketsOf(u)
        /\ UNCHANGED <<captureVars, logins, saved, loggedOut, tickets, mutex, outer, live, qr>>

Toggle(u) ==
  /\ ~Locked /\ logins # {} /\ Known(u)
  /\ users' = [users EXCEPT ![u] = IF @ = "enabled" THEN "disabled" ELSE "enabled"]
  /\ UNCHANGED <<address, awg>>
  /\ Changed(u)

(* protocols: an address once given is kept until the user is deleted.     *)
Protocols(u) ==
  /\ ~Locked /\ logins # {} /\ Known(u)
  /\ \/ u \in awg /\ awg' = awg \ {u} /\ UNCHANGED address
     \/ /\ u \notin awg /\ awg' = awg \cup {u}
        /\ \E a \in IF address[u] # NoAddress THEN {address[u]} ELSE Address \ Taken :
             address' = [address EXCEPT ![u] = a]
  /\ UNCHANGED users
  /\ Changed(u)

(* revokeTickets: the captures of the user, then his tickets.              *)
RevokeCaptures ==
  /\ mutex.op = "stop"
  /\ StopUser(mutex.user)
  /\ Hold("revoke", mutex.owner, mutex.user, NoCapture)
  /\ UNCHANGED <<logins, saved, loggedOut, store, tickets, stale, outer, live, qr>>

WithoutTickets(u) == [t \in Enrollment |-> IF tickets[t] = u THEN NoUser ELSE tickets[t]]

RevokeTickets ==
  /\ mutex.op = "revoke"
  /\ tickets' = WithoutTickets(mutex.user)
  /\ stale' = stale \ TicketsOf(mutex.user)
  /\ mutex' = Free
  /\ UNCHANGED <<captureVars, logins, saved, loggedOut, store, outer, live, qr>>

-----------------------------------------------------------------------------
(* Profile tickets.                                                        *)

(* qr has read the user's profile, which a disabled user does not have.    *)
ReadProfile(u) ==
  /\ logins # {} /\ qr = NoUser /\ users[u] = "enabled"
  /\ qr' = u
  /\ UNCHANGED <<captureVars, logins, saved, loggedOut, store, tickets, stale, mutex, outer, live>>

(* The rest of qr, under w.mu: a new ticket replaces the user's others.    *)
IssueTicket ==
  LET t == Another(TicketsOf(NoUser) \cup TicketsOf(qr)) IN
  /\ qr # NoUser /\ TicketsOf(NoUser) \cup TicketsOf(qr) # {}
  /\ tickets' = [WithoutTickets(qr) EXCEPT ![t] = qr]
  /\ stale' = stale \ (TicketsOf(qr) \cup {t})
  /\ qr' = NoUser
  /\ UNCHANGED <<captureVars, logins, saved, loggedOut, store, mutex, outer, live>>

(* enroll takes the ticket, whatever the profile, read afterwards, says;   *)
(* so does its expiry.                                                     *)
Enroll(t) ==
  /\ tickets[t] # NoUser
  /\ tickets' = [tickets EXCEPT ![t] = NoUser]
  /\ stale' = stale \ {t}
  /\ UNCHANGED <<captureVars, logins, saved, loggedOut, store, mutex, outer, live, qr>>

-----------------------------------------------------------------------------
(* Captures.                                                               *)

(* captureStart: the login is checked, then the manager is asked.          *)
RequestOuter(o) ==
  /\ o \in logins /\ outer = {}
  /\ outer' = {o}
  /\ UNCHANGED <<captureVars, logins, saved, loggedOut, store, tickets, stale, mutex, live, qr>>

StartRequested(o) ==
  /\ o \in outer
  /\ outer' = {}
  /\ \/ \E c \in Capture : StartOuter(c, o)
     \/ managerMu = NoCapture /\ (closing \/ ~HasRoom) /\ UNCHANGED captureVars
  /\ UNCHANGED <<logins, saved, loggedOut, store, tickets, stale, mutex, live, qr>>

(* userCapture, "start": the login is checked, then the user, and the      *)
(* address is the one he has.                                              *)
RequestInner(o, u) ==
  /\ ~Locked /\ o \in logins
  /\ Hold("request", o, u, NoCapture)
  /\ UNCHANGED <<captureVars, logins, saved, loggedOut, store, tickets, stale, outer, live, qr>>

CaptureUser(c) ==
  LET u == mutex.user IN
  /\ mutex.op = "request" /\ users[u] = "enabled"
  /\ StartUser(c, mutex.owner, u, IF u \in awg THEN address[u] ELSE NoAddress)
  /\ Hold("capture", mutex.owner, u, c)
  /\ UNCHANGED <<logins, saved, loggedOut, store, tickets, stale, outer, live, qr>>

CaptureRefused ==
  LET u == mutex.user IN
  /\ mutex.op = "request" /\ managerMu = NoCapture
  /\ users[u] # "enabled" \/ UserCapture(u) # {} \/ closing \/ ~HasRoom
  /\ mutex' = Free
  /\ UNCHANGED <<captureVars, logins, saved, loggedOut, store, tickets, stale, outer, live, qr>>

(* captureAWG has its tcpdump, if one is needed: captureLaunch looks at    *)
(* the login once more, and the capture may have ended.                    *)
CaptureLaunched ==
  LET c == mutex.capture IN
  /\ mutex.op = "capture"
  /\ \/ mutex.owner \notin logins /\ UNCHANGED captureVars
     \/ /\ mutex.owner \in logins /\ managerMu = NoCapture
        /\ Ticket(c) \/ (c \notin running /\ UNCHANGED captureVars)
  /\ mutex' = Free
  /\ UNCHANGED <<logins, saved, loggedOut, store, tickets, stale, outer, live, qr>>

CaptureFailed ==
  /\ mutex.op = "capture" /\ info[mutex.capture].address # NoAddress
  /\ StopAll({mutex.capture})
  /\ mutex' = Free
  /\ UNCHANGED <<sessions, info, managerMu, closing, record, pass, viewer>>
  /\ UNCHANGED <<logins, saved, loggedOut, store, tickets, stale, outer, live, qr>>

(* ownedCapture: captureLaunch, captureStop, and userCapture for "link"    *)
(* and "stop". A capture that a logout stopped meanwhile refuses a ticket. *)
Owned(o, c) ==
  o \in logins /\ managerMu = NoCapture /\ c \in sessions /\ info[c].owner = o

CaptureLaunch(o, c) == Owned(o, c) /\ Ticket(c) /\ UNCHANGED webVars

CaptureStop(o, c) ==
  /\ Owned(o, c) /\ c \in running
  /\ StopAll({c})
  /\ UNCHANGED <<sessions, info, managerMu, closing, record, pass, viewer, webVars>>

(* What the manager does by itself. Its viewers are left to DebugCapture.  *)
ManagerStep(c) ==
  /\ TcpdumpReady(c) \/ StartSucceeds(c) \/ StartFails(c) \/ CaptureEnds(c) \/ Forget(c)
  /\ UNCHANGED webVars

-----------------------------------------------------------------------------

Handler ==
  \/ LogoutStops \/ RevokeCaptures \/ RevokeTickets
  \/ \E c \in Capture : CaptureUser(c)
  \/ CaptureRefused \/ CaptureLaunched \/ CaptureFailed

WebNext ==
  \/ \E o \in Owner : \/ Login(o) \/ Prune(o) \/ Logout(o)
                      \/ LiveStats(o) \/ LiveTick(o)
                      \/ RequestOuter(o) \/ StartRequested(o)
                      \/ \E c \in Capture : CaptureLaunch(o, c) \/ CaptureStop(o, c)
                      \/ \E u \in User : RequestInner(o, u)
  \/ \E u \in User : Delete(u) \/ Toggle(u) \/ Protocols(u) \/ ReadProfile(u)
  \/ \E a \in Address \cup {NoAddress} : Add(a)
  \/ IssueTicket
  \/ \E t \in Enrollment : Enroll(t)
  \/ \E c \in Capture : ManagerStep(c)
  \/ Handler
  \/ Restart

WebSafe == WebInit /\ [][WebNext]_vars

(* Start waits for tcpdump at most four seconds. A handler that waits for  *)
(* the manager's mutex gets it: sync.Mutex does not starve a waiter.       *)
WebFairness ==
  /\ SF_vars(Handler)
  /\ \A o \in Owner : WF_vars(o \notin logins /\ LiveTick(o))
  /\ \A c \in Capture : WF_vars((StartSucceeds(c) \/ StartFails(c)) /\ UNCHANGED webVars)

WebSpec == WebSafe /\ WebFairness

-----------------------------------------------------------------------------
(* Properties.                                                             *)

(* An inner capture records the user it was started for: while no handler  *)
(* is in the middle of a change, he is enabled and the captured address is *)
(* still his; and at no time is it the address of somebody else, although  *)
(* a deletion frees it before it stops the capture.                        *)
CaptureFollowsUser ==
  \A c \in Active : info[c].user # NoUser =>
    LET u == info[c].user  a == info[c].address IN
    /\ \A v \in User \ {u} : a # NoAddress => address[v] # a
    /\ \/ users[u] = "enabled" /\ (a # NoAddress => u \in awg /\ address[u] = a)
       \/ mutex.op = "stop" /\ mutex.user = u

(* A user has at most one profile ticket, and none that is older than the  *)
(* last change of his access: the QR code shown before does not work       *)
(* again after he was switched off and on, even if it was issued while he  *)
(* was off by a request that had read his profile before.                  *)
TicketsAreFresh ==
  /\ \A u \in User : Cardinality(TicketsOf(u)) <= 1
  /\ \A t \in stale : mutex.op \in {"stop", "revoke"} /\ mutex.user = tickets[t]

(* A login that was ended stays ended, also over a restart at any moment.  *)
LogoutIsDurable == loggedOut \cap (logins \cup saved) = {}

(* The inner captures of a login end with its logout, also one that was    *)
(* just being started.                                                     *)
InnerEndsWithLogin ==
  \A c \in Active : info[c].user # NoUser /\ info[c].owner \in loggedOut =>
    mutex.op = "logout" /\ mutex.owner = info[c].owner

(* A logout is final: for the login, in memory and in the file, and for    *)
(* the inner captures it had.                                              *)
WebInv == WebTypeOK /\ LogoutIsDurable /\ InnerEndsWithLogin


(* docs/wireshark-capture.md: a logout stops the captures of this login.   *)
LogoutStopsCaptures ==
  \A c \in Active : info[c].owner \in loggedOut =>
    mutex.op = "logout" /\ mutex.owner = info[c].owner

(* No handler keeps the pages locked for ever, although it waits, with     *)
(* userCaptureMu held, for the mutex that Start holds while tcpdump        *)
(* begins; and no statistics socket outlives its login for ever.           *)
RequestsEnd == []<>(~Locked) /\ \A o \in Owner : []<>(o \in live => o \in logins)
=============================================================================
