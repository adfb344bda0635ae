----------------------------- MODULE VpnRecovery -----------------------------
(***************************************************************************)
(* One VPN session of the phone and the gateway client under it: how the   *)
(* session's single worker (VpnSession.kt) keeps the outer transport       *)
(* (mobile/gateway.go) alive while Android networks come, go and stop      *)
(* answering.  Callbacks of Android and events of the transport come on    *)
(* other threads and are queued; connecting and migrating block the worker *)
(* while the world goes on.                                                *)
(*                                                                         *)
(* A handle is one android.net.Network: it never comes back once lost.     *)
(* Time is kept as what the code's comparisons tell apart: the delay of a  *)
(* penalised network, the age of the last echo and of the last reply.  The *)
(* 750 ms between two attempts are a choice: an attempt may be too early.  *)
(***************************************************************************)
EXTENDS Naturals, Sequences, FiniteSets

CONSTANTS
  Wifi, Cellular,  \* handles of each kind
  NoNet,
  MaxQueue,        \* bound on the queued tasks of the worker
  MaxUser,         \* bound on the user's operations
  MaxFaults        \* bound on failures of networks and of the server

Handle == Wifi \cup Cellular

ASSUME HandleAssumption == Wifi \cap Cellular = {} /\ NoNet \notin Handle
ASSUME VpnBounds == {MaxQueue, MaxUser, MaxFaults} \subseteq Nat

VARIABLES
  transport,  \* config.transport
  phase,      \* each handle: "unused", "up", "bad" (there, nothing answers), "gone"
  user, faults,
  \* VpnSession
  networks,   \* the handle of each kind, or NoNet
  queue,      \* the tasks of the worker
  job,        \* what the worker is blocked in
  alive, epoch,
  activeNetwork, failedNetwork, preparedNetwork,
  reconnectRequired,
  retryAt,    \* 0: may be tried; 1: penalised; 2: penalised since the last attempt
  echo,       \* age of lastEchoAt: "recent" or "stalled"
  reply,      \* age of lastReplyAt: "recent", "old", "overdue" (15 s)
  awgPingSeen,
  \* Gateway
  conn,       \* the transport: q, mux or the engine
  prepared,   \* Client.prepared: the candidate tried last; or the socket being dialled from
  parked,     \* Client.parked: the candidate kept beside it
  \* what has happened, for the properties
  trouble,    \* the path in use gave a reason to leave it
  broken      \* the connection in use was lost, or the session had no reply for 15 s

world == <<transport, phase, user, faults>>
choice == <<activeNetwork, failedNetwork, preparedNetwork>>
timing == <<echo, reply, awgPingSeen>>
history == <<trouble, broken>>
sockets == <<prepared, parked>>
vars == <<world, networks, queue, job, alive, epoch, choice,
          reconnectRequired, retryAt, timing, conn, sockets, history>>

Maybe == Handle \cup {NoNet}
Kind == {"wifi", "cellular"}
KindOf(n) == IF n \in Wifi THEN "wifi" ELSE "cellular"
\* The local address of a socket: named by its network and a number, so that no two open ones
\* are the same.
NoPath == <<NoNet, 0>>
Paths == (Handle \X (1..(MaxQueue + 3))) \cup {NoPath}
NoConn == [st |-> "none", net |-> NoNet, path |-> NoPath]
NoSocket == [net |-> NoNet, path |-> NoPath, checked |-> FALSE]
Idle == [at |-> "idle", net |-> NoNet, why |-> "none", fresh |-> FALSE, tail |-> FALSE]

\* A task of the worker: the callback or event it answers, and what that carried.
Task(what, n, token, path) == [what |-> what, net |-> n, token |-> token, path |-> path]

VpnTypeOK ==
  /\ transport \in {"quic", "https", "awg"}
  /\ phase \in [Handle -> {"unused", "up", "bad", "gone"}]
  /\ user \in 0..MaxUser /\ faults \in 0..MaxFaults
  /\ networks \in [Kind -> Maybe]
  /\ \A k \in Kind : networks[k] # NoNet => KindOf(networks[k]) = k
  /\ Len(queue) <= MaxQueue
  /\ job.at \in {"idle", "starting", "switching", "standby", "probing"}
  /\ job.at \in {"starting", "switching", "probing"} <=> job.net \in Handle
  /\ {alive, reconnectRequired, awgPingSeen} \subseteq BOOLEAN
  /\ {activeNetwork, failedNetwork, preparedNetwork} \subseteq Maybe
  /\ alive <=> activeNetwork # NoNet
  /\ failedNetwork # NoNet => alive
  /\ retryAt \in [Handle -> 0..2]
  /\ echo \in {"recent", "stalled"} /\ reply \in {"recent", "old", "overdue"}
  /\ conn \in [st : {"none", "ok", "zombie", "dead"}, net : Maybe, path : Paths]
  /\ {prepared, parked} \subseteq [net : Maybe, path : Paths, checked : BOOLEAN]

Init ==
  /\ transport \in {"quic", "https", "awg"}
  /\ phase = [n \in Handle |-> "unused"] /\ user = 0 /\ faults = 0
  /\ networks = [k \in Kind |-> NoNet]
  /\ queue = <<>> /\ job = Idle
  /\ alive = FALSE /\ epoch = 0
  /\ activeNetwork = NoNet /\ failedNetwork = NoNet /\ preparedNetwork = NoNet
  /\ reconnectRequired = FALSE
  /\ retryAt = [n \in Handle |-> 0]
  /\ awgPingSeen = FALSE
  /\ echo = "recent" /\ reply = "recent"
  /\ conn = NoConn /\ prepared = NoSocket /\ parked = NoSocket
  /\ trouble = FALSE /\ broken = FALSE

-----------------------------------------------------------------------------
(* The gateway client.                                                     *)

\* IsConnected.  A server that has forgotten the connection ("zombie") is not noticed.
IsConnected == conn.st \in {"ok", "zombie"}

\* Packets pass both ways.
Served == conn.st = "ok" /\ conn.net # NoNet /\ phase[conn.net] = "up"

\* The system gives a new UDP socket a port that no socket holds and that no event in the
\* queue q carries.
FreshPath(n, held, q) ==
  CHOOSE p \in {n} \X (1..(MaxQueue + 3)) : p \notin held /\ \A i \in 1..Len(q) : q[i].path # p
\* newTransport.
Opened(n, held, q) ==
  IF transport = "quic"
  THEN [net |-> n, path |-> FreshPath(n, held, q), checked |-> FALSE] ELSE NoSocket
Unchecked(s) == [s EXCEPT !.checked = FALSE]
Without(s, n) == IF s.net = n THEN NoSocket ELSE s

\* prepare, up to the probe, with the candidates p and k: the one for the network is used
\* again, or opened and the older one let go.  Nothing without a connection.
Prepare(n, p, k, q) ==
  LET kept == IF p = NoSocket THEN k ELSE Unchecked(p) IN
  CASE ~IsConnected \/ p.net = n -> prepared' = p /\ parked' = k
    [] IsConnected /\ p.net # n /\ k.net = n -> prepared' = k /\ parked' = Unchecked(p)
    [] OTHER -> prepared' = Opened(n, {conn.path, kept.path}, q) /\ parked' = kept

\* A report of the socket is still queued.
Reported(s) == \E i \in 1..Len(queue) : queue[i].what = "path" /\ queue[i].path = s.path

\* The connection that was dialled or switched to uses the socket opened for it.
Connected(n) == [st |-> "ok", net |-> n, path |-> prepared.path]

\* Reconnect, and MigrateTo without a QUIC connection or an AWG engine, replace the transport.
Replaces(required) == transport # "awg" /\ (required \/ transport = "https" \/ conn.st = "none")

\* Closing a QUIC connection makes its reader report "disconnected"; for HTTPS the
\* cancelled context keeps the heartbeat silent.
Closing(q) ==
  IF transport = "quic" /\ IsConnected THEN Append(q, Task("down", NoNet, epoch, NoPath)) ELSE q

\* MigrateTo and Reconnect up to the point where they wait for the network: a new
\* connection is dialled from a socket of its own, a QUIC path is probed from a candidate.
Begin(n, why, tail, required, q, p, k) ==
  /\ job' = [at |-> "switching", net |-> n, why |-> why, fresh |-> Replaces(required), tail |-> tail]
  /\ IF Replaces(required)
     THEN conn' = NoConn /\ queue' = Closing(q) /\ Len(Closing(q)) <= MaxQueue
          /\ prepared' = Opened(n, {}, q) /\ parked' = NoSocket
     ELSE conn' = conn /\ queue' = q /\ Prepare(n, p, k, q)

\* A new connection needs an answer, the engine only a socket.
CanStart == phase[job.net] = "up" \/ (transport = "awg" /\ phase[job.net] # "gone")

\* A new connection needs an answer; a QUIC path is validated now or was by
\* PreparePath; the engine only has to bind its socket.
CanSwitch ==
  \/ job.fresh /\ phase[job.net] = "up"
  \/ ~job.fresh /\ transport = "awg" /\ phase[job.net] # "gone"
  \/ ~job.fresh /\ transport = "quic" /\ conn.st = "ok" /\ phase[job.net] = "up"
\* A path validated earlier is switched to without asking again.
WarmSwitch == ~job.fresh /\ transport = "quic" /\ IsConnected /\ prepared.checked

\* PreparePath: the QUIC path or, without a QUIC connection, a TLS connection of its own.
CanPrepare(n) == phase[n] = "up" /\ (transport = "quic" => conn.st \in {"ok", "none"})

-----------------------------------------------------------------------------
(* Choosing a network.                                                     *)

Penalized(n, r) == IF n = NoNet THEN r ELSE [r EXCEPT ![n] = 2]
NoPenalty == [n \in Handle |-> 0]

\* The candidates of recover: another network, Wi-Fi first; else the same one again
\* where a new connection or a new socket may help.
Candidates(known, failed, required, retry) ==
  LET ready == {n \in {known[k] : k \in Kind} \ {NoNet} : retry[n] = 0}
      others == ready \ {activeNetwork}
  IN CASE others \cap Wifi # {} -> others \cap Wifi
       [] others \cap Wifi = {} /\ others # {} -> others
       [] others = {} /\ failed # NoNet /\ (required \/ transport # "quic") -> ready
       [] OTHER -> {}

After(tail) == IF tail THEN [Idle EXCEPT !.at = "standby"] ELSE Idle

\* recover, with the values its caller has just assigned; early: the last attempt is
\* less than 750 ms old.
RecoverAt(early, failed, required, retry, q, p, k, tail) ==
  LET attempt == alive /\ ~early
      candidates == Candidates(networks', failed, required, retry)
  IN /\ reconnectRequired' = required
     /\ retryAt' = IF attempt THEN [n \in Handle |-> IF retry[n] = 2 THEN 1 ELSE retry[n]] ELSE retry
     /\ IF attempt /\ candidates # {}
        THEN /\ failedNetwork' = failed
             /\ \E n \in candidates : Begin(n, "recover", tail, required, q, p, k)
        ELSE /\ failedNetwork' = IF attempt THEN activeNetwork ELSE failed
             /\ job' = After(tail) /\ queue' = q
             /\ prepared' = p /\ parked' = k
             /\ UNCHANGED conn
Recover(failed, required, retry, q, p, k, tail) ==
  \E early \in BOOLEAN : RecoverAt(early, failed, required, retry, q, p, k, tail)

-----------------------------------------------------------------------------
(* The tasks of the worker.                                                *)

Next1(what) == job.at = "idle" /\ queue # <<>> /\ Head(queue).what = what
Rest == Tail(queue)
\* The task is done and nothing is tried.
Done == queue' = Rest /\ UNCHANGED <<job, conn, sockets, failedNetwork, reconnectRequired, retryAt>>
steady == <<world, alive, epoch, activeNetwork, timing>>

OnAvailable ==
  /\ Next1("available") /\ Done
  /\ networks' = [networks EXCEPT ![KindOf(Head(queue).net)] = Head(queue).net]
  /\ UNCHANGED <<steady, preparedNetwork, history>>

OnLost ==
  LET n == Head(queue).net IN
  /\ Next1("lost")
  /\ networks' = [k \in Kind |-> IF networks[k] = n THEN NoNet ELSE networks[k]]
  /\ preparedNetwork' = IF preparedNetwork = n THEN NoNet ELSE preparedNetwork
  /\ UNCHANGED <<steady, history>>
  /\ IF activeNetwork = n
     THEN Recover(n, reconnectRequired, NoPenalty, Rest,
                  Without(prepared, n), Without(parked, n), FALSE)
     ELSE /\ queue' = Rest /\ retryAt' = [retryAt EXCEPT ![n] = 0]
          /\ prepared' = Without(prepared, n) /\ parked' = Without(parked, n)
          /\ UNCHANGED <<job, conn, failedNetwork, reconnectRequired>>

\* Only with a path prepared less than 3 s ago.
OnLosing ==
  /\ Next1("losing")
  /\ UNCHANGED <<steady, networks, preparedNetwork, broken>>
  /\ \/ /\ Head(queue).net = activeNetwork /\ preparedNetwork # NoNet
        /\ trouble' = TRUE
        /\ Recover(failedNetwork, reconnectRequired, retryAt, Rest, prepared, parked, FALSE)
     \/ Done /\ UNCHANGED trouble

\* The event "disconnected" counts only while nothing has replaced the transport.
Disconnection == Head(queue).token = epoch /\ transport # "awg" /\ ~IsConnected
OnDisconnected ==
  /\ Next1("down")
  /\ UNCHANGED <<steady, networks, preparedNetwork, history>>
  /\ IF Disconnection
     THEN Recover(activeNetwork, TRUE, NoPenalty, Rest, prepared, parked, FALSE)
     ELSE Done

\* Slip: the address in the event is not looked at.
UnavailabilityOfAny == Head(queue).token = epoch /\ alive /\ conn.st # "none"

\* The event "path_unavailable" counts only for the socket in use now, whatever that was
\* when it reported.
Unavailability ==
  Head(queue).token = epoch /\ alive /\ conn.st # "none" /\ Head(queue).path = conn.path
OnPathUnavailable ==
  /\ Next1("path")
  /\ UNCHANGED <<steady, networks, preparedNetwork, history>>
  /\ IF Unavailability
     THEN Recover(activeNetwork, reconnectRequired,
                  IF failedNetwork = NoNet THEN NoPenalty ELSE retryAt, Rest,
                  prepared, parked, FALSE)
     ELSE Done

\* stopInternal: the new epoch silences the sink of the transport that is closed.  The
\* times of echo and reply have no meaning until start sets them again.
StopInternal ==
  /\ epoch' = epoch + 1 /\ alive' = FALSE /\ reconnectRequired' = FALSE
  /\ activeNetwork' = NoNet /\ failedNetwork' = NoNet /\ preparedNetwork' = NoNet
  /\ retryAt' = NoPenalty /\ awgPingSeen' = FALSE
  /\ echo' = "recent" /\ reply' = "recent"
  /\ conn' = NoConn /\ trouble' = FALSE /\ broken' = FALSE

Stop ==
  /\ Next1("stop") /\ StopInternal
  /\ queue' = Rest /\ prepared' = NoSocket /\ parked' = NoSocket
  /\ UNCHANGED <<world, networks, job>>

\* startOrMigrate with no living session: what is left of the last one is closed first.
Start(k) ==
  /\ Next1(k) /\ ~alive /\ networks[k] # NoNet
  /\ StopInternal /\ prepared' = Opened(networks[k], {}, Rest) /\ parked' = NoSocket
  /\ queue' = Rest /\ job' = [Idle EXCEPT !.at = "starting", !.net = networks[k]]
  /\ UNCHANGED <<world, networks>>

\* startOrMigrate with a living session: migrate, if there is anything to do.
Migrate(k) ==
  LET n == networks[k] IN
  /\ Next1(k) /\ alive /\ n # NoNet
  /\ n # activeNetwork \/ failedNetwork # NoNet \/ reconnectRequired
  /\ Begin(n, "button", FALSE, reconnectRequired, Rest, prepared, parked)
  /\ UNCHANGED <<world, networks, alive, epoch, choice, reconnectRequired, retryAt,
                 timing, history>>

\* The network is not there, or already in use.
PressInVain(k) ==
  /\ Next1(k) /\ Done
  /\ \/ networks[k] = NoNet
     \/ alive /\ networks[k] = activeNetwork /\ failedNetwork = NoNet /\ ~reconnectRequired
  /\ UNCHANGED <<steady, networks, preparedNetwork, history>>

\* The transport is up and, unless that fails, attached to the TUN or the router.
StartEnds ==
  /\ job.at = "starting" /\ job' = Idle /\ prepared' = NoSocket
  /\ \/ /\ CanStart
        /\ conn' = Connected(job.net)
        /\ \/ alive' = TRUE /\ activeNetwork' = job.net /\ echo' = "recent" /\ reply' = "recent"
           \/ UNCHANGED <<alive, activeNetwork, echo, reply>>
        /\ trouble' = Reported(prepared)
     \/ /\ ~CanStart
        /\ UNCHANGED <<trouble, conn, alive, activeNetwork, echo, reply>>
  /\ UNCHANGED <<world, networks, queue, epoch, failedNetwork, preparedNetwork,
                 reconnectRequired, retryAt, awgPingSeen, parked,
                 broken>>

\* Slip: the demand for a new connection outlives the new connection.
SwitchedStillRequired ==
  /\ job.at = "switching" /\ (CanSwitch \/ WarmSwitch)
  /\ conn' = IF job.fresh THEN Connected(job.net)
             ELSE [conn EXCEPT !.net = job.net, !.path = prepared.path]
  /\ prepared' = NoSocket
  /\ reconnectRequired' = reconnectRequired
  /\ reply' = IF reconnectRequired THEN "recent" ELSE reply
  /\ echo' = "recent"
  /\ activeNetwork' = job.net /\ failedNetwork' = NoNet /\ preparedNetwork' = NoNet
  /\ retryAt' = IF job.why = "recover" THEN Penalized(activeNetwork, retryAt) ELSE retryAt
  /\ job' = Idle
  /\ trouble' = Reported(prepared) /\ broken' = ((broken /\ ~job.fresh) \/ reply' = "overdue")
  /\ UNCHANGED <<world, networks, queue, alive, epoch, awgPingSeen, parked>>

\* The rest of migrate, and of recover around it.
Switched ==
  /\ job.at = "switching" /\ (CanSwitch \/ WarmSwitch)
  /\ conn' = IF job.fresh THEN Connected(job.net)
             ELSE [conn EXCEPT !.net = job.net, !.path = prepared.path]
  /\ prepared' = NoSocket
  /\ reconnectRequired' = FALSE
  /\ reply' = IF reconnectRequired THEN "recent" ELSE reply
  /\ echo' = "recent"
  /\ activeNetwork' = job.net /\ failedNetwork' = NoNet /\ preparedNetwork' = NoNet
  /\ retryAt' = IF job.why = "recover" THEN Penalized(activeNetwork, retryAt) ELSE retryAt
  /\ job' = Idle
  /\ trouble' = Reported(prepared) /\ broken' = ((broken /\ ~job.fresh) \/ reply' = "overdue")
  /\ UNCHANGED <<world, networks, queue, alive, epoch, awgPingSeen, parked>>

\* The socket of a dial is closed; a candidate stays for the next attempt.
SwitchFails ==
  /\ job.at = "switching" /\ ~CanSwitch
  /\ prepared' = IF job.fresh THEN NoSocket
                 ELSE IF prepared.net = job.net THEN Unchecked(prepared) ELSE prepared
  /\ conn' = IF transport = "awg" THEN [conn EXCEPT !.net = NoNet] ELSE conn
  /\ failedNetwork' = IF job.why = "recover" THEN activeNetwork ELSE failedNetwork
  /\ retryAt' = IF job.why = "button" THEN retryAt ELSE Penalized(job.net, retryAt)
  /\ preparedNetwork' = IF job.why # "button" /\ preparedNetwork = job.net THEN NoNet ELSE preparedNetwork
  /\ job' = After(job.tail)
  /\ trouble' = TRUE /\ broken' = (broken \/ ~IsConnected)
  /\ UNCHANGED <<world, networks, queue, alive, epoch, activeNetwork, reconnectRequired, timing,
                 parked>>

-----------------------------------------------------------------------------
(* The worker's tick.                                                      *)

\* Slip: a connection that the server has forgotten is waited for.
DownIfClosed == transport # "awg" /\ ~IsConnected

\* No transport, or 15 s without a reply.
Down == transport # "awg" /\ (~IsConnected \/ reply = "overdue")
Stalled == echo = "stalled" /\ (transport = "awg" => awgPingSeen)
Failing == alive /\ (Down \/ Stalled \/ failedNetwork # NoNet)
\* Slip: replies over a lost network count.
AnsweredAnyhow == echo = "recent"

\* An echo has come since the last attempt and is not older than two intervals.
Answered == activeNetwork \in {networks[k] : k \in Kind} /\ echo = "recent"

Tick(early) ==
  /\ job.at = "idle" /\ alive
  /\ UNCHANGED <<steady, networks, preparedNetwork, history>>
  /\ IF Down THEN RecoverAt(early, activeNetwork, TRUE, retryAt, queue, prepared, parked, FALSE)
     ELSE \E failed \in {failedNetwork} \cup (IF Answered THEN {NoNet} ELSE {}) :
       IF Stalled \/ failed # NoNet
       THEN RecoverAt(early, failed, reconnectRequired, retryAt, queue, prepared, parked, TRUE)
       ELSE /\ failedNetwork' = failed /\ job' = After(TRUE)
            /\ UNCHANGED <<queue, reconnectRequired, retryAt, conn, sockets>>

Reserve == {n \in {networks[k] : k \in Kind} \ {NoNet, activeNetwork} : retryAt[n] = 0}
\* Wi-Fi that has long been ready is preferred to the network in use.
Preferable(n) == n \in Wifi /\ (transport = "awg" \/ activeNetwork \in Cellular)

\* The end of the tick: the reserve network is probed when its time has come; AWG never does.
StandbySkipped ==
  /\ job.at = "standby" /\ job' = Idle
  /\ UNCHANGED <<world, networks, queue, alive, epoch, choice, reconnectRequired, retryAt,
                 timing, conn, sockets, history>>

StandbyBegins(n) ==
  /\ job.at = "standby" /\ transport # "awg"
  /\ job' = [Idle EXCEPT !.at = "probing", !.net = n]
  /\ Prepare(n, prepared, parked, queue)
  /\ UNCHANGED <<world, networks, queue, alive, epoch, choice, reconnectRequired, retryAt,
                 timing, conn, history>>

\* Whether the server takes a TLS connection besides QUIC is not known here.
StandbyFails ==
  /\ job.at = "probing" /\ (CanPrepare(job.net) => transport = "quic" /\ conn.st = "none")
  /\ preparedNetwork' = NoNet /\ retryAt' = Penalized(job.net, retryAt)
  /\ prepared' = IF prepared.net = job.net THEN Unchecked(prepared) ELSE prepared
  /\ job' = Idle
  /\ UNCHANGED <<world, networks, queue, alive, epoch, activeNetwork, failedNetwork,
                 reconnectRequired, timing, conn, parked, history>>

StandbyReady ==
  LET n == job.net
      p == IF prepared.net = n THEN [prepared EXCEPT !.checked = TRUE] ELSE prepared
  IN
  /\ job.at = "probing" /\ CanPrepare(n)
  /\ preparedNetwork' = n
  /\ UNCHANGED <<steady, networks, history>>
  /\ \/ /\ job' = Idle /\ prepared' = p
        /\ UNCHANGED <<queue, conn, parked, failedNetwork,
                       reconnectRequired, retryAt>>
     \/ /\ Preferable(n) /\ Begin(n, "prefer", FALSE, reconnectRequired, queue, p, parked)
        /\ UNCHANGED <<failedNetwork, reconnectRequired, retryAt>>
     \* the reserve has been much faster for a while
     \/ Recover(failedNetwork, reconnectRequired, retryAt, queue, p, parked, FALSE)

PreferWifi(n) ==
  /\ job.at = "standby" /\ transport = "awg" /\ Preferable(n)
  /\ Begin(n, "prefer", FALSE, reconnectRequired, queue, prepared, parked)
  /\ UNCHANGED <<steady, networks, preparedNetwork, history, failedNetwork,
                 reconnectRequired, retryAt>>

-----------------------------------------------------------------------------
(* The transport's own goroutines.                                         *)

rest == <<transport, phase, user, networks, job, alive, epoch, choice, reconnectRequired,
          retryAt>>
Tell(task) == Len(queue) < MaxQueue /\ queue' = Append(queue, task)

\* heartbeat and awgHeartbeat: a reply, delivered while the epoch is the transport's.
Echo ==
  /\ Served /\ echo' = "recent" /\ reply' = "recent"
  /\ awgPingSeen' = (transport = "awg")
  /\ UNCHANGED <<rest, faults, queue, conn, sockets, history>>

Silence ==
  /\ alive /\ echo = "recent" /\ echo' = "stalled"
  /\ reply' = IF reply = "recent" THEN "old" ELSE reply
  /\ trouble' = TRUE
  /\ UNCHANGED <<rest, faults, queue, awgPingSeen, conn, sockets, broken>>

Overdue ==
  /\ alive /\ reply = "old" /\ reply' = "overdue" /\ broken' = TRUE
  /\ UNCHANGED <<rest, faults, queue, echo, awgPingSeen, conn, sockets, trouble>>

\* pathSocket.report: a failure of the socket in use, of a candidate or of the socket being
\* dialled from is an event with its own address.  Only the first one is, until a write
\* succeeds: that one may have succeeded, answered or not, is left open.
Complain(s) ==
  s.path # NoPath /\ phase[s.net] # "up" /\ Tell(Task("path", NoNet, epoch, s.path))
Report ==
  /\ Complain(conn) /\ trouble' = TRUE
  /\ UNCHANGED <<rest, faults, timing, conn, sockets, broken>>
ReportOfCandidate ==
  /\ Complain(prepared) \/ Complain(parked)
  /\ UNCHANGED <<rest, faults, timing, conn, sockets, history>>

\* The idle timeout, a keep-alive without an answer, or the server closes.
Die ==
  /\ transport # "awg" /\ IsConnected
  /\ faults' = IF Served THEN faults + 1 ELSE faults
  /\ faults' <= MaxFaults
  /\ Tell(Task("down", NoNet, epoch, NoPath))
  /\ conn' = [conn EXCEPT !.st = "dead"] /\ broken' = TRUE
  /\ UNCHANGED <<rest, echo, reply, awgPingSeen, sockets, trouble>>

-----------------------------------------------------------------------------
(* Android, the networks, the server, the user and time.                   *)

inside == <<transport, networks, job, alive, epoch, choice, reconnectRequired, retryAt, timing,
            sockets>>

Appear(n) ==
  /\ phase[n] = "unused"
  /\ \E p \in {"up", "bad"} : phase' = [phase EXCEPT ![n] = p]
  /\ Tell(Task("available", n, 0, NoPath))
  /\ UNCHANGED <<inside, user, faults, conn, history>>

Lose(n) ==
  /\ phase[n] \in {"up", "bad"} /\ phase' = [phase EXCEPT ![n] = "gone"]
  /\ Tell(Task("lost", n, 0, NoPath))
  /\ UNCHANGED <<inside, user, faults, conn, history>>

Losing(n) ==
  /\ phase[n] \in {"up", "bad"} /\ faults < MaxFaults /\ faults' = faults + 1
  /\ Tell(Task("losing", n, 0, NoPath))
  /\ UNCHANGED <<inside, phase, user, conn, history>>

Degrade(n) ==
  /\ phase[n] = "up" /\ phase' = [phase EXCEPT ![n] = "bad"]
  /\ faults < MaxFaults /\ faults' = faults + 1
  /\ UNCHANGED <<inside, queue, user, conn, history>>

Repair(n) ==
  /\ phase[n] = "bad" /\ phase' = [phase EXCEPT ![n] = "up"]
  /\ faults < MaxFaults /\ faults' = faults + 1
  /\ UNCHANGED <<inside, queue, user, conn, history>>

ServerForgets ==
  /\ transport # "awg" /\ conn.st = "ok" /\ conn' = [conn EXCEPT !.st = "zombie"]
  /\ faults < MaxFaults /\ faults' = faults + 1
  /\ UNCHANGED <<inside, phase, queue, user, history>>

User ==
  /\ user < MaxUser /\ user' = user + 1
  /\ \E what \in Kind \cup (IF user = 0 THEN {} ELSE {"stop"}) : Tell(Task(what, NoNet, 0, NoPath))
  /\ UNCHANGED <<inside, phase, faults, conn, history>>

\* The delay of a penalised network ends.  It is at least 2 s: a tick of a failing session
\* with an idle worker makes its next attempt before.
Expire(n) ==
  /\ \/ retryAt[n] = 1
     \/ retryAt[n] = 2 /\ job.at = "idle" /\ ~Failing
     \/ retryAt[n] = 2 /\ job.at = "switching" /\ job.why # "recover"
  /\ retryAt' = [retryAt EXCEPT ![n] = 0]
  /\ UNCHANGED <<world, networks, queue, job, alive, epoch, choice, reconnectRequired,
                 timing, conn, sockets, history>>

Worker ==
  \/ OnAvailable \/ OnLost \/ OnLosing \/ OnDisconnected \/ OnPathUnavailable
  \/ Stop
  \/ \E k \in Kind : Start(k) \/ Migrate(k) \/ PressInVain(k)
Blocked == StartEnds \/ Switched \/ SwitchFails
Standby ==
  \/ StandbySkipped \/ StandbyReady \/ StandbyFails
  \/ \E n \in Reserve : StandbyBegins(n) \/ PreferWifi(n)
Environment ==
  \/ Report \/ ReportOfCandidate \/ Die \/ ServerForgets \/ User
  \/ \E n \in Handle : Appear(n) \/ Lose(n) \/ Losing(n) \/ Degrade(n) \/ Repair(n)

Next ==
  \/ Worker \/ Blocked \/ Standby \/ (\E early \in BOOLEAN : Tick(early))
  \/ Echo \/ Silence \/ Overdue \/ (\E n \in Handle : Expire(n))
  \/ Environment

\* The worker is a running thread, a blocking call ends, time passes, so that again and
\* again a tick is 750 ms after the last attempt, and a transport that is served delivers
\* its replies.  Nothing is assumed of the environment.
Fairness ==
  /\ WF_vars(Worker) /\ WF_vars(Blocked) /\ WF_vars(Standby) /\ SF_vars(Tick(FALSE))
  /\ WF_vars(Echo) /\ WF_vars(Silence) /\ WF_vars(Overdue)
  /\ \A n \in Handle : WF_vars(Expire(n))

Spec == Init /\ [][Next]_vars /\ Fairness

-----------------------------------------------------------------------------
(* Properties.                                                             *)

\* Whatever was queued before a migration, reconnection or restart, a network is held for
\* failed only if it is lost, its path was silent or could not be left, the connection was lost
\* or silent for 15 s, or the very socket in use has reported itself unavailable: since it is in
\* use, or as a candidate in a report that was still queued then.  No event about another socket
\* condemns the path in use.
TroubleIsReal ==
  failedNetwork # NoNet =>
    trouble \/ broken \/ phase[activeNetwork] = "gone"

\* Android's loss of the network in use is not forgotten until the session has left it, not
\* even when replies still come over its socket.
LossIsRemembered ==
  alive /\ job.at = "idle" /\ phase[activeNetwork] = "gone"
  /\ (\A i \in 1..Len(queue) : queue[i].what # "lost")
    => failedNetwork # NoNet

\* The session's view of its networks is sound, whatever order events and blocking calls
\* of the worker came in.
RecoveryInv == VpnTypeOK /\ LossIsRemembered


\* A QUIC connection that was never lost nor silent for 15 s is given up only by stop or a new
\* start: every other move keeps it, and with it the flows inside.
ReplacedOnlyIfBroken ==
  [][transport = "quic" /\ alive /\ alive' /\ IsConnected /\ conn'.st = "none" => broken]_vars

\* While a known network works, the session is connected over a working
\* network again and again; an AWG session only once it has had a first reply.
VpnRecovers ==
  []<>(\/ Served \/ ~alive \/ (transport = "awg" /\ ~awgPingSeen)
       \/ \A k \in Kind : networks[k] # NoNet => phase[networks[k]] # "up")
=============================================================================
