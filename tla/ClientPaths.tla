----------------------------- MODULE ClientPaths -----------------------------
(***************************************************************************)
(* How one QUIC connection of the phone moves between Android networks:    *)
(* the client's operations (mobile/client.go) under their mutex, the       *)
(* goroutines that retire old sockets, the connection's own loop, and the  *)
(* outgoing path manager and connection-ID manager of the patched quic-go. *)
(*                                                                         *)
(* A path stands for a transport with its UDP socket and the quic.Path     *)
(* added for it.  The identifiers are reused once their socket is closed.  *)
(***************************************************************************)
EXTENDS Naturals, Sequences, FiniteSets

CONSTANTS
  MaxPaths,    \* bound on the transports that exist at a time
  Key,         \* Android networks
  NoKey,
  MaxActive,   \* protocol.MaxActiveConnectionIDs
  MaxQueue,    \* bound on the probes queued by repeated timers
  MaxSpent     \* bound on the paths that hold a repeated ID at a time

ASSUME PathAssumption == MaxPaths \in Nat /\ NoKey \notin Key
ASSUME IdAssumption == MaxActive \in Nat /\ MaxActive >= 2 /\ MaxQueue \in Nat
                       /\ MaxSpent \in Nat

Path == 1..MaxPaths
NoPath == 0

VARIABLES
  \* mobile.Client
  conn,        \* "none", "up", or "closed": its context is done
  current,     \* c.paths[0]
  activePath,  \* c.activePath
  prepared, parked,
  key,         \* the network each candidate was bound to
  checked,     \* the paths whose last probe succeeded
  call,        \* the operation that holds c.op, and the path it works on
  open,        \* the open sockets
  retiring,    \* the transports given to the goroutines of retire()
  \* quic-go
  paths,       \* pm.paths: whether the path is there, and validated
  pmActive,    \* pm.activePath
  pathsToProbe,
  pathToSwitchTo,
  loopTransport,   \* the transport that the connection's loop sends on
  challenged,  \* the unvalidated paths with an unanswered PATH_CHALLENGE
  pathProbing, \* the paths that hold a connection ID
  free,        \* connection IDs in the queue that the peer still honours
  owed,        \* IDs retired and not yet replaced by the peer
  newest,      \* the path that holds the ID numbered highestProbingID, if any
               \* does and the ID of the connection is an older one
  ghost,       \* that ID without its path: "retired", "queued" once more, "none"
  spent,       \* the paths whose ID the peer has already retired
  activeSpent  \* whether the connection's own ID is such a one

client == <<conn, current, activePath, prepared, parked, key, checked, call>>
sockets == <<open, retiring>>
manager == <<paths, pmActive, pathsToProbe, pathToSwitchTo, challenged>>
ids == <<pathProbing, free, owed, newest, ghost, spent, activeSpent>>
vars == <<client, sockets, manager, loopTransport, ids>>

Maybe == Path \cup {NoPath}
Idle == [op |-> "idle", path |-> NoPath]

TypeOK ==
  /\ conn \in {"none", "up", "closed"}
  /\ {current, activePath, prepared, parked} \subseteq Maybe
  /\ key \in [Path -> Key \cup {NoKey}]
  /\ checked \subseteq Path
  /\ call \in [op : {"idle", "prepare", "migrate", "switch", "stop"}, path : Maybe]
  /\ open \subseteq Path /\ retiring \subseteq Path
  /\ paths \in [Path -> {"absent", "unvalidated", "validated"}]
  /\ {pmActive, pathToSwitchTo, loopTransport} \subseteq Maybe
  /\ pathsToProbe \in Seq(Path)
  /\ challenged \subseteq Path /\ pathProbing \subseteq Path
  /\ free \in 0..MaxActive /\ owed \in 0..MaxActive
  /\ newest \in Maybe /\ ghost \in {"none", "retired", "queued"}
  /\ spent \subseteq Path /\ activeSpent \in BOOLEAN

Init ==
  /\ conn = "none" /\ call = Idle
  /\ current = NoPath /\ activePath = NoPath
  /\ prepared = NoPath /\ parked = NoPath
  /\ key = [p \in Path |-> NoKey]
  /\ checked = {} /\ open = {} /\ retiring = {}
  /\ paths = [p \in Path |-> "absent"]
  /\ pmActive = NoPath /\ pathToSwitchTo = NoPath /\ loopTransport = NoPath
  /\ pathsToProbe = <<>> /\ challenged = {}
  /\ pathProbing = {} /\ free = 0 /\ owed = 0
  /\ newest = NoPath /\ ghost = "none" /\ spent = {} /\ activeSpent = FALSE

-----------------------------------------------------------------------------
(* The world: any packet may be lost, on any network and for any time; a   *)
(* connection dies of its idle timeout or of an error.                     *)

(* HandlePathResponseFrame. A response to a validated path is ignored.     *)
PathResponse(p) ==
  /\ conn = "up" /\ p \in challenged /\ paths[p] = "unvalidated"
  /\ paths' = [paths EXCEPT ![p] = "validated"]
  /\ challenged' = challenged \ {p}
  /\ UNCHANGED <<client, sockets, pmActive, pathsToProbe, pathToSwitchTo,
                 loopTransport, ids>>

(* RETIRE_CONNECTION_ID and its NEW_CONNECTION_ID travel on the path in    *)
(* use only; connIDManager.Add queues the replacement, up to its limit. A  *)
(* frame that comes late, its number below an ID in use, is retired at     *)
(* once and replaced in turn: nothing changes. The peer never asks for IDs *)
(* to be retired (RetirePriorTo is 0).                                     *)
Queued == free + (IF ghost = "queued" THEN 1 ELSE 0)

NewConnectionId ==
  /\ conn = "up" /\ owed > 0 /\ Queued + 1 < MaxActive
  /\ owed' = owed - 1 /\ free' = free + 1
  /\ UNCHANGED <<client, sockets, manager, loopTransport, pathProbing, newest,
                 ghost, spent, activeSpent>>

(* A frame that the peer sends again. An ID that is queued or in use is    *)
(* left alone, a lower one is retired once more, which the peer ignores.   *)
(* But the ID last given to a path is not below highestProbingID: once its *)
(* path has given it up, the frame puts it back, at the queue's front.     *)
NewConnectionIdAgain ==
  /\ conn = "up" /\ ghost = "retired" /\ Queued + 1 < MaxActive
  /\ Cardinality(spent) < MaxSpent
  /\ ghost' = "queued"
  /\ UNCHANGED <<client, sockets, manager, loopTransport, pathProbing, free, owed,
                 newest, spent, activeSpent>>

(* updateConnectionID: after many packets on one ID, if at least half of   *)
(* the limit is queued. The peer replaces an ID once.                      *)
RotateConnectionId ==
  /\ conn = "up" /\ 2 * Queued >= MaxActive
  /\ free' = IF ghost = "queued" THEN free ELSE free - 1
  /\ owed' = IF activeSpent THEN owed ELSE owed + 1
  /\ activeSpent' = (ghost = "queued")
  /\ newest' = NoPath /\ ghost' = "none"
  /\ UNCHANGED <<client, sockets, manager, loopTransport, pathProbing, spent>>

(* The loop has ended: connIDManager.Close gives up the IDs, and nothing   *)
(* reads what was queued for the loop any more.                            *)
LoopEnds ==
  /\ conn' = "closed"
  /\ pathProbing' = {} /\ free' = 0 /\ owed' = 0
  /\ newest' = NoPath /\ ghost' = "none" /\ spent' = {} /\ activeSpent' = FALSE
  /\ pathsToProbe' = <<>> /\ challenged' = {}
  /\ pathToSwitchTo' = NoPath /\ loopTransport' = NoPath

ConnectionDies ==
  /\ conn = "up"
  /\ LoopEnds
  /\ UNCHANGED <<current, activePath, prepared, parked, key, checked, call,
                 sockets, paths, pmActive>>

(* ConnectionIDLimitError: a new or repeated ID that fills the queue.      *)
ConnectionIdLimit ==
  /\ owed > 0 \/ ghost = "retired"
  /\ Queued + 1 >= MaxActive
  /\ ConnectionDies

-----------------------------------------------------------------------------
(* The connection's loop.                                                  *)

Present == {p \in Path : paths[p] # "absent"}

(* The queue without the abandoned paths at its head.                      *)
Pruned(q) ==
  LET alive == {i \in DOMAIN q : q[i] \in Present}
      first == CHOOSE i \in alive : \A j \in alive : i <= j
  IN IF alive = {} THEN <<>> ELSE SubSeq(q, first, Len(q))

(* Slip: a path that holds an ID asks for another at each probe.         *)
HasFreeConnId(p) == Queued > 0

HasConnId(p) == p \in pathProbing \/ Queued > 0

(* GetConnIDForPath for a path without an ID: the queue's front.           *)
TakeId(p) ==
  /\ pathProbing' = pathProbing \cup {p}
  /\ newest' = p /\ ghost' = "none"
  /\ spent' = IF ghost = "queued" THEN spent \cup {p} ELSE spent
  /\ free' = IF ghost = "queued" THEN free ELSE free - 1
  /\ UNCHANGED <<owed, activeSpent>>

(* NextPathToProbe with GetConnIDForPath: only the first path is tried.    *)
NextPathToProbe ==
  LET q == Pruned(pathsToProbe)
      p == Head(q)
      sends == q # <<>> /\ HasConnId(p)
  IN /\ conn = "up" /\ pathsToProbe # <<>>
     /\ pathsToProbe' = IF sends THEN Tail(q) ELSE q
     /\ challenged' = IF sends /\ paths[p] = "unvalidated" THEN challenged \cup {p}
                                                            ELSE challenged
     /\ IF sends /\ p \notin pathProbing THEN TakeId(p) ELSE UNCHANGED ids
     /\ UNCHANGED <<client, sockets, paths, pmActive, pathToSwitchTo, loopTransport>>

(* Slip: the loop takes the request to switch and does not follow it.    *)
SwitchIsLost ==
  /\ conn = "up" /\ pathToSwitchTo # NoPath
  /\ pathToSwitchTo' = NoPath
  /\ UNCHANGED <<client, sockets, paths, pmActive, pathsToProbe, challenged,
                 loopTransport, ids>>

(* ShouldSwitchPath and switchToNewPath.                                   *)
SwitchToNewPath ==
  /\ conn = "up" /\ pathToSwitchTo # NoPath
  /\ loopTransport' = pathToSwitchTo
  /\ pathToSwitchTo' = NoPath
  /\ UNCHANGED <<client, sockets, paths, pmActive, pathsToProbe, challenged, ids>>

-----------------------------------------------------------------------------
(* The goroutine of retire(): it asks the loop to detach the transport     *)
(* until the loop agrees or the connection is done. Nothing refers to the  *)
(* transport from then on, and the goroutine closes its socket.            *)

(* Slip: the loop lets go of the transport it sends on.                  *)
AlwaysDetachable(p) == TRUE
Detachable(p) == conn # "up" \/ loopTransport # p

RetireTransport(p) ==
  /\ p \in retiring /\ Detachable(p)
  /\ retiring' = retiring \ {p}
  /\ open' = open \ {p}
  /\ UNCHANGED <<client, manager, loopTransport, ids>>

Retire(ps) == retiring' = retiring \cup ps

(* RetireConnIDForPath: the peer replaces what it had not retired before.  *)
GiveUpIds(gone) ==
  /\ pathProbing' = pathProbing \ gone
  /\ owed' = owed + Cardinality(gone \cap (pathProbing \ spent))
  /\ spent' = spent \ gone
  /\ newest' = IF newest \in gone THEN NoPath ELSE newest
  /\ ghost' = IF newest \in gone THEN "retired" ELSE ghost
  /\ UNCHANGED <<free, activeSpent>>

(* Path.Close: the active path cannot be closed; any other gives up its    *)
(* entry and its connection ID.                                            *)
ClosePaths(ps) == GiveUpIds((ps \cap Present) \ {pmActive})
Abandoned(ps) ==
  [p \in Path |-> IF p \in ps \ {pmActive} THEN "absent" ELSE paths[p]]

(* A path that is no candidate any more has no network's key.              *)
Keyless(ps) == [p \in Path |-> IF p \in ps THEN NoKey ELSE key[p]]

-----------------------------------------------------------------------------
(* The client's operations.                                                *)

(* An identifier that nothing refers to any more: the least such.          *)
Unused ==
  LET idle == {p \in Path : p \notin open /\ \A i \in DOMAIN pathsToProbe : pathsToProbe[i] # p}
  IN {p \in idle : \A q \in idle : p <= q}

(* Start dials over a fresh socket; a failure closes it and changes        *)
(* nothing. The peer issues its IDs with the handshake, and the first one  *)
(* takes the place of the handshake's at once, which the peer does not     *)
(* replace: two fewer than the limit are left.                             *)
Start(p) ==
  /\ call = Idle /\ conn = "none" /\ p \in Unused
  /\ conn' = "up" /\ current' = p /\ loopTransport' = p
  /\ open' = open \cup {p}
  /\ free' = MaxActive - 2
  /\ UNCHANGED <<activePath, prepared, parked, key, checked, call, retiring, manager,
                 pathProbing, owed, newest, ghost, spent, activeSpent>>

(* The candidates prepare() leaves for network k before it opens a socket: *)
(* a candidate of k comes to the front, a third one pushes out the parked. *)
Rearranged(k) ==
  CASE prepared = NoPath /\ parked # NoPath /\ key[parked] = k ->
         [prepared |-> parked, parked |-> NoPath, dropped |-> {}]
    [] prepared # NoPath /\ key[prepared] # k /\ parked # NoPath /\ key[parked] = k ->
         [prepared |-> parked, parked |-> prepared, dropped |-> {}]
    [] prepared # NoPath /\ key[prepared] # k /\ ~(parked # NoPath /\ key[parked] = k) ->
         [prepared |-> NoPath, parked |-> prepared, dropped |-> {parked} \cap Path]
    [] OTHER -> [prepared |-> prepared, parked |-> parked, dropped |-> {}]

(* prepare() up to the probe: addPath forgets an earlier validation, and   *)
(* enqueueProbe queues the path. The socket may not be opened at all.      *)
Probe(op, k) ==
  LET r == Rearranged(k) IN
  /\ parked' = r.parked
  /\ ClosePaths(r.dropped) /\ Retire(r.dropped)
  /\ \/ \E p \in IF r.prepared # NoPath THEN {r.prepared} ELSE Unused :
          /\ Len(pathsToProbe) < MaxQueue
          /\ prepared' = p
          /\ open' = open \cup {p}
          /\ key' = [Keyless(r.dropped) EXCEPT ![p] = k]
          /\ paths' = [Abandoned(r.dropped) EXCEPT ![p] = "unvalidated"]
          /\ challenged' = challenged \ (r.dropped \cup {p})
          /\ pathsToProbe' = Append(pathsToProbe, p)
          /\ call' = [op |-> op, path |-> p]
     \/ /\ r.prepared = NoPath
        /\ prepared' = NoPath
        /\ paths' = Abandoned(r.dropped)
        /\ challenged' = challenged \ r.dropped
        /\ key' = Keyless(r.dropped)
        /\ UNCHANGED <<open, pathsToProbe, call>>

PreparePath(k) ==
  /\ call = Idle /\ conn = "up"
  /\ Probe("prepare", k)
  /\ checked' = checked \cap {prepared', parked'}
  /\ UNCHANGED <<conn, current, activePath, pmActive, pathToSwitchTo, loopTransport>>

(* A warm candidate is switched to at once. The other branch is also that  *)
(* of a candidate checked more than three seconds ago.                     *)
Warm(k) == prepared # NoPath /\ key[prepared] = k /\ prepared \in checked

MigrateTo(k) ==
  /\ call = Idle /\ conn = "up"
  /\ \/ /\ Warm(k)
        /\ call' = [op |-> "switch", path |-> prepared]
        /\ UNCHANGED <<prepared, parked, key, checked, sockets, paths, pathsToProbe,
                       challenged, ids>>
     \/ /\ Probe("migrate", k)
        /\ checked' = checked \cap {prepared', parked'}
  /\ UNCHANGED <<conn, current, activePath, pmActive, pathToSwitchTo, loopTransport>>

Probing == call.op \in {"prepare", "migrate"}

(* The timer of Path.Probe queues the path once more.                      *)
ProbeAgain ==
  /\ Probing /\ Len(pathsToProbe) < MaxQueue
  /\ pathsToProbe' = Append(pathsToProbe, call.path)
  /\ UNCHANGED <<client, sockets, paths, pmActive, pathToSwitchTo, challenged,
                 loopTransport, ids>>

ProbeSucceeds ==
  /\ Probing /\ paths[call.path] = "validated"
  /\ checked' = checked \cup {call.path}
  /\ call' = IF call.op = "migrate" THEN [call EXCEPT !.op = "switch"] ELSE Idle
  /\ UNCHANGED <<conn, current, activePath, prepared, parked, key, sockets,
                 manager, loopTransport, ids>>

(* Slip: a candidate that timed out still counts as warm.                *)
ProbeFailsStillChecked ==
  /\ Probing
  /\ call' = Idle
  /\ UNCHANGED <<conn, current, activePath, prepared, parked, key, checked, sockets,
                 manager, loopTransport, ids>>

(* The timeout, or the end of the connection: the candidate keeps its      *)
(* socket and its connection ID, but is no longer known to work.           *)
ProbeFails ==
  /\ Probing
  /\ checked' = checked \ {call.path}
  /\ call' = Idle
  /\ UNCHANGED <<conn, current, activePath, prepared, parked, key, sockets,
                 manager, loopTransport, ids>>

(* Slip: the path that was left keeps its ID.                            *)
SwitchedKeepingTheOldPath(p) ==
  /\ pathToSwitchTo' = (IF conn = "up" THEN p ELSE NoPath) /\ pmActive' = p
  /\ Retire({current})
  /\ current' = p /\ activePath' = p
  /\ UNCHANGED <<paths, challenged, ids>>

(* The rest of MigrateTo. Path.Switch only marks the path for the loop;    *)
(* a path that is not validated is refused and the candidate discarded.    *)
Switched(p) ==
  /\ pathToSwitchTo' = (IF conn = "up" THEN p ELSE NoPath) /\ pmActive' = p
  /\ LET left == {activePath} \cap Path IN
       /\ paths' = [q \in Path |-> IF q \in left THEN "absent" ELSE paths[q]]
       /\ GiveUpIds(left)
       /\ challenged' = challenged \ left
  /\ Retire({current})
  /\ current' = p /\ activePath' = p

Refused(p) ==
  /\ ClosePaths({p}) /\ Retire({p})
  /\ paths' = Abandoned({p}) /\ challenged' = challenged \ {p}
  /\ UNCHANGED <<current, activePath, pmActive, pathToSwitchTo>>

Switch ==
  /\ call.op = "switch"
  /\ IF paths[call.path] = "validated" THEN Switched(call.path) ELSE Refused(call.path)
  /\ prepared' = NoPath
  /\ key' = Keyless({call.path})
  /\ checked' = checked \ {call.path}
  /\ call' = Idle
  /\ UNCHANGED <<conn, parked, open, pathsToProbe, loopTransport>>

InvalidatePath(k) ==
  LET lost == {p \in {prepared, parked} \cap Path : key[p] = k} IN
  /\ call = Idle /\ lost # {}
  /\ ClosePaths(lost) /\ Retire(lost)
  /\ paths' = Abandoned(lost) /\ challenged' = challenged \ lost
  /\ prepared' = IF prepared \in lost THEN NoPath ELSE prepared
  /\ parked' = IF parked \in lost THEN NoPath ELSE parked
  /\ key' = Keyless(lost) /\ checked' = checked \ lost
  /\ UNCHANGED <<conn, current, activePath, call, open, pmActive,
                 pathsToProbe, pathToSwitchTo, loopTransport>>

(* Stop discards the candidates, closes the connection and waits, still    *)
(* holding c.op, for the retiring goroutines.                              *)
Stop ==
  /\ call = Idle /\ conn # "none"
  /\ LoopEnds
  /\ paths' = Abandoned({prepared, parked}) /\ Retire({prepared, parked} \cap Path)
  /\ prepared' = NoPath /\ parked' = NoPath
  /\ key' = Keyless({prepared, parked}) /\ checked' = {}
  /\ call' = [op |-> "stop", path |-> NoPath]
  /\ UNCHANGED <<current, activePath, open, pmActive>>

StopEnds ==
  /\ call.op = "stop" /\ retiring = {}
  /\ open' = open \ {current}
  /\ current' = NoPath /\ activePath' = NoPath /\ conn' = "none" /\ call' = Idle
  /\ paths' = [p \in Path |-> "absent"] /\ pmActive' = NoPath
  /\ UNCHANGED <<prepared, parked, key, checked, retiring, pathsToProbe, pathToSwitchTo,
                 challenged, loopTransport, ids>>

Environment ==
  \/ \E p \in Path : PathResponse(p)
  \/ NewConnectionId \/ NewConnectionIdAgain \/ RotateConnectionId
  \/ ConnectionDies \/ ConnectionIdLimit

Loop == NextPathToProbe \/ SwitchToNewPath

Goroutines == \E p \in Path : RetireTransport(p)

Operations ==
  \/ \E p \in Path : Start(p)
  \/ \E k \in Key : PreparePath(k) \/ MigrateTo(k) \/ InvalidatePath(k)
  \/ ProbeAgain \/ ProbeSucceeds \/ ProbeFails \/ Switch
  \/ Stop \/ StopEnds

Next == Environment \/ Loop \/ Goroutines \/ Operations

(* The loop and the goroutines run; a probe has a timeout; the code that   *)
(* holds the mutex goes on.                                                *)
Fairness ==
  /\ WF_vars(SwitchToNewPath) /\ WF_vars(NextPathToProbe)
  /\ \A p \in Path : WF_vars(RetireTransport(p))
  /\ WF_vars(ProbeSucceeds \/ ProbeFails) /\ WF_vars(Switch) /\ WF_vars(StopEnds)

Spec == Init /\ [][Next]_vars /\ Fairness

-----------------------------------------------------------------------------
(* Properties.                                                             *)

(* The loop never sends on a socket that has been closed, and never will:  *)
(* Switch only asks for the change, and until the loop has made it the old *)
(* transport must outlive its retirement.                                  *)
TransportInUseIsOpen ==
  conn = "up" =>
    /\ loopTransport \in open
    /\ current = IF pathToSwitchTo = NoPath THEN loopTransport ELSE pathToSwitchTo
    /\ current \in open /\ current \notin retiring

(* However many networks came, failed and went, and however often the peer *)
(* repeats itself, every connection ID that the peer still honours is in   *)
(* the queue, owed, or in use by the connection, its active path and the   *)
(* two candidates. A forgotten one would starve later migrations.          *)
IdsAreNotLeaked ==
  conn = "up" =>
    /\ pathProbing \subseteq {activePath, prepared, parked}
    /\ Cardinality(pathProbing \ spent) + free + owed
         + (IF activeSpent THEN 0 ELSE 1) = MaxActive - 1

(* A migration that has reached Switch is not refused, warm or cold, late  *)
(* answers and repeated probes included; so no candidate is lost there.    *)
SwitchIsNotRefused == call.op = "switch" => paths[call.path] = "validated"

(* Every open socket is the one in use, a candidate or on its way out: at  *)
(* most two candidates besides the active transport.                       *)
SocketsAreAccountedFor ==
  open \subseteq {current, prepared, parked} \cup retiring

(* The books of the client, through repeated, late and failed probes:      *)
(* candidates, their sockets and what is known of them.                    *)
PathInv == TypeOK /\ SwitchIsNotRefused /\ SocketsAreAccountedFor


(* Every retired socket is closed at last, also if its retirement began    *)
(* before the loop had switched, or the connection died meanwhile: no      *)
(* transport is retiring for ever. Stop, which waits for the goroutines    *)
(* with the mutex held, depends on it.                                     *)
RetiredIsClosed == \A p \in Path : []<>(p \notin retiring)

(* While there are probes to send they are sent, as long as the active     *)
(* path brings new connection IDs and there are as many as paths: neither  *)
(* an abandoned path nor one that waits for an ID at the head of the queue *)
(* stops it for good. (It does if the active path is dead, or if a second  *)
(* candidate after a migration finds all IDs in use: only the head of the  *)
(* queue is tried.)                                                        *)
EnoughIds ==
  /\ conn = "up" /\ pathsToProbe # <<>>
  /\ Cardinality({activePath, prepared, parked} \cap Path) <= MaxActive - 2

ProbesAreSent ==
  WF_vars(NewConnectionId) /\ <>[]EnoughIds
    => []<><<Len(pathsToProbe') < Len(pathsToProbe)>>_vars
=============================================================================
