# Specifications of quic-lab

TLA+ modules that model the concurrent core of this repository, the TLC
configurations that check them on small instances, and proofs, checked by TLAPS,
that hold for every size. `PROJECT.json` lists the runs, the mutants that show
what each property can catch, the source lines behind each definition, and the
hazards the properties are aimed at.

    tlc -workers 2 -config MCIdentityStore.cfg MCIdentityStore
    tlapm ManagedServerProofs.tla

## The system

quic-lab is an Android client and a Go server: a laboratory for QUIC connection
migration that also works as an IPv4 VPN over QUIC, HTTPS/WebSocket and AmneziaWG.

| Part | State it keeps | Operations | Talks to |
|---|---|---|---|
| Identity store (`internal/admin/store.go`, `protocols.go`, `stats.go`) | users, the file `identities.json`, closers of live sessions, live statistics | create, rename, delete, set protocols, verify, register, track | the administration web calls it, the gateway registers with it, the AWG worker reads its file |
| Gateway server (`internal/gateway/server.go`) | a goroutine per session and per stream, slots | accept, register, serve, close | store, DatagramMux, destinations |
| AWG worker (`internal/awgserver/worker.go`) | peers it has put into the device | read the file each second, revoke, configure | only the file; systemd restarts it |
| Datagram mux (`internal/gateway/datagram.go`) | flows, send queue, assemblies, received packets | register, dial, serve, write, read, close | its peer, over DATAGRAM frames and a control stream |
| Streams (`wire.go`, `udp_stream.go`, `serve` of `server.go`) | taken places, half-closed directions | accept, serve or refuse, relay with half-close, UDP packets | both ends of a flow |
| Multiple router (`mobile/multiple.go`, `gateway_tun.go`, `internal/routing`) | one handler per connected profile, paused profiles, flows with slots | attach, pause, resume, detach, select | the controller from several threads, the TUN's flows |
| Multiple controller (`MultipleVpnController.kt`) | sessions and generations, paused and starting profiles | start, toggle, retry every 5 s, close | a `VpnSession` per profile, each with its thread |
| VPN session (`VpnSession.kt`, `MigrationPolicy.kt`) | networks, the active one, the failed one, timers | start, migrate, recover, standby, close | `mobile.Gateway` |
| Client paths (`mobile/client.go`, patched quic-go) | active, prepared, parked and retiring transports, connection IDs | start, prepare, migrate, invalidate, retire, stop | quic-go's connection loop |
| Administration web (`internal/admin/web.go` ...) | login sessions, one-time tickets, login failures | log in, create, QR, enroll, revoke | store, captures |
| Debug capture (`internal/debugcapture`) | sessions, readers, limits | start, stop, stop by user, read, expire | gateway connections, the web |
| AWG echo stand (`internal/echoawg`) | leases | lease, expire | an AWG device |

What is hard in them:

* *Concurrency.* Store methods are atomic, but what surrounds them is not: a session
  verifies, registers and is tracked in three critical sections, and closers run
  after unlocking. The router hands out handlers that are used after its lock is
  released. The controller's checks and the router's are on different threads.
* *Failure.* Saving can fail after memory has changed; the process may be restarted
  at any point; the worker exits on the first error.
* *Delivery.* Datagrams are lost and reordered; queues drop; sequence numbers wrap.
* *Waiting.* `stop` waits for flows, session workers wait for `stop`.
* *Time.* Assemblies expire, users expire, the 5 s loop retries, probes time out.

Correctness, part by part: who is served is entitled to it, and a revocation reaches
him (store); an address leads to its owner only (worker); traffic never leaves by an
exit the rules do not give it, and a stopped profile stays stopped (router,
controller); a packet comes out whole, once, on its own flow (mux); a relay carries
everything in both directions, and its place comes back (streams); the socket in use
is open, no socket and no connection ID is lost, and probes go out (client paths); a
event about another socket condemns nothing, a healthy connection is kept and a working network is
found (VPN session); a ticket works once and not after a revocation, a logout is final
(web); recordings are bounded, whole for their viewer, and do not outlive the right to
them (capture).

## Modules

| Module | Models | Extends |
|---|---|---|
| `IdentityStore` | the store and the life of gateway sessions | |
| `AwgWorker` | the worker and its device | |
| `ManagedServer` | both processes around the file | `IdentityStore`, instance of `AwgWorker` |
| `RoutePolicy` | the rule list, and what the documentation promises of it | |
| `MultiRouter` | the router, its handlers and flows | `RoutePolicy` |
| `MultipleVpn` | the controller and its sessions over the router | `MultiRouter` |
| `UdpChannel` | abstract: what a UDP flow promises | |
| `DatagramMux` | both ends of the mux | instance of `UdpChannel` |
| `GatewayStreams` | the streams of the gateway's sessions, and UDP over a stream | instance of `UdpChannel` |
| `ClientPaths` | one QUIC connection of the phone over its networks | |
| `VpnRecovery` | the worker of a VPN session over `mobile.Gateway` | |
| `DebugCapture` | the capture manager, recordings and viewers | |
| `AdminWeb` | logins, tickets, users and captures of the administration | `DebugCapture` |
| `ManagedServerProofs`, `AdminWebProofs` | the theorems of the module and of the one it extends | the module |
| `MultiRouterProofs`, `MultipleVpnProofs`, `DatagramMuxProofs`, `GatewayStreamsProofs`, `ClientPathsProofs`, `VpnRecoveryProofs` | the theorems of the module they are named after | the module |
| `MC...` | instances for TLC | |

Definitions called a *slip* in a comment are plausible mistakes in the code; the
mutants of `PROJECT.json` put them in the place of the correct definition, and the
property named there must then fail.

### IdentityStore

A `Store` method runs under `Store.mu` and is one action; `save` succeeds or fails by
a parameter of the action. `users` is `state.Users`, `disk` the file, `active` and
`stats` the maps of the same names, `closing` the closers a handler has taken out of
`active` and not yet called. A session goes through `phase`: verified by the
handshake, registered, serving (tracked), served (after `done`), over (after
`release`). `open` says that its connection has not been closed. Expiry disables a
user without closing his sessions, as in the code, which looks at `Expires` only at
the handshake, `Register` and `Track`. `Restart` reads the file and drops every
session.

Abstracted: certificates are the id in them, tokens are the sessions themselves,
byte counters are left out. A deleted id never returns, because `randomID` does not
repeat.

### AwgWorker and ManagedServer

`Tick` reads the file; revocations and configurations of single peers are steps of
their own, so that everything may happen between two calls of `IpcSet`. The device is
`peers` (allowed address of each peer) and `route` (crypto-key routing): an address
given to a peer is taken from whoever had it. `Exit` is any error, or a crash.

### RoutePolicy, MultiRouter and MultipleVpn

`Choose` follows `Policy.Choose`: the first rule that decides, where an application
rule with an unknown owner decides to block. `RightExit` says what
`docs/multiple-vpn.md` promises for the real owner of a flow.

A handler's `life` separates the moments the code separates: taken out of the map,
cancelled under the lock, closed by `stop`, drained. A flow is `selected` between
`selectFlow` and the handler's check of `closed`, then `dialing` and `relaying` with
a slot.

In `MultipleVpn` main-thread actions (`Request`, `Pause`, `Resume`, `HandleFailure`,
`Move`, `Shutdown`) interleave with a worker per session; `attaching` is the
point between the generation check and `setGateway`, `replacing` and `detaching` are
the waits inside `SetGateway` and `DetachGateway`.

### DatagramMux

A link is an end and a flow. A packet is its number and the number of its fragments;
an assembly remembers of each piece the packet it was cut from, so mixing is visible.
Time is nondeterministic: fragments may be found too old to send, assemblies grow old.
One assumption is made of it: when a sequence number comes back, after 2^32 packets,
nothing of its last use is on the way and an assembly of it is past its half second.
A flow has one writer, as in `relayUDP` and `serveUDP`. `SeqSpace` stands for 2^32.

### GatewayStreams

A stream is offered, takes a place of its session and one of the server in one step of
the session's loop (`serve` is the only one that takes them), asks, and is refused or
served. Its two links carry frames; `copying` is the goroutine of each direction.
`MStream` frames are modelled as such: a UDP packet is a header and a body, an empty body is no frame, and
the empty frame is the end. Failures are separated as the code separates them:
`CopyBreaks` is an error of its own, which closes both ends; `CopyFails` is what the
other goroutine then sees; `CancelCloses` is the callback on the session's context.
`ClientCloses` only cuts the stream: `MStream.Close` closes the smux stream below the frames,
the handler is not told, and its reader gets what has arrived and then `io.EOF`, as if the
client had half-closed (`AtEnd`); so do a header without its body and, at the client, a stream
that the server closed. `broken` marks the streams that were cut, and `EndIsMeant` speaks of
the others. A frame cut in the middle is an error (`CopyBreaks`). What a
request asks for is reduced to its outcome: `Serve` for a relay (TCP, DNS) or UDP over the
stream, `Refuse` for every other way out, transit probes and echoes after their
answer included. UDP over datagrams is in `DatagramMux`.

### ClientPaths

A path stands for a transport with its socket and the `quic.Path` added for it. `call`
is the operation that holds `Client.op`; a probe is a separate step from the operation
that waits for it, so answers come before and after its timeout. The connection's loop
(`NextPathToProbe`, `SwitchToNewPath`) and the goroutines of `retire` run beside it.
Connection IDs are counted: free, held by a path, or retired and owed by the peer, who
replaces them over the active path only. A repeated NEW_CONNECTION_ID of an ID in use or in
the queue changes nothing, one with a lower number is retired again, which the peer ignores;
but that of the ID given out last, `highestProbingID`, passes the comparison of
`conn_id_manager.go:92` once its path has given it up. `newest` is the path that holds that
ID, `ghost` follows the ID after its path (retired, then queued a second time), and `spent` and
`activeSpent` say who uses an ID that the peer has already retired and will not replace.
`ConnectionIdLimit` is the error of a queue that such a frame fills. Time (`3 s` of a warm candidate, the probe's
timer) is nondeterministic: a warm candidate may always be probed again.

### VpnRecovery

The worker thread takes events from `queue` and ticks; a blocking call of
`mobile.Gateway` (`job`) is a step of its own, during which networks, transport and
queue go on. `epoch` stands for the sink of the transport, `conn` for the transport:
`zombie` is a connection the server has forgotten, `dead` one that knows it is over.
Times are abstracted to what the code compares: `echo` (recent or stalled), `reply`
(recent, old, overdue: the 15 s), `retryAt` (0 may be tried, 1 penalised, 2 penalised
since the last attempt). `trouble` and `broken` record, for the properties, whether the path or the connection in use has really failed.
`prepared` and `parked` are the client's candidates, each a socket with its address; `prepared`
is also the socket a new connection is dialled from. Probing a reserve network (`probing`)
blocks the worker like a switch. The socket in use, candidates and the socket of a dial all
report (`Report`, `ReportOfCandidate`), each with its own address; if that socket is in use when
the worker reads the report, the report counts, and `trouble` says so (`Reported`).
Which networks Android calls validated, round-trip times and dwell times are choices. Left out:
an echo of an HTTPS heartbeat that is being replaced, reports of retired sockets, whose address
nobody has any more, and the flag of `pathSocket` that lets only the first of several errors
through until a write succeeds (the model may always report again);
`automatic` is true, as nothing calls `setAutomatic`; `close` is in `MultipleVpn`.

### DebugCapture and AdminWeb

`managerMu` is held by a capture that `Start` is starting; every other use of the
manager is one step that needs it free. A recording is its sequence of blocks, all of one
size; `unsent` marks a secret between the two halves of `Write`. The viewer's stream is a
step for each thing it does (header, then rounds of new secrets, `LiveBlocks` and the batch), so
a capture can end between any two of them. A viewer may stop reading at any time (`Stalls`): a
write of a block then gives up after 10 s (`BlockTimesOut`), the writes of the header and of the
secrets have no timeout and wait (`HeldUp`).

`AdminWeb` adds the pages. Handlers that take `userCaptureMu` are several steps with
`mutex` held; starting the capture of a listener, issuing and using a ticket do not take it, as
in the code. The store appears as what the handlers see of it, since `IdentityStore` is about
its own lock; a restart may come between any two steps. Identifiers of captures, logins and
tickets are used again once nothing refers to the old ones, as identifiers are random and never seen again.

## Runs

| Run | Instance | Shows |
|---|---|---|
| `store` | 2 users, 2 names, 1 address, 2 sessions of the first user on different transports | safety of revocation and persistence, and that closers and defers finish |
| `fleet` | 2 users, 2 addresses, no sessions | consistency of the device, removal and configuration of peers |
| `router` | 2 profiles, 2 connections, 2 flows, 1 slot, one policy of a subnet and an application rule | routing by the rules, pausing, draining |
| `multiple` | 1 profile, 2 sessions, 1 flow | pausing and shutdown across threads; closed sessions end, stopped handlers drain, a failed start is tried again |
| `multiple_race` | 1 profile, 2 sessions | the first finding below |
| `datagram` | 1 flow, 3 packets of 1 or 3 fragments, 2 sequence numbers, a queue of 2, one assembly, one unread packet | the mux is a UDP channel, and flows end at both ends |
| `streams` | 2 sessions with a place each, 1 place of the server, 2 streams of one or of both sessions, data on one of them: 2 payloads, one of them empty | no place is lost, relays are complete, UDP over a stream is a UDP channel, lost sessions are released |
| `client` | 3 networks, 3 transports at a time, 4 connection IDs, 2 queued probes, one repeated ID in use by a path | the socket in use is open, sockets and IDs are accounted for, retired sockets are closed, probes are sent |
| `vpn` | a Wi-Fi and a cellular network that each appear and go once, one fault, two presses of a button, a queue of one | events are judged rightly, losses are remembered, QUIC connections are kept, the session recovers |
| `capture` | 2 captures, 1 slot, 1 owner, 1 user, recordings of 3 blocks, 1 secret, a viewer of one of them | limits, recordings, viewers, the end of the server |
| `web` | 1 capture, 1 login, 2 users, 1 address, 2 tickets | captures follow their users, tickets are fresh, logouts are final, handlers end |
| `capture_logout` | as `web` | the second finding below |

Why the bounds are enough. *store*: two sessions of one user on two transports are
the smallest case in which a protocol change concerns one and not the other; a second
user and a single address make names and addresses contended. *fleet*: two addresses
let an identity be moved and let an address pass from one identity to another while
the worker holds an old reading. *router*: two connections make replacement, two flows
and one slot make the limit; the one rule list has a rule that needs no owner above one
that does, and the theorem is about every list. *multiple*: two sessions are the one that was stopped and the one that
was resumed. *datagram*: three packets make a sequence number return, three
fragments let an assembly hold two and wait, and every capacity is small enough to overflow.
*streams*: two sessions that compete for one place of the server make the second
acquisition fail while the first has succeeded, and two payloads make an order and an
empty one make an end that is not meant. *client*: three networks make a third candidate
push one out, three transports at a time make a candidate wait for the retirement of an
older one, and four connection IDs are the limit of quic-go itself; one path with a repeated
ID (`MaxSpent`) is enough to see it taken, given up and put back again. *vpn*: a Wi-Fi and a cellular network are what the code
distinguishes; one fault of any kind, besides networks that appear and go, reaches every
recovery, and a queue of one still holds an event, a candidate's report for instance, while
the worker blocks; the theorems are for every queue. *capture*: two captures of different kinds
compete for one slot, and a recording of three blocks, one behind the header for each of a
packet and a secret, fills up. As two captures are kept and there are two, the limit on kept captures
is only met by the theorem. *web*: two users make an
address change hands; one login is used again once forgotten, so a late effect on the next login
would show. The theorems do not depend on sizes.

Deadlock is not checked where the system may come to rest: all sessions over, all
flows closed, the router shut down.

### Fairness

*Store*: weak fairness of the goroutines only, that is of the closers' loop and of
register, track, done and release; administrators, peers and clock owe nothing.
*Worker*: its ticker fires. That it configures everybody is stated under the condition
that it does not keep exiting. *Controller and router*: worker threads run, posted failures are
handled, the 5 s timer fires, stop goes on, a dial ends by its deadline, a cancelled relay
ends, while a live one may run for ever; and, for `RunningIsConnected`, a start that is
tried again and again succeeds in the end (strong fairness), which is an assumption
about the network, not about the code. *Mux*: whoever watches the
control stream sees it end; nothing is assumed of deliveries. *Streams*: reads and
writes of a closed stream fail, a request has a deadline, callbacks and deferred calls
run; clients and destinations owe nothing. *Client*: the loop and the goroutines run, a
probe ends by its timeout. That the peer sends new connection IDs is assumed only inside
`ProbesAreSent`, where it matters. *VPN session*: the worker takes its events, a blocking
call returns, time passes (silence becomes stalled, then overdue; penalties end), an
answered heartbeat is delivered, and again and again a tick comes 750 ms after the last
attempt (strong fairness, as an event in between may be an attempt, too). Networks and server owe nothing:
`VpnRecovers` asks for a connection only while a known network works. *Capture*: Start waits four seconds
at most, a capture has a lifetime, the goroutines run. The stream of a viewer goes on only while
its socket takes the data: nothing is assumed of a write without a timeout to a viewer that does
not read, and `ViewersEnd` excepts it. *Web*: a handler that waits for the
manager gets it although others come and go (strong fairness: `sync.Mutex` does not
starve a waiter), and the statistics loop looks at its login every five seconds.

### Findings

`multiple_race`: `attached` in `MultipleVpnController.kt:155-156` checks its generation
and then calls `setGateway`. If the profile is stopped and resumed and the new session
attaches in between, the old session replaces the new gateway, and its shutdown then
removes it. The new session is connected and in `starting`, so nothing repairs it. The
comment at `mobile/multiple.go:144` and `docs/multiple-vpn.md:34-35` promise otherwise.
The theorem `StoppedGatewaysAreUnrouted` shows how far it goes: traffic is refused, it
never goes to a stopped gateway nor past the VPN.

`capture_logout`: `captureStart` (`internal/admin/capture.go:75-85`) checks the login and
calls `Capture.Start` without `userCaptureMu`. A logout in between stops the captures that are
registered; this one is started and registered afterwards and runs for its ten minutes without an
owner. (Once `Start` holds the manager's mutex the logout waits in `StopOwner`, and stops the
new capture with the others.) `docs/wireshark-capture.md:121` says that a logout
stops the captures of this login. Captures of users are started under the lock, and for
them `InnerEndsWithLogin` (in `WebInv`) holds.

### Observations

Met while modelling; no run is about them.

* A stream that is closed with an error, or by a client that hangs up, looks ended: `QStream.Close`
  sends the FIN of a half-close, and `MStream.Close` gives the reader `io.EOF` at a frame
  boundary (`wire.go:27-34`, `54-57`, `148`). A response that was cut looks complete to the
  client, and for a client that hung up the relay half-closes the destination and keeps handler
  and place until a write fails or the destination ends (`wire.go:191-207`).
* A repeated NEW_CONNECTION_ID of `highestProbingID` puts an ID whose path was retired back into the
  queue (`conn_id_manager.go:92`, `153-185`), from where another path gets it, which the comment at
  `conn_id_manager.go:273` excludes ("Once a connection ID is allocated for a path, it cannot be
  used for a different path."); the peer has retired that ID. With a full queue the frame
  ends the connection (`conn_id_manager.go:73-75`).
* After a migration the connection and its active path hold an ID each, and of the three the peer
  keeps issued one is left: the second of two candidates waits at the head of
  `pathsToProbe`, and what is behind it waits too, even with a healthy active path
  (`path_manager_outgoing.go:270`).
* A report of a candidate's socket that is queued while the candidate is probed carries the address
  in use after the switch. It passes the comparison with `localAddress` (`VpnSession.kt:142-153`;
  "for filtering stale path-error events", `client.go:402`), and the path that has just been validated is
  held for failed.
* The header and the secrets are written to a viewer without a timeout
  (`internal/admin/capture.go:241`, `248`): a viewer that stops reading holds its handler, also after its capture
  has ended.
* A secret that `Write` has kept in `keyLines` and whose block a stop then refuses
  (`debugcapture/capture.go:91-102`) is in the download; the viewer, who reads `keyLines` at the
  beginning of a round, may miss it.
* `reconnectRequired` is not taken back when replies resume after 15 s of silence: a later
  migration replaces a QUIC connection that works (`VpnSession.kt:264-281`).
* An HTTPS migration does not reset `lastReplyAt`; silence that passes 15 s during it makes the
  next tick replace the new connection (`VpnSession.kt:188-206`).
* If attaching fails after a successful start, the transport runs on, with `alive` false,
  until the next start or stop (`VpnSession.kt:163-179`).
* If the active path is dead, a candidate without a connection ID at the head of
  `pathsToProbe` keeps the others from being probed (`path_manager_outgoing.go:270`);
  `ProbesAreSent` therefore assumes new IDs.
* `record` looks its recording up before it locks the connection; a packet that is late for
  an ended recording resets the state kept for the next, whose synthetic
  handshake is then written twice (`debugcapture/user.go:202-215`).

## Proofs

All theorems are for arbitrary sets of users, sessions, profiles, connections and flows,
from the assumptions on constants that stand in the modules (distinctness of special
values, valid policies, positive limits). Each rests on an inductive invariant, proved
with one step for each action.

* `ManagedServerProofs`, on the store. `StoreInv` adds to the properties `ServedIsRegistered` (a
  served session's closer is in `active` or taken by a handler), without which revocation
  could not be shown to reach it, and `KnownWasIssued`, which keeps deleted ids from
  returning. `DeletionIsForever` needs the agreement of memory and file because of `Restart`.
* `ManagedServerProofs`, on both processes. `FleetInv` adds `ReadAddressIsCurrent` (what the worker has read
  is still that id's address, or the id is gone for good) and `ApplyOrder` (nobody is
  configured before the revoked are gone). Together they give `RoutingIsConsistent`
  although the worker takes no lock.
* `MultiRouterProofs`. `UnknownOwnerNeverBypasses` is a fact about `Choose` for all rule
  lists, from the existence of a first deciding rule. `RouterInv` then carries
  the choice from selection to relay, whatever happens to the handler meanwhile.
* `MultipleVpnProofs`. `ControllerImplementsRouter`: every step is a router step or
  leaves it unchanged, so the router's theorems hold under the controller. `VpnInv` adds
  which profile a session belongs to (`SessionsHaveProfiles`) and that a gateway is attached
  at most once (`AttachedOnce`); from it, pauses hold and stopped gateways are unrouted.
* `ClientPathsProofs`. `PathIInv` states what `TransportInUseIsOpen` rests on: the loop sends
  on the current transport or on a retiring one that it has not left (`LoopFollows`); the
  transports of the active path, the candidates and the retiring ones are different
  (`RolesAreDistinct`); a candidate that counts as checked is validated (`CheckedIsValidated`). For
  `IdsAreNotLeaked` it adds up the IDs that the peer honours (`IdsAreCounted`: held by paths, free,
  owed and in use, without those the peer has retired and repeated) and says who may hold
  one (`OnlyKnownPaths`).
* `GatewayStreamsProofs`. `StreamIInv` says of each link what its wire may hold given what was
  written and read (`LinksDeliver`: the rest of the wire, from the reader's position, completes the
  packets that were sent; on a link that nobody cut, only a writer that has finished has put the
  end there, while a cut one holds a prefix and ends where that does), and who
  serves it (`LinksAreServed`, `PlacesHeld`). `RelayIsComplete` and `StreamInv` follow, and the
  refinement `StreamsImplementUdp`: `Write` is `Send`, `Read` is `Receive` or a stutter while a
  packet is not yet whole, and every other step leaves what was sent and received alone.
* `DatagramMuxProofs`. `MuxIInv` follows each fragment: it waits to be queued, is queued or
  on the way, once (`FragmentsAreOnce`); all fragments under one sequence number on a link are of
  one packet (`SequenceIsClear`), by the assumption on the reuse of numbers stated above; an
  assembly holds pieces of one packet, which are not on the way any more, and of a packet that
  has come out nothing is left (`AssembliesAreSound`, `ReceivedIsGone`). The refinement
  `MuxIsUdpChannel` then maps completing an assembly to `Receive`, of a packet that was sent
  and not received before.
* `AdminWebProofs`. `CaptureIInv`: while a capture is being started the manager is held and its
  place is reserved (`StartIsExclusive`, `RoomIsKept`), and a viewer's last batch is that of an ended
  recording (`LastIsLast`), which is why closing normally means complete. `WebIInv` adds, for the
  handlers of several steps, what they still know to be true at each step (`HandlerIsValid`) and that
  what a change makes obsolete exists only while the handler that revokes it holds
  `userCaptureMu`. The steps of the manager are proved once and used for both
  specifications; `WebSafe` is `WebSpec` without its fairness.
* `VpnRecoveryProofs`. `VpnIInv` relates the queue to the state the worker will read it in.
  `LossesAreOrdered`: a network that is gone is unknown to the session unless its loss is still
  queued, behind its appearance, and a gone network in use is held for failed or its loss is
  queued. `SignsHaveReasons`: a queued complaint about the socket in use, silence, an overdue
  reply, the demand for a new connection and a connection that is not there each come
  with `trouble` or `broken`; a report that is queued when its socket comes into use becomes a
  reason then. It needs that the sockets in use, prepared and parked have different
  addresses (`SocketsApart`), so that a candidate's report is not one about the path in use, and that a
  new socket has an address that no queued event carries (`FreshPathIs`, by counting). Each
  action's lemma also shows the step condition of `ReplacedOnlyIfBroken`.

Each conjunct of the inductive invariants is proved; all of them were checked with TLC on the
instances of the runs first. With them every safety property of the runs, invariants, action
properties and both refinements, has a theorem that names it.

The assumptions on constants come from the code. `CaptureAssumption` asks for `MaxBlocks > 0`
(`MaxBytes` is 32 MiB, `capture.go:20`), without which no header would fit, and for at least one
owner. The `ASSUME`s that bound a model (`MaxQueue`, `MaxUser`, ...) only say that the bound
is a number: the theorems hold for each.

Only model-checked: all liveness, which is out of the prover's reach under fairness
(`RevokedSessionEnds`, `RevokedPeerRemoved`, `EntitledPeerConfigured`, `ClosedSessionsEnd`,
`RunningIsConnected`, `ClosedAtBothEnds`, `RetiredIsClosed`, `ProbesAreSent`, `SessionIsReleased`,
`ViewersEnd`, `RequestsEnd`, `VpnRecovers`), and the two runs that show findings, which are
counterexamples.

## Plan

Done: `IdentityStore`, `AwgWorker`, `ManagedServer`, `RoutePolicy`, `MultiRouter`,
`MultipleVpn`, `UdpChannel`, `DatagramMux`, `GatewayStreams`, `ClientPaths`, `VpnRecovery`,
`DebugCapture` and `AdminWeb`, with proofs of their safety.

Next, in this order:

1. What the invariants say of steps: a viewer's position and a recording only grow, a retired
   transport is never used again, a place is returned once.
2. The safety under each liveness property that TLC checks: that what is waited for stays
   possible (a closer that was taken is still to be called, a retiring socket has its goroutine).
3. `EchoLeases` (the AWG stand), `TrafficRing` (the statistics window), the SNI dispatcher.

## Not modelled

The AWG echo stand and the SNI dispatcher are left for later (see the plan). Of modelled
parts: the exit address check, SOCKS and the transit heartbeat of the VPN client; renaming, profile downloads,
the limit on failed logins and the AWG and uplink figures of the web; enrolment and upload
of a phone's capture, excluded addresses and the viewer program of the captures; the AWG
worker's statistics. They do not touch the state the properties are about.

Screens, charts, diagnostics and radio information of the Android application;
installation scripts; the user-space TCP/IP stack and the AmneziaWG engine, which are
third-party code used as devices; quic-go outside its path management; pcapng encoding;
certificates and cryptography; configuration parsing. None of it keeps state that several
actors share, or it is not this repository's own.
