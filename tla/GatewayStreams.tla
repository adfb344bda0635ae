--------------------------- MODULE GatewayStreams ---------------------------
(***************************************************************************)
(* The streams of the gateway's sessions (internal/gateway/server.go): a   *)
(* stream takes a place of its session and one of the server, its handler  *)
(* reads a request, refuses it or relays between the stream and the        *)
(* destination until both directions have ended (wire.go, Relay) or, for   *)
(* UDP over a stream, until either has (udp_stream.go).  The stream is the *)
(* framed one of the HTTPS transport, MStream.                             *)
(*                                                                         *)
(* A link is one direction of a stream. Upwards the client writes and the  *)
(* handler reads; downwards the handler writes what the destination sent   *)
(* and the client reads.                                                   *)
(***************************************************************************)
EXTENDS Naturals, Sequences, FiniteSets

CONSTANTS
  Session, Stream,
  Owners,      \* bound: which session opens which stream
  Talking,     \* bound: the streams whose links are written, read and closed
  Packet,      \* payloads, each written at most once on a link
  Empty,       \* the payload of no bytes: an empty UDP datagram
  MaxFlows,    \* the places of a session
  ServerSlots  \* the places of the server

ASSUME OwnersAssumption == Owners \subseteq [Stream -> Session]
ASSUME TalkingAssumption == Talking \subseteq Stream
ASSUME PlacesAssumption == MaxFlows \in Nat \ {0} /\ ServerSlots \in Nat \ {0}

VARIABLES
  session,     \* "open", "closing": its loop has ended, "gone"
  owner,       \* the session that each stream belongs to
  phase,       \* "none", "offered", "asking", "serving", "done"
  network,     \* what the stream was opened for, "none" before it is served
  slots,       \* taken places of each session
  serverSlots, \* taken places of the server
  closed,      \* the streams that the server closed, with their destination
  broken,      \* the streams cut by an error, the client or a lost session
  copying,     \* the handler's goroutine of each link
  sent,        \* what was written on each link
  finished,    \* the links whose writer has half-closed them
  wire,        \* the frames on their way
  received,    \* what came out of each link
  ended        \* the links whose reader has seen the end

places == <<slots, serverSlots>>
flow == <<sent, finished, wire, received, ended>>
state == <<session, owner, phase, network>>
vars == <<state, places, closed, broken, copying, flow>>

Dir == {"up", "down"}
Link == Stream \X Dir
Fin == <<"fin">>
Frames == {Fin} \cup ({"header", "body"} \X Packet)
Elements(s) == {s[i] : i \in DOMAIN s}

TypeOK ==
  /\ session \in [Session -> {"open", "closing", "gone"}]
  /\ owner \in [Stream -> Session]
  /\ phase \in [Stream -> {"none", "offered", "asking", "serving", "done"}]
  /\ network \in [Stream -> {"none", "tcp", "udp"}]
  /\ slots \in [Session -> 0..MaxFlows] /\ serverSlots \in 0..ServerSlots
  /\ closed \subseteq Stream /\ broken \subseteq Stream
  /\ copying \in [Link -> {"off", "run", "ended", "failed"}]
  /\ sent \in [Link -> Seq(Packet)] /\ received \in [Link -> Seq(Packet)]
  /\ finished \subseteq Link /\ ended \subseteq Link
  /\ wire \in [Link -> Seq(Frames)]

Init ==
  /\ session = [s \in Session |-> "open"]
  /\ owner \in Owners
  /\ phase = [st \in Stream |-> "none"] /\ network = [st \in Stream |-> "none"]
  /\ slots = [s \in Session |-> 0] /\ serverSlots = 0
  /\ closed = {} /\ broken = {}
  /\ copying = [l \in Link |-> "off"]
  /\ sent = [l \in Link |-> <<>>] /\ received = [l \in Link |-> <<>>]
  /\ wire = [l \in Link |-> <<>>]
  /\ finished = {} /\ ended = {}

-----------------------------------------------------------------------------
(* The session's loop.                                                     *)

Offer(st) ==
  /\ phase[st] = "none" /\ session[owner[st]] = "open"
  /\ phase' = [phase EXCEPT ![st] = "offered"]
  /\ UNCHANGED <<session, owner, network, places, closed, broken, copying, flow>>

(* Slip: the session's place is not given back when the server is full.  *)
TakeKeepingSessionPlace(st) ==
  LET s == owner[st]
      free == slots[s] < MaxFlows
      taken == free /\ serverSlots < ServerSlots
  IN /\ slots' = [slots EXCEPT ![s] = IF free THEN @ + 1 ELSE @]
     /\ serverSlots' = IF taken THEN serverSlots + 1 ELSE serverSlots
     /\ phase' = [phase EXCEPT ![st] = IF taken THEN "asking" ELSE "done"]
     /\ closed' = IF taken THEN closed ELSE closed \cup {st}

(* A place of the session, then one of the server. Without the second the  *)
(* first is given back; in either case the stream is closed.               *)
Take(st) ==
  LET s == owner[st]
      taken == slots[s] < MaxFlows /\ serverSlots < ServerSlots
  IN /\ slots' = [slots EXCEPT ![s] = IF taken THEN @ + 1 ELSE @]
     /\ serverSlots' = IF taken THEN serverSlots + 1 ELSE serverSlots
     /\ phase' = [phase EXCEPT ![st] = IF taken THEN "asking" ELSE "done"]
     /\ closed' = IF taken THEN closed ELSE closed \cup {st}

Accept(st) ==
  /\ phase[st] = "offered" /\ session[owner[st]] = "open"
  /\ Take(st)
  /\ UNCHANGED <<session, owner, network, broken, copying, flow>>

(* The connection is lost, closed or revoked: accept fails, the loop ends  *)
(* and cancels the context of its handlers. Streams not accepted are gone. *)
SessionEnds(s) ==
  /\ session[s] = "open"
  /\ session' = [session EXCEPT ![s] = "closing"]
  /\ phase' = [st \in Stream |-> IF owner[st] = s /\ phase[st] \in {"none", "offered"}
                                 THEN "done" ELSE phase[st]]
  /\ UNCHANGED <<owner, network, places, closed, broken, copying, flow>>

Handled(st) == phase[st] \in {"asking", "serving"}
Open(st) == phase[st] = "serving" /\ st \notin closed

(* The loop's deferred calls wait for its handlers; only then is the       *)
(* session taken out of the registry.                                      *)
SessionReleased(s) ==
  /\ session[s] = "closing"
  /\ \A st \in Stream : owner[st] = s => ~Handled(st)
  /\ session' = [session EXCEPT ![s] = "gone"]
  /\ UNCHANGED <<owner, phase, network, places, closed, broken, copying, flow>>

-----------------------------------------------------------------------------
(* A handler.                                                              *)

Release(st) ==
  /\ slots' = [slots EXCEPT ![owner[st]] = @ - 1]
  /\ serverSlots' = serverSlots - 1

(* Every way out before the relay: the deadline of the request, a network  *)
(* it does not know, a destination that is denied or cannot be reached; a  *)
(* probe or an echo stream also ends here, after its own answer.           *)
Refuse(st) ==
  /\ phase[st] = "asking"
  /\ phase' = [phase EXCEPT ![st] = "done"]
  /\ closed' = closed \cup {st}
  /\ Release(st)
  /\ UNCHANGED <<session, owner, network, broken, copying, flow>>

Serve(st, n) ==
  /\ phase[st] = "asking" /\ st \notin closed
  /\ phase' = [phase EXCEPT ![st] = "serving"]
  /\ network' = [network EXCEPT ![st] = n]
  /\ copying' = [l \in Link |-> IF l[1] = st THEN "run" ELSE copying[l]]
  /\ UNCHANGED <<session, owner, places, closed, broken, flow>>

(* The stream is cut. Of what is on its way down any prefix still arrives, *)
(* as a write may have been cut between its frames; of what is on its way  *)
(* up, the first frames: none when it is the server that closes it.        *)
Break(st, up) ==
  /\ broken' = broken \cup {st}
  /\ \E down \in 0 .. Len(wire[<<st, "down">>]) :
       wire' = [wire EXCEPT ![<<st, "up">>] = SubSeq(@, 1, up),
                            ![<<st, "down">>] = SubSeq(@, 1, down)]
  /\ UNCHANGED <<sent, finished, received, ended>>

(* Slip: the relay does not watch the session's context.                 *)
CancelClosesRequestsOnly(st) ==
  /\ phase[st] = "asking" /\ session[owner[st]] # "open" /\ st \notin closed
  /\ closed' = closed \cup {st} /\ Break(st, 0)
  /\ UNCHANGED <<state, places, copying>>

(* context.AfterFunc of the handler and of the relay, once the session's   *)
(* context is cancelled.                                                   *)
CancelCloses(st) ==
  /\ Handled(st) /\ session[owner[st]] # "open" /\ st \notin closed
  /\ closed' = closed \cup {st} /\ Break(st, 0)
  /\ UNCHANGED <<state, places, copying>>

(* A read or write fails because the stream and the destination have been  *)
(* closed.                                                                 *)
CopyFails(l) ==
  /\ copying[l] = "run" /\ l[1] \in closed
  /\ copying' = [copying EXCEPT ![l] = "failed"]
  /\ UNCHANGED <<state, places, closed, broken, flow>>

(* It fails by itself: a reset, a lost network, a write to a stream that   *)
(* the client has closed, a frame that was cut in the middle or, for UDP,  *)
(* a minute without a packet. Both ends are closed for the other direction.*)
CopyBreaks(l) ==
  /\ copying[l] = "run" /\ l[1] \notin closed
  /\ copying' = [copying EXCEPT ![l] = "failed"]
  /\ closed' = closed \cup {l[1]} /\ Break(l[1], 0)
  /\ UNCHANGED <<state, places>>

(* MStream.Close at the client, or the loss of its connection: the stream  *)
(* is closed below the frames, and the handler is not told. Its reader     *)
(* comes to the end of what arrived; its writes are lost, or fail.         *)
ClientCloses(st) ==
  /\ st \in Talking /\ Open(st) /\ st \notin broken
  /\ \E up \in 0 .. Len(wire[<<st, "up">>]) : Break(st, up)
  /\ UNCHANGED <<state, places, closed, copying>>

(* Relay and serveUDPStream return when both of their goroutines have.     *)
Return(st) ==
  /\ phase[st] = "serving"
  /\ \A d \in Dir : copying[<<st, d>>] # "run"
  /\ phase' = [phase EXCEPT ![st] = "done"]
  /\ copying' = [l \in Link |-> IF l[1] = st THEN "off" ELSE copying[l]]
  /\ closed' = closed \cup {st}
  /\ Release(st)
  /\ UNCHANGED <<session, owner, network, broken, flow>>

-----------------------------------------------------------------------------
(* The data. MStream.Write frames what it is given, and an empty slice is  *)
(* no frame at all: the empty frame is the end of the stream.              *)

(* Slip: an empty slice is framed, which means the end.                  *)
MFrameEmptyToo(what, p) == IF what = "body" /\ p = Empty THEN <<Fin>> ELSE <<<<what, p>>>>
MFrame(what, p) == IF what = "body" /\ p = Empty THEN <<>> ELSE <<<<what, p>>>>

(* Slip: a packet is written twice.                                      *)
WrittenAgain(n, p) ==
  LET packet == (IF n = "udp" THEN MFrame("header", p) ELSE <<>>) \o MFrame("body", p)
  IN packet \o packet

(* A relay writes bytes; PacketStream writes a length and then the bytes.  *)
Written(n, p) ==
  (IF n = "udp" THEN MFrame("header", p) ELSE <<>>) \o MFrame("body", p)

(* The writer of a link that is still there: the client, or the handler's  *)
(* goroutine with what the destination sent.                               *)
Writing(l) ==
  /\ l[1] \in Talking /\ Open(l[1]) /\ l \notin finished
  /\ IF l[2] = "down" THEN copying[l] = "run" ELSE l[1] \notin broken

(* A relay never writes an empty slice. What the handler writes on a       *)
(* stream that the client has closed goes nowhere.                         *)
Write(l, p) ==
  /\ Writing(l) /\ l[1] \notin broken /\ p \notin Elements(sent[l])
  /\ network[l[1]] = "tcp" => p # Empty
  /\ sent' = [sent EXCEPT ![l] = Append(@, p)]
  /\ wire' = [wire EXCEPT ![l] = @ \o Written(network[l[1]], p)]
  /\ UNCHANGED <<state, places, closed, broken, copying, finished, received, ended>>

(* MStream.CloseWrite. The handler calls it at the end of what the         *)
(* destination sent; UDP has no such end.                                  *)
CloseWrite(l) ==
  /\ Writing(l) /\ network[l[1]] = "tcp"
  /\ finished' = finished \cup {l}
  /\ wire' = IF l[1] \in broken THEN wire ELSE [wire EXCEPT ![l] = Append(@, Fin)]
  /\ copying' = IF l[2] = "down" THEN [copying EXCEPT ![l] = "ended"] ELSE copying
  /\ UNCHANGED <<state, places, closed, broken, sent, received, ended>>

(* The whole first packet of a wire: how many frames it takes, 0 if it is  *)
(* not complete. ReadPacket reads the body that its header announces.      *)
Taken(l) ==
  IF network[l[1]] # "udp" \/ wire[l][1] = <<"header", Empty>> THEN 1
  ELSE IF Len(wire[l]) >= 2 THEN 2 ELSE 0

(* The client reads on after the handler has returned: what was written    *)
(* before the stream was closed still arrives.                             *)
Reading(l) ==
  /\ l[1] \in Talking /\ network[l[1]] # "none" /\ l \notin ended
  /\ l[2] = "up" => copying[l] = "run" /\ Open(l[1])

Read(l) ==
  /\ Reading(l) /\ wire[l] # <<>> /\ wire[l][1] # Fin /\ Taken(l) > 0
  /\ received' = [received EXCEPT ![l] = Append(@, wire[l][1][2])]
  /\ wire' = [wire EXCEPT ![l] = SubSeq(@, Taken(l) + 1, Len(@))]
  /\ UNCHANGED <<state, places, closed, broken, copying, sent, finished, ended>>

(* Slip: the end of one direction closes both.                           *)
EndClosingAll(l) ==
  /\ closed' = closed \cup {l[1]}
  /\ copying' = IF l[2] = "up" THEN [copying EXCEPT ![l] = "ended"] ELSE copying

(* The end of the request half-closes the destination and leaves the       *)
(* response alone; a UDP flow is over.                                     *)
End(l) ==
  /\ closed' = IF network[l[1]] = "udp" THEN closed \cup {l[1]} ELSE closed
  /\ copying' = IF l[2] = "up" THEN [copying EXCEPT ![l] = "ended"] ELSE copying

(* The empty frame is the end; so is, without any frame, the end of what   *)
(* arrives on a stream that was cut or closed at the other end: ReadPacket *)
(* gives the same io.EOF, before a header and between a header and a body. *)
AtEnd(l) ==
  LET cut == l[1] \in broken \cup closed
  IN IF wire[l] = <<>> THEN cut ELSE wire[l][1] = Fin \/ (Taken(l) = 0 /\ cut)

ReadEnd(l) ==
  /\ Reading(l) /\ AtEnd(l)
  /\ ended' = ended \cup {l}
  /\ wire' = [wire EXCEPT ![l] = <<>>]
  /\ End(l)
  /\ UNCHANGED <<state, places, broken, sent, finished, received>>

Next ==
  \/ \E st \in Stream : \/ Offer(st) \/ Accept(st) \/ Refuse(st)
                        \/ Serve(st, "tcp") \/ Serve(st, "udp")
                        \/ CancelCloses(st) \/ Return(st) \/ ClientCloses(st)
  \/ \E s \in Session : SessionEnds(s) \/ SessionReleased(s)
  \/ \E l \in Link : \/ CopyFails(l) \/ CopyBreaks(l) \/ CloseWrite(l) \/ Read(l) \/ ReadEnd(l)
                     \/ \E p \in Packet : Write(l, p)

(* Reads and writes of a closed stream fail; requests have a deadline;     *)
(* callbacks, goroutines and deferred calls run. Nothing makes the client  *)
(* or the destination go on.                                               *)
Fairness ==
  /\ \A st \in Stream : WF_vars(Refuse(st)) /\ WF_vars(CancelCloses(st)) /\ WF_vars(Return(st))
  /\ \A l \in Link : WF_vars(CopyFails(l))
  /\ \A s \in Session : WF_vars(SessionReleased(s))

Spec == Init /\ [][Next]_vars /\ Fairness

-----------------------------------------------------------------------------
(* Properties.                                                             *)

(* Every taken place belongs to a handler that is running, so neither a    *)
(* full server nor a failed relay eats the places of a session for good.   *)
PlacesAreHeldByHandlers ==
  /\ \A s \in Session : slots[s] = Cardinality({st \in Stream : owner[st] = s /\ Handled(st)})
  /\ serverSlots = Cardinality({st \in Stream : Handled(st)})

(* A relay that nothing broke is closed only when it has carried it all:   *)
(* the end of the request neither overtakes its data nor cuts the response.*)
RelayIsComplete ==
  \A st \in closed \ broken : network[st] = "tcp" =>
    received[<<st, "up">>] = sent[<<st, "up">>] /\ {<<st, d>> : d \in Dir} \subseteq finished

(* A reader sees the end of a stream that nothing cut only if its writer   *)
(* half-closed it, and after all it wrote: neither an empty datagram nor   *)
(* the server's own close of a stream is taken for the end too soon. (The  *)
(* end of a stream that was cut looks the same to its reader.)             *)
EndIsMeant ==
  \A l \in ended : l[1] \notin broken => l \in finished /\ received[l] = sent[l]

(* A datagram comes out whole, in order and after those before it, through *)
(* half-read headers, closed streams and lost sessions.                    *)
OrderIsKept ==
  \A l \in Link : \E n \in 0..Len(sent[l]) : received[l] = SubSeq(sent[l], 1, n)

(* What a reader has seen, and where it takes the end to be, is right on   *)
(* every link at any time, however the frames were cut and lost.           *)
StreamInv == TypeOK /\ EndIsMeant /\ OrderIsKept

(* UDP over a stream keeps the promise of a UDP flow.                      *)
Udp == INSTANCE UdpChannel WITH
         Links <- Link, Packets <- Packet,
         sent <- [l \in Link |-> Elements(sent[l])], received <- received
UdpPromise == Udp!Spec

(* A session that has lost its connection gets rid of its handlers, which  *)
(* may be in a request, a relay or a write, and leaves the registry.       *)
SessionIsReleased == \A s \in Session : session[s] = "closing" ~> session[s] = "gone"
=============================================================================
