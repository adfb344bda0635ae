----------------------------- MODULE DatagramMux -----------------------------
(***************************************************************************)
(* internal/gateway/datagram.go: UDP flows over the DATAGRAM frames of one *)
(* QUIC connection, seen from both ends.  A reliable control stream opens  *)
(* and closes each flow; packets are cut into fragments, queued without    *)
(* waiting, lost and reordered on the way, and put together again in a few *)
(* short-lived assemblies.                                                 *)
(*                                                                         *)
(* A packet is its number on its flow and the number of its fragments.     *)
(* Time shows in three places: a queued fragment may be too old to send,   *)
(* an assembly may have outlived fragmentLifetime, and a sequence number   *)
(* returns only when what is left of its last use is gone or that old      *)
(* (2^32 packets of one flow take longer than half a second).              *)
(***************************************************************************)
EXTENDS Naturals, Sequences, SequencesExt, FiniteSets

CONSTANTS
  Flows,       \* control streams; a stream ID is never used again
  MaxFlows,    \* flows a mux registers at a time
  Totals,      \* fragments a packet may need, at most 66
  SeqSpace,    \* sequence numbers, 2^32 in the code
  SendCap,     \* places in the send queue of a mux, 32
  RecvCap,     \* packets that wait to be read, 32
  PartsCap,    \* assemblies of a flow, 8
  MaxWrites,   \* bound on the packets that each end writes on a flow
  Garbled      \* a packet that is not one of those sent

Ends == {"client", "server"}

ASSUME MuxAssumption ==
  /\ Totals \subseteq 1 .. 66
  /\ {MaxFlows, SeqSpace, SendCap, RecvCap, PartsCap} \subseteq Nat \ {0}
  /\ MaxWrites \in [Ends -> Nat]

Peer(e) == IF e = "client" THEN "server" ELSE "client"
Links == Ends \X Flows

Most == Max(Range(MaxWrites))
Packets == [n : 1 .. Most, total : Totals]
Fragments == {x \in [flow : Flows, packet : Packets, index : 0 .. 65] :
                x.index < x.packet.total}
Seq32(packet) == packet.n % SeqSpace

VARIABLES
  up,          \* the connection is not closed
  flows,       \* DatagramMux.flows and DatagramFlow.done, at each end
  control,     \* the control stream: see the steps from Dial to Close
  asked,       \* requests the server is working on
  written,     \* DatagramFlow.seq, before it wraps
  writing,     \* the fragments Write has still to queue
  send,        \* DatagramMux.send
  net,         \* the datagrams an end has sent and its peer has not received
  parts,       \* DatagramFlow.parts, of the packets written at an end
  unread,      \* the length of DatagramFlow.recv
  sent,        \* all packets written
  received     \* all packets put into recv

wire == <<written, writing, send, net>>
tail == <<parts, unread, received>>
vars == <<up, flows, control, asked, wire, sent, tail>>

(***************************************************************************)
(* An assembly maps each index that has come to the packet the piece was   *)
(* cut from: whether its pieces belong together is what has to be shown.   *)
(***************************************************************************)
TypeOK ==
  /\ up \in BOOLEAN
  /\ flows \in [Links -> {"never", "open", "closed"}]
  /\ control \in [Flows -> {"none", "requested", "replied", "live", "closed"}]
  /\ asked \subseteq Flows
  /\ \A l \in Links : written[l] \in 0 .. MaxWrites[l[1]]
  /\ \A l \in Links : ToSet(writing[l]) \subseteq Fragments
  /\ \A e \in Ends : Len(send[e]) <= SendCap /\ ToSet(send[e]) \subseteq Fragments
  /\ \A e \in Ends : net[e] \subseteq Fragments
  /\ \A l \in Links : Cardinality(parts[l]) <= PartsCap /\ unread[l] \in 0 .. RecvCap
  /\ \A l \in Links : \A a \in parts[l] :
       a.total \in Totals /\ DOMAIN a.pieces \subseteq 0 .. a.total - 1

Init ==
  /\ up = TRUE
  /\ flows = [l \in Links |-> "never"]
  /\ control = [f \in Flows |-> "none"]
  /\ asked = {}
  /\ written = [l \in Links |-> 0]
  /\ writing = [l \in Links |-> <<>>]
  /\ send = [e \in Ends |-> <<>>]
  /\ net = [e \in Ends |-> {}]
  /\ parts = [l \in Links |-> {}]
  /\ unread = [l \in Links |-> 0]
  /\ sent = [l \in Links |-> {}]
  /\ received = [l \in Links |-> <<>>]

-----------------------------------------------------------------------------
(* The control stream: DialUDP on the client, serveUDP on the server.      *)

Registered(e) == {f \in Flows : flows[<<e, f>>] = "open"}
CanRegister(e) == up /\ Cardinality(Registered(e)) < MaxFlows

\* DialUDP registers the flow and only then asks the server for it.
Dial(f) ==
  /\ control[f] = "none"
  /\ CanRegister("client")
  /\ flows' = [flows EXCEPT ![<<"client", f>>] = "open"]
  /\ control' = [control EXCEPT ![f] = "requested"]
  /\ asked' = asked \cup {f}
  /\ UNCHANGED <<up, wire, sent, tail>>

\* Unless the client has closed the stream while the server was busy.
Reply(f) ==
  /\ asked' = asked \ {f}
  /\ control' = [control EXCEPT ![f] = IF @ = "requested" THEN "replied" ELSE @]
  /\ UNCHANGED <<up, wire, sent, tail>>

\* Slip: the server answers and leaves the registration for later.
ReplyOnly(f) == f \in asked /\ CanRegister("server") /\ Reply(f) /\ UNCHANGED flows

\* serveUDP registers the flow and then replies.
Serve(f) ==
  /\ f \in asked
  /\ CanRegister("server")
  /\ flows' = [flows EXCEPT ![<<"server", f>>] = "open"]
  /\ Reply(f)

\* A destination denied or unreachable, no place left, a timeout.
Deny(f) ==
  /\ f \in asked
  /\ asked' = asked \ {f}
  /\ control' = [control EXCEPT ![f] = "closed"]
  /\ UNCHANGED <<up, flows, wire, sent, tail>>

\* The reply arrives and DialUDP returns the flow.
Dialed(f) ==
  /\ control[f] = "replied"
  /\ flows[<<"client", f>>] = "open"
  /\ control' = [control EXCEPT ![f] = "live"]
  /\ UNCHANGED <<up, flows, asked, wire, sent, tail>>

\* Slip: an end closes its flow and leaves the control stream open.
CloseKeepsControl(e, f) ==
  /\ flows[<<e, f>>] = "open"
  /\ flows' = [flows EXCEPT ![<<e, f>>] = "closed"]
  /\ UNCHANGED <<up, control, asked, wire, sent, tail>>

\* DatagramFlow.Close, by the user of the flow or by whoever watches the
\* control stream and the connection; it closes the control stream.
Close(e, f) ==
  /\ flows[<<e, f>>] = "open"
  /\ flows' = [flows EXCEPT ![<<e, f>>] = "closed"]
  /\ control' = [control EXCEPT ![f] = "closed"]
  /\ UNCHANGED <<up, asked, wire, sent, tail>>

\* The reader of the control stream, or the dial that waits for its answer,
\* sees it end.
ControlEnds(e, f) == control[f] = "closed" /\ Close(e, f)

ConnectionEnds ==
  /\ up
  /\ up' = FALSE
  /\ control' = [f \in Flows |-> IF control[f] = "none" THEN "none" ELSE "closed"]
  /\ UNCHANGED <<flows, asked, wire, sent, tail>>

-----------------------------------------------------------------------------
(* The sending half.                                                       *)

\* DialUDP has returned, or serveUDP has replied.
MayWrite(e, f) ==
  /\ up
  /\ flows[<<e, f>>] = "open"
  /\ IF e = "client" THEN control[f] = "live" ELSE control[f] \in {"replied", "live"}

OfFlow(f, xs) == {x \in xs : x.flow = f}

\* What is left of the last use of a sequence number when it returns.
SeqIsFree(l, seq) ==
  /\ \A x \in OfFlow(l[2], ToSet(send[l[1]]) \cup net[l[1]]) : Seq32(x.packet) # seq
  /\ \A a \in parts[l] : a.seq = seq => a.old

Write(l, total) ==
  LET packet == [n |-> written[l] + 1, total |-> total]
  IN  /\ MayWrite(l[1], l[2])
      /\ writing[l] = <<>>
      /\ written[l] < MaxWrites[l[1]]
      /\ SeqIsFree(l, Seq32(packet))
      /\ written' = [written EXCEPT ![l] = @ + 1]
      /\ writing' = [writing EXCEPT ![l] =
           [i \in 1 .. total |-> [flow |-> l[2], packet |-> packet, index |-> i - 1]]]
      /\ sent' = [sent EXCEPT ![l] = @ \cup {packet}]
      /\ UNCHANGED <<up, flows, control, asked, send, net, tail>>

\* One turn of the loop of Write: a full queue drops the rest of the packet.
Enqueue(l) ==
  /\ writing[l] # <<>>
  /\ IF Len(send[l[1]]) < SendCap
     THEN /\ send' = [send EXCEPT ![l[1]] = Append(@, Head(writing[l]))]
          /\ writing' = [writing EXCEPT ![l] = Tail(@)]
     ELSE writing' = [writing EXCEPT ![l] = <<>>] /\ UNCHANGED send
  /\ UNCHANGED <<up, flows, control, asked, written, net, sent, tail>>

\* sender: SendDatagram, unless the flow is closed.
Transmit(e) ==
  /\ up
  /\ send[e] # <<>>
  /\ flows[<<e, Head(send[e]).flow>>] = "open"
  /\ send' = [send EXCEPT ![e] = Tail(@)]
  /\ net' = [net EXCEPT ![e] = @ \cup {Head(send[e])}]
  /\ UNCHANGED <<up, flows, control, asked, written, writing, sent, tail>>

\* sender: the flow or the connection is closed, the fragment is too old, or
\* SendDatagram fails.
Discard(e) ==
  /\ send[e] # <<>>
  /\ send' = [send EXCEPT ![e] = Tail(@)]
  /\ UNCHANGED <<up, flows, control, asked, written, writing, net, sent, tail>>

Lose(e, x) ==
  /\ x \in net[e]
  /\ net' = [net EXCEPT ![e] = @ \ {x}]
  /\ UNCHANGED <<up, flows, control, asked, written, writing, send, sent, tail>>

-----------------------------------------------------------------------------
(* The receiving half, for the packets written at end l[1] of flow l[2].   *)

\* The packet that an assembly makes, if its pieces are those of one.
Joined(total, pieces) ==
  IF /\ DOMAIN pieces = 0 .. total - 1
     /\ \E p \in Packets : p.total = total /\ \A i \in DOMAIN pieces : pieces[i] = p
  THEN pieces[0] ELSE Garbled

\* deliver: a full recv drops the packet.
Deliver(l, packet) ==
  IF unread[l] < RecvCap
  THEN /\ unread' = [unread EXCEPT ![l] = @ + 1]
       /\ received' = [received EXCEPT ![l] = Append(@, packet)]
  ELSE UNCHANGED <<unread, received>>

\* The assemblies that are left when accept has deleted the old ones.
Live(l) == {a \in parts[l] : ~a.old}

\* The assembly of the fragment's packet: the one with its sequence number,
\* or a new one if there is place.
Slot(l, x) ==
  LET mine == {a \in Live(l) : a.seq = Seq32(x.packet)}
  IN  IF mine # {} THEN mine
      ELSE IF Cardinality(Live(l)) < PartsCap
      THEN {[seq |-> Seq32(x.packet), total |-> x.packet.total, old |-> FALSE,
             pieces |-> <<>>]}
      ELSE {}

WithPiece(a, x) ==
  [a EXCEPT !.pieces = [i \in DOMAIN a.pieces \cup {x.index} |->
                          IF i = x.index THEN x.packet ELSE a.pieces[i]]]

\* Slip: off by one.
AlmostComplete(a) == Cardinality(DOMAIN a.pieces) >= a.total - 1

Complete(a) == DOMAIN a.pieces = 0 .. a.total - 1

\* DatagramFlow.accept
Accept(l, x) ==
  IF x.packet.total = 1
  THEN Deliver(l, x.packet) /\ UNCHANGED parts
  ELSE \/ /\ Slot(l, x) = {}
          /\ parts' = [parts EXCEPT ![l] = Live(l)]
          /\ UNCHANGED <<unread, received>>
       \/ \E a \in Slot(l, x) :
            \/ /\ a.total # x.packet.total \/ x.index \in DOMAIN a.pieces
               /\ parts' = [parts EXCEPT ![l] = Live(l)]
               /\ UNCHANGED <<unread, received>>
            \/ /\ a.total = x.packet.total /\ x.index \notin DOMAIN a.pieces
               /\ LET b == WithPiece(a, x)
                  IN  IF Complete(b)
                      THEN /\ parts' = [parts EXCEPT ![l] = Live(l) \ {a}]
                           /\ Deliver(l, Joined(b.total, b.pieces))
                      ELSE /\ parts' = [parts EXCEPT ![l] = (Live(l) \ {a}) \cup {b}]
                           /\ UNCHANGED <<unread, received>>

\* receive: a datagram of a flow this end does not have is dropped.  QUIC hands
\* over no datagram twice, and may hand one over when the connection is closed.
Receive(e, x) ==
  /\ x \in net[e]
  /\ net' = [net EXCEPT ![e] = @ \ {x}]
  /\ IF flows[<<Peer(e), x.flow>>] = "open" THEN Accept(<<e, x.flow>>, x) ELSE UNCHANGED tail
  /\ UNCHANGED <<up, flows, control, asked, written, writing, send, sent>>

\* Even of a closed flow: the select of Read takes any case that is ready.
Read(l) ==
  /\ unread[l] > 0
  /\ unread' = [unread EXCEPT ![l] = @ - 1]
  /\ UNCHANGED <<up, flows, control, asked, wire, sent, parts, received>>

\* fragmentLifetime has passed since the first piece of an assembly.
Age(l) ==
  /\ \E a \in parts[l] :
       ~a.old /\ parts' = [parts EXCEPT ![l] = (@ \ {a}) \cup {[a EXCEPT !.old = TRUE]}]
  /\ UNCHANGED <<up, flows, control, asked, wire, sent, unread, received>>

-----------------------------------------------------------------------------

Next ==
  \/ \E f \in Flows : Dial(f) \/ Serve(f) \/ Deny(f) \/ Dialed(f)
  \/ \E e \in Ends, f \in Flows : Close(e, f)
  \/ ConnectionEnds
  \/ \E l \in Links : \/ \E total \in Totals : Write(l, total)
                      \/ Enqueue(l) \/ Read(l) \/ Age(l)
  \/ \E e \in Ends : \/ Transmit(e) \/ Discard(e)
                     \/ \E x \in net[e] : Lose(e, x) \/ Receive(e, x)

Safe == Init /\ [][Next]_vars

(***************************************************************************)
(* Both ends watch the control stream, and so does the one that dials.     *)
(***************************************************************************)
Spec ==
  /\ Safe
  /\ \A e \in Ends, f \in Flows : WF_vars(ControlEnds(e, f))

-----------------------------------------------------------------------------

\* The flows of the mux are a UDP channel: each packet comes out whole and at
\* most once, and only if it was written at the other end of that flow, even
\* when fragments are lost or late and sequence numbers return.
Channel == INSTANCE UdpChannel
IsUdpChannel == Channel!Spec

\* An assembly never holds pieces of two packets.
PiecesBelongTogether ==
  \A l \in Links : \A a \in parts[l] : \A i, j \in DOMAIN a.pieces :
    a.pieces[i] = a.pieces[j]

\* No datagram can overtake the registration of its flow: one that finds no
\* flow at the other end finds it closed.
NoEarlyDatagram ==
  \A e \in Ends : \A x \in net[e] : flows[<<Peer(e), x.flow>>] # "never"

\* Whatever is lost, late or dropped: the queues, assemblies and unread packets
\* stay within their limits, assemblies are not mixed, and no datagram is early.
MuxInv == TypeOK /\ PiecesBelongTogether /\ NoEarlyDatagram


\* The control stream lives exactly as long as the flow: what one end closes,
\* or the server denies, does not stay registered at the other.
ClosedAtBothEnds ==
  \A e \in Ends, f \in Flows :
    (control[f] = "closed" \/ flows[<<Peer(e), f>>] = "closed") ~> flows[<<e, f>>] # "open"
=============================================================================
