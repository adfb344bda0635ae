-------------------------- MODULE DatagramMuxProofs --------------------------
(***************************************************************************)
(* UDP over QUIC datagrams keeps its promise, whatever is lost, late or    *)
(* dropped: for any number of flows and packets, any sequence space and    *)
(* any size of the queues and of the tables of assemblies.                 *)
(***************************************************************************)
EXTENDS DatagramMux, FiniteSetTheorems, TLAPS

(* The fragments of a link that may still arrive.                          *)
OnWay(l) == ToSet(writing[l]) \cup OfFlow(l[2], ToSet(send[l[1]]) \cup net[l[1]])

(* The shape of the state that TypeOK leaves open.                         *)
IsAssembly(a) ==
  /\ a \in [seq : {a.seq}, total : Totals \ {1}, old : BOOLEAN, pieces : {a.pieces}]
  /\ DOMAIN a.pieces \subseteq 0 .. a.total - 1
  /\ a.pieces \in [DOMAIN a.pieces -> Packets]

Shapes ==
  /\ written \in [Links -> Nat] /\ unread \in [Links -> Nat]
  /\ writing \in [Links -> Seq(Fragments)]
  /\ send \in [Ends -> Seq(Fragments)] /\ net \in [Ends -> SUBSET Fragments]
  /\ DOMAIN parts = Links /\ parts = [l \in Links |-> parts[l]]
  /\ \A l \in Links : IsFiniteSet(parts[l]) /\ \A a \in parts[l] : IsAssembly(a)
  /\ sent \in [Links -> SUBSET Packets] /\ received \in [Links -> Seq(Packets)]

(* A fragment is in one place: to be queued, in the queue, or in the       *)
(* network, and there once.                                                *)
FragmentsAreOnce ==
  /\ \A e \in Ends : IsInjective(send[e]) /\ ToSet(send[e]) \cap net[e] = {}
  /\ \A l \in Links :
       /\ IsInjective(writing[l])
       /\ ToSet(writing[l]) \cap (ToSet(send[l[1]]) \cup net[l[1]]) = {}
       /\ \A x \in ToSet(writing[l]) : x.flow = l[2]

(* The client has a flow first, and before anything is written on it the   *)
(* server has it, too.                                                     *)
FlowsAreKnown ==
  /\ \A f \in Flows :
       f \in asked \/ control[f] # "none" \/ flows[<<"server", f>>] # "never" =>
         flows[<<"client", f>>] # "never"
  /\ \A f \in Flows : control[f] \in {"replied", "live"} => flows[<<"server", f>>] # "never"
  /\ \A l \in Links : OnWay(l) # {} => flows[<<Peer(l[1]), l[2]>>] # "never"

(* What may still arrive was sent; one sequence number stands for one      *)
(* packet, in the fragments on the way and in an assembly that is not old. *)
SequenceIsClear(l) ==
  /\ \A p \in sent[l] : p.n <= written[l]
  /\ \A x \in OnWay(l) : x.packet \in sent[l]
  /\ \A x, y \in OnWay(l) : Seq32(x.packet) = Seq32(y.packet) => x.packet = y.packet
  /\ \A a \in Live(l), x \in OnWay(l) : a.seq = Seq32(x.packet) =>
       \A i \in DOMAIN a.pieces : a.pieces[i] = x.packet

(* An assembly has pieces of one packet, which are not on the way any      *)
(* more; it is the only one with its sequence number.                      *)
AssembliesAreSound(l) ==
  /\ \A a, b \in parts[l] : a.seq = b.seq => a = b
  /\ \A a \in parts[l] : \A i \in DOMAIN a.pieces :
       /\ a.pieces[i] \in sent[l]
       /\ Seq32(a.pieces[i]) = a.seq /\ a.pieces[i].total = a.total
       /\ \A j \in DOMAIN a.pieces : a.pieces[i] = a.pieces[j]
       /\ \A x \in OnWay(l) : x.packet = a.pieces[i] => x.index # i

(* Of a packet that was received nothing is left.                          *)
ReceivedIsGone(l) ==
  \A p \in ToSet(received[l]) :
    /\ p \in sent[l]
    /\ \A x \in OnWay(l) : x.packet # p
    /\ \A a \in parts[l] : \A i \in DOMAIN a.pieces : a.pieces[i] # p

(* The inductive invariant.                                                *)
MuxIInv ==
  /\ TypeOK /\ Shapes /\ FragmentsAreOnce /\ FlowsAreKnown
  /\ \A l \in Links : SequenceIsClear(l) /\ AssembliesAreSound(l) /\ ReceivedIsGone(l)

-----------------------------------------------------------------------------
(* Lemmas on the operators of the model.                                   *)

\* A link is an end and a flow.
LEMMA LinkParts ==
  /\ \A l \in Links : l[1] \in Ends /\ l[2] \in Flows /\ l = <<l[1], l[2]>>
  /\ \A e \in Ends, f \in Flows :
       <<e, f>> \in Links /\ <<e, f>>[1] = e /\ <<e, f>>[2] = f
  /\ \A e \in Ends : Peer(e) \in Ends
  BY DEF Links, Ends, Peer

\* The bounds are what the code has: numbers, and none of them is 0.
LEMMA Bounds ==
  /\ MaxFlows \in Nat /\ SeqSpace \in Nat \ {0} /\ SendCap \in Nat \ {0}
  /\ RecvCap \in Nat /\ PartsCap \in Nat
  /\ \A e \in Ends : MaxWrites[e] \in Nat
  /\ \A t \in Totals : t \in Nat /\ 1 <= t /\ t <= 66
  BY MuxAssumption

\* No end writes more packets than the packets there are.
LEMMA MostIsMost == Most \in Nat /\ \A e \in Ends : MaxWrites[e] <= Most
<1> DEFINE c == MaxWrites["client"]
           s == MaxWrites["server"]
<1>1. c \in Nat /\ s \in Nat /\ MaxWrites \in [Ends -> Nat]
  BY MuxAssumption DEF Ends
<1>2. Range(MaxWrites) = {c, s}
  BY <1>1 DEF Range, Ends
<1> HIDE DEF c, s
<1>3. \E x \in {c, s} : \A y \in {c, s} : x >= y
  BY <1>1
<1>4. Max({c, s}) \in {c, s} /\ \A y \in {c, s} : Max({c, s}) >= y
  BY <1>3 DEF Max
<1>5. Most \in {c, s} /\ Most >= c /\ Most >= s
  BY <1>2, <1>4 DEF Most
<1> QED BY <1>1, <1>5 DEF Ends, c, s

\* The elements of a sequence when one is taken from it or added to it.
LEMMA TailIs ==
  ASSUME NEW S, NEW s \in Seq(S), s # <<>>
  PROVE  /\ Head(s) \in S /\ Tail(s) \in Seq(S) /\ Len(Tail(s)) <= Len(s)
         /\ ToSet(s) = {Head(s)} \cup ToSet(Tail(s))
         /\ IsInjective(s) => IsInjective(Tail(s)) /\ Head(s) \notin ToSet(Tail(s))
<1>1. /\ Head(s) = s[1] /\ 1 \in DOMAIN s /\ Tail(s) \in Seq(S)
      /\ Len(s) \in Nat /\ Len(Tail(s)) = Len(s) - 1
      /\ DOMAIN s = 1 .. Len(s) /\ DOMAIN Tail(s) = 1 .. (Len(s) - 1)
      /\ \A i \in DOMAIN Tail(s) : Tail(s)[i] = s[i + 1]
  OBVIOUS
<1>2. ASSUME NEW i \in DOMAIN s, i # 1
      PROVE  \E j \in DOMAIN Tail(s) : s[i] = Tail(s)[j]
  <2>1. i - 1 \in 1 .. (Len(s) - 1) /\ (i - 1) + 1 = i
    BY <1>1, <1>2
  <2>2. Tail(s)[i - 1] = s[(i - 1) + 1]
    BY <1>1, <2>1
  <2> QED BY <1>1, <2>1, <2>2
<1>3. ToSet(s) = {Head(s)} \cup ToSet(Tail(s))
  <2>1. \A i \in DOMAIN Tail(s) : i + 1 \in DOMAIN s
    BY <1>1
  <2>2. ToSet(s) \subseteq {Head(s)} \cup ToSet(Tail(s))
    BY <1>1, <1>2 DEF ToSet
  <2>3. {Head(s)} \cup ToSet(Tail(s)) \subseteq ToSet(s)
    BY <1>1, <2>1 DEF ToSet
  <2> QED BY <2>2, <2>3
<1>4. IsInjective(s) => IsInjective(Tail(s))
  BY <1>1 DEF IsInjective
<1>5. IsInjective(s) => Head(s) \notin ToSet(Tail(s))
  BY <1>1 DEF IsInjective, ToSet
<1> QED BY <1>1, <1>3, <1>4, <1>5

LEMMA AppendIs ==
  ASSUME NEW S, NEW s \in Seq(S), NEW x \in S
  PROVE  /\ Append(s, x) \in Seq(S) /\ Len(Append(s, x)) = Len(s) + 1
         /\ ToSet(Append(s, x)) = ToSet(s) \cup {x}
         /\ IsInjective(s) /\ x \notin ToSet(s) => IsInjective(Append(s, x))
<1>1. /\ Append(s, x) \in Seq(S) /\ Len(Append(s, x)) = Len(s) + 1 /\ Len(s) \in Nat
      /\ DOMAIN s = 1 .. Len(s) /\ DOMAIN Append(s, x) = 1 .. (Len(s) + 1)
      /\ \A i \in DOMAIN s : Append(s, x)[i] = s[i]
      /\ Append(s, x)[Len(s) + 1] = x
  OBVIOUS
<1>2. \A i \in DOMAIN Append(s, x) : i \in DOMAIN s \/ i = Len(s) + 1
  BY <1>1
<1>3. ToSet(Append(s, x)) = ToSet(s) \cup {x}
  BY <1>1, <1>2 DEF ToSet
<1>4. IsInjective(s) /\ x \notin ToSet(s) => IsInjective(Append(s, x))
  BY <1>1, <1>2 DEF IsInjective, ToSet
<1> QED BY <1>1, <1>3, <1>4

LEMMA EmptyIs == /\ ToSet(<<>>) = {} /\ IsInjective(<<>>)
                 /\ \A S : <<>> \in Seq(S)
  BY DEF ToSet, IsInjective

LEMMA SeqElements == ASSUME NEW S, NEW s \in Seq(S) PROVE ToSet(s) \subseteq S
  BY DEF ToSet

\* A fragment is its flow, its packet and its place in it.
LEMMA FragmentIs ==
  /\ \A x \in Fragments : /\ x.flow \in Flows /\ x.packet \in Packets
                          /\ x.index \in Nat /\ x.index < x.packet.total
                          /\ x.packet.total \in Totals
  /\ \A x, y \in Fragments :
       x.flow = y.flow /\ x.packet = y.packet /\ x.index = y.index => x = y
  BY DEF Fragments, Packets

-----------------------------------------------------------------------------
(* Links to which nothing new is given.                                    *)

\* The soundness of one link.
LinkIsSound(l) == SequenceIsClear(l) /\ AssembliesAreSound(l) /\ ReceivedIsGone(l)

\* Fragments are lost, dropped, or go on; assemblies are dropped.
LEMMA LinkShrinks ==
  ASSUME NEW l, LinkIsSound(l), OnWay(l)' \subseteq OnWay(l),
         parts'[l] \subseteq parts[l], sent'[l] = sent[l], received'[l] = received[l],
         written'[l] = written[l]
  PROVE  LinkIsSound(l)'
<1>1. Live(l)' \subseteq Live(l)
  BY DEF Live
<1>2. SequenceIsClear(l)'
  BY <1>1 DEF LinkIsSound, SequenceIsClear
<1>3. AssembliesAreSound(l)'
  BY DEF LinkIsSound, AssembliesAreSound
<1>4. ReceivedIsGone(l)'
  BY DEF LinkIsSound, ReceivedIsGone
<1> QED BY <1>2, <1>3, <1>4 DEF LinkIsSound

\* The control stream: nothing is sent or received.
LEMMA ControlKeeps ==
  ASSUME MuxIInv, UNCHANGED <<wire, sent, tail>>,
         up' \in BOOLEAN,
         flows' \in [Links -> {"never", "open", "closed"}],
         control' \in [Flows -> {"none", "requested", "replied", "live", "closed"}],
         asked' \subseteq Flows,
         \A l \in Links : flows[l] # "never" => flows'[l] # "never",
         \A f \in Flows :
           f \in asked' \/ control'[f] # "none" \/ flows'[<<"server", f>>] # "never" =>
             flows'[<<"client", f>>] # "never",
         \A f \in Flows : control'[f] \in {"replied", "live"} => flows'[<<"server", f>>] # "never"
  PROVE  MuxIInv'
<1> USE DEF MuxIInv, wire, tail
<1>1. TypeOK' /\ Shapes'
  BY DEF TypeOK, Shapes
<1>2. FragmentsAreOnce'
  BY DEF FragmentsAreOnce
<1>3. \A l \in Links : OnWay(l)' = OnWay(l)
  BY DEF OnWay
<1>4. FlowsAreKnown'
  BY <1>3, LinkParts DEF FlowsAreKnown
<1>5. \A l \in Links : LinkIsSound(l)'
  BY <1>3, LinkShrinks DEF LinkIsSound
<1> QED BY <1>1, <1>2, <1>4, <1>5 DEF LinkIsSound

\* The wire: fragments go on, or are lost.
LEMMA WireKeeps ==
  ASSUME MuxIInv, UNCHANGED <<up, flows, control, asked, written, sent, tail>>,
         writing' \in [Links -> Seq(Fragments)],
         send' \in [Ends -> Seq(Fragments)], net' \in [Ends -> SUBSET Fragments],
         \A e \in Ends : Len(send'[e]) <= SendCap,
         FragmentsAreOnce',
         \A l \in Links : OnWay(l)' \subseteq OnWay(l)
  PROVE  MuxIInv'
<1> USE DEF MuxIInv, tail
<1>1. TypeOK'
  <2>1. \A l \in Links : ToSet(writing'[l]) \subseteq Fragments
    BY SeqElements
  <2>2. \A e \in Ends : ToSet(send'[e]) \subseteq Fragments /\ net'[e] \subseteq Fragments
    BY SeqElements
  <2> QED BY <2>1, <2>2 DEF TypeOK
<1>2. Shapes'
  BY DEF Shapes
<1>3. FlowsAreKnown'
  BY LinkParts DEF FlowsAreKnown
<1>4. \A l \in Links : LinkIsSound(l)'
  BY LinkShrinks DEF LinkIsSound
<1> QED BY <1>1, <1>2, <1>3, <1>4 DEF LinkIsSound

-----------------------------------------------------------------------------
(* The control stream.                                                     *)

LEMMA DialKeeps == ASSUME MuxIInv, NEW f \in Flows, Dial(f) PROVE MuxIInv'
<1>1. /\ flows' = [flows EXCEPT ![<<"client", f>>] = "open"]
      /\ control' = [control EXCEPT ![f] = "requested"] /\ asked' = asked \cup {f}
      /\ UNCHANGED <<up, wire, sent, tail>>
  BY DEF Dial
<1>2. /\ up \in BOOLEAN /\ flows \in [Links -> {"never", "open", "closed"}]
      /\ control \in [Flows -> {"none", "requested", "replied", "live", "closed"}]
      /\ asked \subseteq Flows
  BY DEF MuxIInv, TypeOK
<1>3. /\ <<"client", f>> \in Links /\ \A g \in Flows : <<"server", g>> \in Links
      /\ \A g \in Flows : <<"server", g>> # <<"client", f>> /\ <<"client", g>> \in Links
  BY LinkParts DEF Ends
<1>4. /\ \A l \in Links : flows'[l] = flows[l] \/ flows'[l] = "open"
      /\ flows'[<<"client", f>>] = "open"
      /\ \A g \in Flows : flows'[<<"server", g>>] = flows[<<"server", g>>]
      /\ \A g \in Flows : g # f => control'[g] = control[g]
      /\ control'[f] = "requested"
  BY <1>1, <1>2, <1>3
<1>5. /\ flows' \in [Links -> {"never", "open", "closed"}]
      /\ control' \in [Flows -> {"none", "requested", "replied", "live", "closed"}]
      /\ asked' \subseteq Flows /\ up' \in BOOLEAN
  BY <1>1, <1>2
<1>6. \A g \in Flows :
        g \in asked' \/ control'[g] # "none" \/ flows'[<<"server", g>>] # "never" =>
          flows'[<<"client", g>>] # "never"
  BY <1>1, <1>3, <1>4 DEF MuxIInv, FlowsAreKnown
<1>7. \A g \in Flows : control'[g] \in {"replied", "live"} => flows'[<<"server", g>>] # "never"
  BY <1>4 DEF MuxIInv, FlowsAreKnown
<1>8. \A l \in Links : flows[l] # "never" => flows'[l] # "never"
  BY <1>4
<1> QED BY <1>1, <1>5, <1>6, <1>7, <1>8, ControlKeeps

LEMMA ServeKeeps == ASSUME MuxIInv, NEW f \in Flows, Serve(f) PROVE MuxIInv'
<1>1. /\ f \in asked /\ flows' = [flows EXCEPT ![<<"server", f>>] = "open"]
      /\ control' = [control EXCEPT ![f] = IF @ = "requested" THEN "replied" ELSE @]
      /\ asked' = asked \ {f}
      /\ UNCHANGED <<up, wire, sent, tail>>
  BY DEF Serve, Reply
<1>2. /\ up \in BOOLEAN /\ flows \in [Links -> {"never", "open", "closed"}]
      /\ control \in [Flows -> {"none", "requested", "replied", "live", "closed"}]
      /\ asked \subseteq Flows
  BY DEF MuxIInv, TypeOK
<1>3. \A g \in Flows : /\ <<"client", g>> \in Links /\ <<"server", g>> \in Links
                       /\ <<"client", g>> # <<"server", f>>
                       /\ <<"server", g>> = <<"server", f>> => g = f
  BY LinkParts DEF Ends
<1>4. /\ \A l \in Links : flows'[l] = flows[l] \/ flows'[l] = "open"
      /\ flows'[<<"server", f>>] = "open"
      /\ \A g \in Flows : g # f => flows'[<<"server", g>>] = flows[<<"server", g>>]
      /\ \A g \in Flows : flows'[<<"client", g>>] = flows[<<"client", g>>]
      /\ \A g \in Flows : g # f => control'[g] = control[g]
  BY <1>1, <1>2, <1>3
<1>5. /\ flows' \in [Links -> {"never", "open", "closed"}]
      /\ control' \in [Flows -> {"none", "requested", "replied", "live", "closed"}]
      /\ asked' \subseteq Flows /\ up' \in BOOLEAN
  BY <1>1, <1>2
<1>6. \A g \in Flows :
        g \in asked' \/ control'[g] # "none" \/ flows'[<<"server", g>>] # "never" =>
          flows'[<<"client", g>>] # "never"
  BY <1>1, <1>4 DEF MuxIInv, FlowsAreKnown
<1>7. \A g \in Flows : control'[g] \in {"replied", "live"} => flows'[<<"server", g>>] # "never"
  BY <1>4 DEF MuxIInv, FlowsAreKnown
<1>8. \A l \in Links : flows[l] # "never" => flows'[l] # "never"
  BY <1>4
<1> QED BY <1>1, <1>5, <1>6, <1>7, <1>8, ControlKeeps

LEMMA DenyKeeps == ASSUME MuxIInv, NEW f \in Flows, Deny(f) \/ Dialed(f) PROVE MuxIInv'
<1>1. /\ f \in asked \/ control[f] = "replied"
      /\ UNCHANGED <<up, flows, wire, sent, tail>>
  BY DEF Deny, Dialed
<1>2. /\ up \in BOOLEAN /\ flows \in [Links -> {"never", "open", "closed"}]
      /\ control \in [Flows -> {"none", "requested", "replied", "live", "closed"}]
      /\ asked \subseteq Flows
  BY DEF MuxIInv, TypeOK
<1>3. /\ \A g \in Flows : g # f => control'[g] = control[g]
      /\ control'[f] = "closed" \/ (control'[f] = "live" /\ control[f] = "replied")
      /\ control' \in [Flows -> {"none", "requested", "replied", "live", "closed"}]
      /\ f \in asked \/ control[f] # "none"
      /\ asked' \subseteq asked
  BY <1>2 DEF Deny, Dialed
<1>4. \A g \in Flows :
        g \in asked' \/ control'[g] # "none" \/ flows'[<<"server", g>>] # "never" =>
          flows'[<<"client", g>>] # "never"
  BY <1>1, <1>3 DEF MuxIInv, FlowsAreKnown
<1>5. \A g \in Flows : control'[g] \in {"replied", "live"} => flows'[<<"server", g>>] # "never"
  BY <1>1, <1>3 DEF MuxIInv, FlowsAreKnown
<1> QED BY <1>1, <1>2, <1>3, <1>4, <1>5, ControlKeeps

LEMMA CloseKeeps ==
  ASSUME MuxIInv, NEW e \in Ends, NEW f \in Flows, Close(e, f)
  PROVE  MuxIInv'
<1>1. /\ flows[<<e, f>>] = "open" /\ flows' = [flows EXCEPT ![<<e, f>>] = "closed"]
      /\ control' = [control EXCEPT ![f] = "closed"]
      /\ UNCHANGED <<up, asked, wire, sent, tail>>
  BY DEF Close
<1>2. /\ up \in BOOLEAN /\ flows \in [Links -> {"never", "open", "closed"}]
      /\ control \in [Flows -> {"none", "requested", "replied", "live", "closed"}]
      /\ asked \subseteq Flows
  BY DEF MuxIInv, TypeOK
<1>3. /\ <<e, f>> \in Links /\ e \in {"client", "server"}
      /\ \A g \in Flows : <<"client", g>> \in Links /\ <<"server", g>> \in Links
  BY LinkParts DEF Ends
<1>4. /\ \A l \in Links : flows[l] # "never" <=> flows'[l] # "never"
      /\ \A g \in Flows : g # f => control'[g] = control[g]
      /\ control'[f] = "closed"
  BY <1>1, <1>2, <1>3
<1>5. /\ flows' \in [Links -> {"never", "open", "closed"}]
      /\ control' \in [Flows -> {"none", "requested", "replied", "live", "closed"}]
  BY <1>1, <1>2
<1>6. flows[<<"client", f>>] # "never"
  BY <1>1, <1>3 DEF MuxIInv, FlowsAreKnown
<1>7. \A g \in Flows :
        g \in asked' \/ control'[g] # "none" \/ flows'[<<"server", g>>] # "never" =>
          flows'[<<"client", g>>] # "never"
  BY <1>1, <1>3, <1>4, <1>6 DEF MuxIInv, FlowsAreKnown
<1>8. \A g \in Flows : control'[g] \in {"replied", "live"} => flows'[<<"server", g>>] # "never"
  BY <1>3, <1>4 DEF MuxIInv, FlowsAreKnown
<1> QED BY <1>1, <1>2, <1>4, <1>5, <1>7, <1>8, ControlKeeps

LEMMA ConnectionEndsKeeps == ASSUME MuxIInv, ConnectionEnds PROVE MuxIInv'
<1>1. /\ up' = FALSE /\ UNCHANGED <<flows, asked, wire, sent, tail>>
      /\ control' = [f \in Flows |-> IF control[f] = "none" THEN "none" ELSE "closed"]
  BY DEF ConnectionEnds
<1>2. /\ flows \in [Links -> {"never", "open", "closed"}] /\ asked \subseteq Flows
      /\ control' \in [Flows -> {"none", "requested", "replied", "live", "closed"}]
      /\ \A f \in Flows : control'[f] \in {"none", "closed"}
      /\ \A f \in Flows : control'[f] # "none" => control[f] # "none"
  BY <1>1 DEF MuxIInv, TypeOK
<1>3. \A g \in Flows :
        g \in asked' \/ control'[g] # "none" \/ flows'[<<"server", g>>] # "never" =>
          flows'[<<"client", g>>] # "never"
  BY <1>1, <1>2 DEF MuxIInv, FlowsAreKnown
<1>4. \A g \in Flows : control'[g] \in {"replied", "live"} => flows'[<<"server", g>>] # "never"
  BY <1>2
<1> QED BY <1>1, <1>2, <1>3, <1>4, ControlKeeps

-----------------------------------------------------------------------------
(* The sending half.                                                       *)

\* A new packet: nothing is left of the last use of its sequence number.
LEMMA WriteKeeps ==
  ASSUME MuxIInv, NEW l \in Links, NEW total \in Totals, Write(l, total)
  PROVE  /\ MuxIInv'
         /\ \E p \in Packets : /\ p \notin sent[l]
                               /\ sent' = [sent EXCEPT ![l] = sent[l] \cup {p}]
<1> USE DEF MuxIInv
<1> DEFINE packet == [n |-> written[l] + 1, total |-> total]
           cut == [i \in 1 .. total |-> [flow |-> l[2], packet |-> packet, index |-> i - 1]]
           new == ToSet(cut)
<1>1. /\ MayWrite(l[1], l[2]) /\ writing[l] = <<>> /\ written[l] < MaxWrites[l[1]]
      /\ SeqIsFree(l, Seq32(packet))
      /\ written' = [written EXCEPT ![l] = written[l] + 1]
      /\ writing' = [writing EXCEPT ![l] = cut]
      /\ sent' = [sent EXCEPT ![l] = sent[l] \cup {packet}]
      /\ UNCHANGED <<up, flows, control, asked, send, net, parts, unread, received>>
  BY DEF Write, tail
<1>2. /\ l[1] \in Ends /\ l[2] \in Flows /\ total \in Nat /\ 1 <= total /\ total <= 66
      /\ written[l] \in Nat /\ MaxWrites[l[1]] \in Nat /\ Most \in Nat
      /\ MaxWrites[l[1]] <= Most
  BY LinkParts, Bounds, MostIsMost DEF Shapes
<1>3. packet \in Packets /\ packet.n = written[l] + 1 /\ packet.total = total
  BY <1>1, <1>2 DEF Packets
<1> HIDE DEF packet
<1>4. /\ cut \in Seq(Fragments) /\ IsInjective(cut)
      /\ \A x \in new : x.packet = packet /\ x.flow = l[2] /\ x \in Fragments
  <2>1. \A i \in 1 .. total : [flow |-> l[2], packet |-> packet, index |-> i - 1] \in Fragments
    BY <1>2, <1>3 DEF Fragments
  <2>2. cut \in [1 .. total -> Fragments]
    BY <2>1
  <2>3. cut \in Seq(Fragments)
    BY <1>2, <2>2
  <2>4. IsInjective(cut)
    BY <1>2, <2>2 DEF IsInjective
  <2>5. \A x \in new : x.packet = packet /\ x.flow = l[2] /\ x \in Fragments
    BY <2>1, <2>2 DEF ToSet
  <2> QED BY <2>3, <2>4, <2>5
<1> HIDE DEF cut
<1>5. /\ writing \in [Links -> Seq(Fragments)] /\ writing'[l] = cut
      /\ writing' \in [Links -> Seq(Fragments)]
      /\ \A k \in Links : k # l => writing'[k] = writing[k]
      /\ \A k \in Links : k # l => sent'[k] = sent[k] /\ written'[k] = written[k]
      /\ sent'[l] = sent[l] \cup {packet} /\ written'[l] = written[l] + 1
      /\ written' \in [Links -> Nat] /\ sent' \in [Links -> SUBSET Packets]
  BY <1>1, <1>2, <1>3, <1>4 DEF Shapes
<1>6. /\ \A k \in Links : k # l => OnWay(k)' = OnWay(k)
      /\ OnWay(l)' = OnWay(l) \cup new
  <2>1. ToSet(writing[l]) = {}
    BY <1>1, EmptyIs
  <2> QED BY <1>1, <1>5, <2>1 DEF OnWay
<1> HIDE DEF new
<1>7. packet \notin sent[l]
  BY <1>2, <1>3 DEF SequenceIsClear, Shapes
<1>8. /\ \A x \in OnWay(l) : Seq32(x.packet) # Seq32(packet)
      /\ \A a \in parts[l] : a.seq = Seq32(packet) => a.old
  BY <1>1, EmptyIs DEF OnWay, SeqIsFree
<1>9. TypeOK'
  <2>1. \A k \in Links : written'[k] \in 0 .. MaxWrites[k[1]]
    BY <1>1, <1>2, <1>5 DEF TypeOK
  <2>2. \A k \in Links : ToSet(writing'[k]) \subseteq Fragments
    BY <1>5, SeqElements
  <2> QED BY <2>1, <2>2, <1>1 DEF TypeOK
<1>10. Shapes'
  BY <1>1, <1>5 DEF Shapes
<1>11. FragmentsAreOnce'
  <2>1. \A x \in ToSet(send[l[1]]) \cup net[l[1]] : x \in new => x \in OnWay(l)
    BY <1>4 DEF OnWay, OfFlow
  <2>2. new \cap (ToSet(send[l[1]]) \cup net[l[1]]) = {}
    BY <2>1, <1>4, <1>8
  <2> QED BY <1>1, <1>4, <1>5, <2>2 DEF FragmentsAreOnce, new
<1>12. FlowsAreKnown'
  <2>1. flows[<<Peer(l[1]), l[2]>>] # "never"
    BY <1>1, <1>2 DEF MayWrite, FlowsAreKnown, Peer, Ends
  <2> QED BY <1>1, <1>6, <2>1 DEF FlowsAreKnown
<1>13. SequenceIsClear(l)'
  <2>1. Live(l)' = Live(l) /\ \A a \in Live(l) : a.seq # Seq32(packet)
    BY <1>1, <1>8 DEF Live
  <2>2. \A p \in sent'[l] : p.n <= written'[l]
    <3>1. \A p \in sent[l] : p.n <= written[l] /\ p.n \in Nat
      BY DEF SequenceIsClear, Shapes, Packets
    <3> QED BY <3>1, <1>2, <1>3, <1>5
  <2>3. \A x \in OnWay(l)' : x.packet \in sent'[l]
    BY <1>4, <1>5, <1>6 DEF SequenceIsClear
  <2>4. \A x, y \in OnWay(l)' : Seq32(x.packet) = Seq32(y.packet) => x.packet = y.packet
    BY <1>4, <1>6, <1>8 DEF SequenceIsClear
  <2>5. \A a \in Live(l)', x \in OnWay(l)' : a.seq = Seq32(x.packet) =>
          \A i \in DOMAIN a.pieces : a.pieces[i] = x.packet
    BY <1>4, <1>6, <2>1 DEF SequenceIsClear
  <2> QED BY <2>2, <2>3, <2>4, <2>5 DEF SequenceIsClear
<1>14. \A a \in parts[l] : \A i \in DOMAIN a.pieces : a.pieces[i] # packet
  BY <1>7 DEF AssembliesAreSound
<1>15. AssembliesAreSound(l)'
  BY <1>1, <1>4, <1>5, <1>6, <1>14 DEF AssembliesAreSound
<1>16. ReceivedIsGone(l)'
  <2>1. \A p \in ToSet(received[l]) : p \in sent[l] /\ p # packet
    BY <1>7 DEF ReceivedIsGone
  <2>2. received' = received /\ parts' = parts
    BY <1>1
  <2> QED BY <2>1, <2>2, <1>4, <1>5, <1>6 DEF ReceivedIsGone
<1>17. \A k \in Links : LinkIsSound(k)'
  <2>1. ASSUME NEW k \in Links, k # l PROVE LinkIsSound(k)'
    BY <1>1, <1>5, <1>6, <2>1, LinkShrinks DEF LinkIsSound
  <2> QED BY <2>1, <1>13, <1>15, <1>16 DEF LinkIsSound
<1>18. MuxIInv'
  BY <1>9, <1>10, <1>11, <1>12, <1>17 DEF LinkIsSound
<1> QED BY <1>1, <1>3, <1>7, <1>18

\* One turn of the loop of Write: a fragment moves to the queue, or the rest
\* of its packet is dropped.
LEMMA EnqueueKeeps == ASSUME MuxIInv, NEW l \in Links, Enqueue(l) PROVE MuxIInv'
<1> USE DEF MuxIInv
<1>1. /\ writing[l] # <<>> /\ net' = net
      /\ UNCHANGED <<up, flows, control, asked, written, sent, tail>>
  BY DEF Enqueue
<1>2. /\ l[1] \in Ends /\ l[2] \in Flows /\ SendCap \in Nat
      /\ writing \in [Links -> Seq(Fragments)] /\ send \in [Ends -> Seq(Fragments)]
      /\ net \in [Ends -> SUBSET Fragments]
      /\ \A e \in Ends : Len(send[e]) <= SendCap /\ Len(send[e]) \in Nat
  BY LinkParts, Bounds DEF Shapes, TypeOK
<1> DEFINE x == Head(writing[l])
<1>3. /\ x \in Fragments /\ Tail(writing[l]) \in Seq(Fragments)
      /\ ToSet(writing[l]) = {x} \cup ToSet(Tail(writing[l]))
      /\ IsInjective(Tail(writing[l])) /\ x \notin ToSet(Tail(writing[l]))
      /\ x.flow = l[2] /\ x \notin ToSet(send[l[1]]) \cup net[l[1]]
  BY <1>1, <1>2, TailIs DEF FragmentsAreOnce
<1> HIDE DEF x
<1>4. CASE Len(send[l[1]]) < SendCap
  <2>1. /\ send' = [send EXCEPT ![l[1]] = Append(send[l[1]], x)]
        /\ writing' = [writing EXCEPT ![l] = Tail(writing[l])]
    BY <1>4 DEF Enqueue, x
  <2>2. /\ Append(send[l[1]], x) \in Seq(Fragments)
        /\ Len(Append(send[l[1]], x)) = Len(send[l[1]]) + 1
        /\ ToSet(Append(send[l[1]], x)) = ToSet(send[l[1]]) \cup {x}
        /\ IsInjective(Append(send[l[1]], x))
    BY <1>2, <1>3, AppendIs DEF FragmentsAreOnce
  <2>3. /\ send'[l[1]] = Append(send[l[1]], x) /\ \A e \in Ends : e # l[1] => send'[e] = send[e]
        /\ writing'[l] = Tail(writing[l]) /\ \A k \in Links : k # l => writing'[k] = writing[k]
        /\ writing' \in [Links -> Seq(Fragments)] /\ send' \in [Ends -> Seq(Fragments)]
    BY <1>2, <1>3, <2>1, <2>2
  <2>4. ASSUME NEW e \in Ends PROVE Len(send'[e]) <= SendCap
    <3>1. CASE e = l[1]
      <4>1. Len(send'[e]) = Len(send[l[1]]) + 1
        BY <3>1, <2>2, <2>3
      <4>2. \A m, n \in Nat : m < n => m + 1 <= n
        OBVIOUS
      <4> QED BY <4>1, <4>2, <1>2, <1>4
    <3>2. CASE e # l[1]
      BY <3>2, <1>2, <2>3
    <3> QED BY <3>1, <3>2
  <2>5. \A k \in Links : k # l /\ k[1] = l[1] => x \notin ToSet(writing[k]) /\ x.flow # k[2]
    BY <1>3, LinkParts DEF FragmentsAreOnce
  <2>6. FragmentsAreOnce'
    <3>1. ASSUME NEW e \in Ends
          PROVE  IsInjective(send'[e]) /\ ToSet(send'[e]) \cap net'[e] = {}
      <4>1. CASE e = l[1]
        <5>1. IsInjective(send'[e]) /\ ToSet(send'[e]) = ToSet(send[e]) \cup {x} /\ x \notin net[e]
          BY <4>1, <1>3, <2>2, <2>3
        <5> QED BY <5>1, <1>1 DEF FragmentsAreOnce
      <4>2. CASE e # l[1]
        <5>1. send'[e] = send[e]
          BY <4>2, <2>3
        <5> QED BY <5>1, <1>1 DEF FragmentsAreOnce
      <4> QED BY <4>1, <4>2
    <3>2. ASSUME NEW k \in Links
          PROVE  /\ IsInjective(writing'[k])
                 /\ ToSet(writing'[k]) \cap (ToSet(send'[k[1]]) \cup net'[k[1]]) = {}
                 /\ \A y \in ToSet(writing'[k]) : y.flow = k[2]
      <4>1. CASE k = l
        <5>1. /\ writing'[l] = Tail(writing[l]) /\ ToSet(writing'[l]) \subseteq ToSet(writing[l])
              /\ ToSet(send'[l[1]]) = ToSet(send[l[1]]) \cup {x}
              /\ IsInjective(writing'[l]) /\ x \notin ToSet(writing'[l])
          BY <1>3, <2>2, <2>3
        <5>2. /\ ToSet(writing[l]) \cap (ToSet(send[l[1]]) \cup net[l[1]]) = {}
              /\ \A y \in ToSet(writing[l]) : y.flow = l[2]
          BY DEF FragmentsAreOnce
        <5> QED BY <4>1, <5>1, <5>2, <1>1
      <4>2. CASE k # l /\ k[1] = l[1]
        <5>1. /\ writing'[k] = writing[k] /\ x \notin ToSet(writing[k])
              /\ ToSet(send'[k[1]]) = ToSet(send[k[1]]) \cup {x}
          BY <4>2, <2>2, <2>3, <2>5
        <5> QED BY <5>1, <1>1 DEF FragmentsAreOnce
      <4>3. CASE k # l /\ k[1] # l[1]
        <5>1. writing'[k] = writing[k] /\ send'[k[1]] = send[k[1]]
          BY <4>3, <2>3, LinkParts
        <5> QED BY <5>1, <1>1 DEF FragmentsAreOnce
      <4> QED BY <4>1, <4>2, <4>3
    <3> QED BY <3>1, <3>2 DEF FragmentsAreOnce
  <2>7. ASSUME NEW k \in Links PROVE OnWay(k)' \subseteq OnWay(k)
    <3>1. CASE k = l
      BY <3>1, <1>1, <1>3, <2>2, <2>3 DEF OnWay, OfFlow
    <3>2. CASE k # l /\ k[1] = l[1]
      BY <3>2, <1>1, <2>2, <2>3, <2>5 DEF OnWay, OfFlow
    <3>3. CASE k # l /\ k[1] # l[1]
      BY <3>3, <1>1, <2>3, LinkParts DEF OnWay
    <3> QED BY <3>1, <3>2, <3>3
  <2> QED BY <1>1, <1>2, <2>3, <2>4, <2>6, <2>7, WireKeeps
<1>5. CASE ~(Len(send[l[1]]) < SendCap)
  <2>1. send' = send /\ writing' = [writing EXCEPT ![l] = <<>>]
    BY <1>5 DEF Enqueue
  <2>2. /\ writing'[l] = <<>> /\ \A k \in Links : k # l => writing'[k] = writing[k]
        /\ writing' \in [Links -> Seq(Fragments)]
    BY <1>2, <2>1, EmptyIs
  <2>3. FragmentsAreOnce'
    BY <1>1, <2>1, <2>2, EmptyIs DEF FragmentsAreOnce
  <2>4. \A k \in Links : OnWay(k)' \subseteq OnWay(k)
    BY <1>1, <2>1, <2>2, EmptyIs DEF OnWay
  <2> QED BY <1>1, <1>2, <2>1, <2>2, <2>3, <2>4, WireKeeps
<1> QED BY <1>4, <1>5

\* sender: the oldest fragment goes to the network or is dropped.
LEMMA SenderKeeps ==
  ASSUME MuxIInv, NEW e \in Ends, Transmit(e) \/ Discard(e)
  PROVE  MuxIInv'
<1> USE DEF MuxIInv
<1> DEFINE x == Head(send[e])
<1>1. /\ send[e] # <<>> /\ writing' = writing
      /\ send' = [send EXCEPT ![e] = Tail(send[e])]
      /\ net' = [net EXCEPT ![e] = net[e] \cup {x}] \/ net' = net
      /\ UNCHANGED <<up, flows, control, asked, written, sent, tail>>
  BY DEF Transmit, Discard
<1>2. /\ writing \in [Links -> Seq(Fragments)] /\ send \in [Ends -> Seq(Fragments)]
      /\ net \in [Ends -> SUBSET Fragments] /\ SendCap \in Nat
      /\ \A d \in Ends : Len(send[d]) <= SendCap /\ Len(send[d]) \in Nat
  BY Bounds DEF Shapes, TypeOK
<1>3. /\ x \in Fragments /\ Tail(send[e]) \in Seq(Fragments)
      /\ Len(Tail(send[e])) <= Len(send[e]) /\ Len(Tail(send[e])) \in Nat
      /\ ToSet(send[e]) = {x} \cup ToSet(Tail(send[e]))
      /\ IsInjective(Tail(send[e])) /\ x \notin ToSet(Tail(send[e]))
  BY <1>1, <1>2, TailIs DEF FragmentsAreOnce
<1> HIDE DEF x
<1>4. /\ send'[e] = Tail(send[e]) /\ \A d \in Ends : d # e => send'[d] = send[d]
      /\ send' \in [Ends -> Seq(Fragments)] /\ net' \in [Ends -> SUBSET Fragments]
      /\ net'[e] \subseteq net[e] \cup {x} /\ \A d \in Ends : d # e => net'[d] = net[d]
  BY <1>1, <1>2, <1>3
<1>5. ASSUME NEW d \in Ends PROVE Len(send'[d]) <= SendCap
  <2>1. CASE d = e
    <3>1. \A i, j, k \in Nat : i <= j /\ j <= k => i <= k
      OBVIOUS
    <3> QED BY <2>1, <3>1, <1>2, <1>3, <1>4
  <2>2. CASE d # e
    BY <2>2, <1>2, <1>4
  <2> QED BY <2>1, <2>2
<1>6. FragmentsAreOnce'
  <2>1. ASSUME NEW d \in Ends
        PROVE  IsInjective(send'[d]) /\ ToSet(send'[d]) \cap net'[d] = {}
    <3>1. CASE d = e
      <4>1. ToSet(send[e]) \cap net[e] = {}
        BY DEF FragmentsAreOnce
      <4> QED BY <3>1, <4>1, <1>3, <1>4
    <3>2. CASE d # e
      BY <3>2, <1>4 DEF FragmentsAreOnce
    <3> QED BY <3>1, <3>2
  <2>2. \A d \in Ends : ToSet(send'[d]) \cup net'[d] \subseteq ToSet(send[d]) \cup net[d]
    BY <1>3, <1>4
  <2> QED BY <1>1, <2>1, <2>2, LinkParts DEF FragmentsAreOnce
<1>7. \A k \in Links : OnWay(k)' \subseteq OnWay(k)
  <2>1. \A d \in Ends : ToSet(send'[d]) \cup net'[d] \subseteq ToSet(send[d]) \cup net[d]
    BY <1>3, <1>4
  <2> QED BY <1>1, <2>1, LinkParts DEF OnWay, OfFlow
<1> QED BY <1>1, <1>2, <1>4, <1>5, <1>6, <1>7, WireKeeps

-----------------------------------------------------------------------------
(* The receiving half.                                                     *)

\* A datagram leaves the network: it is not on the way any more.
LEMMA Leaves ==
  ASSUME MuxIInv, NEW e \in Ends, NEW x \in net[e],
         net' = [net EXCEPT ![e] = net[e] \ {x}], UNCHANGED <<writing, send>>
  PROVE  /\ net' \in [Ends -> SUBSET Fragments] /\ FragmentsAreOnce'
         /\ x \in Fragments /\ <<e, x.flow>> \in Links
         /\ \A k \in Links : OnWay(k)' \subseteq OnWay(k)
         /\ x \in OnWay(<<e, x.flow>>) /\ x \notin OnWay(<<e, x.flow>>)'
         /\ \A y \in OnWay(<<e, x.flow>>) : y \in Fragments /\ y.flow = x.flow
<1> USE DEF MuxIInv
<1>1. /\ net \in [Ends -> SUBSET Fragments] /\ writing \in [Links -> Seq(Fragments)]
      /\ send \in [Ends -> Seq(Fragments)]
  BY DEF Shapes
<1>2. /\ net'[e] = net[e] \ {x} /\ \A d \in Ends : d # e => net'[d] = net[d]
      /\ net' \in [Ends -> SUBSET Fragments] /\ \A d \in Ends : net'[d] \subseteq net[d]
      /\ x \in Fragments
  BY <1>1
<1> DEFINE l == <<e, x.flow>>
<1>3. l \in Links /\ l[1] = e /\ l[2] = x.flow
  BY <1>2, FragmentIs, LinkParts
<1> HIDE DEF l
<1>4. FragmentsAreOnce'
  BY <1>2, LinkParts DEF FragmentsAreOnce
<1>5. \A k \in Links : OnWay(k)' \subseteq OnWay(k)
  BY <1>2, LinkParts DEF OnWay, OfFlow
<1>6. x \in OnWay(l) /\ x \notin OnWay(l)'
  BY <1>2, <1>3 DEF OnWay, OfFlow, FragmentsAreOnce
<1>7. \A y \in OnWay(l) : y \in Fragments /\ y.flow = x.flow
  BY <1>1, <1>3, SeqElements DEF OnWay, OfFlow, FragmentsAreOnce
<1> QED BY <1>2, <1>3, <1>4, <1>5, <1>6, <1>7 DEF l

LEMMA LoseKeeps == ASSUME MuxIInv, NEW e \in Ends, NEW x \in net[e], Lose(e, x) PROVE MuxIInv'
<1>1. /\ net' = [net EXCEPT ![e] = net[e] \ {x}] /\ UNCHANGED <<writing, send>>
      /\ UNCHANGED <<up, flows, control, asked, written, sent, tail>>
  BY DEF Lose
<1>2. /\ writing' \in [Links -> Seq(Fragments)] /\ send' \in [Ends -> Seq(Fragments)]
      /\ \A d \in Ends : Len(send'[d]) <= SendCap
  BY <1>1 DEF MuxIInv, Shapes, TypeOK
<1> QED BY <1>1, <1>2, Leaves, WireKeeps

\* The steps of accept differ in the assemblies they leave and in what they
\* deliver.
LEMMA TailKeeps ==
  ASSUME MuxIInv, NEW l \in Links,
         UNCHANGED <<up, flows, control, asked, written, writing, send, sent>>,
         net' \in [Ends -> SUBSET Fragments], FragmentsAreOnce',
         \A k \in Links : OnWay(k)' \subseteq OnWay(k),
         unread' \in [Links -> Nat], received' \in [Links -> Seq(Packets)],
         \A k \in Links : unread'[k] <= RecvCap,
         parts' = [k \in Links |-> parts'[k]],
         \A k \in Links : k # l => parts'[k] = parts[k] /\ received'[k] = received[k],
         IsFiniteSet(parts'[l]), Cardinality(parts'[l]) <= PartsCap,
         \A a \in parts'[l] : IsAssembly(a),
         LinkIsSound(l)'
  PROVE  MuxIInv'
<1> USE DEF MuxIInv
<1>1. Shapes'
  BY DEF Shapes
<1>2. TypeOK'
  <2>1. \A e \in Ends : net'[e] \subseteq Fragments
    OBVIOUS
  <2>2. \A k \in Links : Cardinality(parts'[k]) <= PartsCap /\ unread'[k] \in 0 .. RecvCap
    <3>1. \A k \in Links : unread'[k] \in 0 .. RecvCap
      BY Bounds
    <3>2. \A k \in Links : Cardinality(parts'[k]) <= PartsCap
      BY DEF TypeOK
    <3> QED BY <3>1, <3>2
  <2>3. \A k \in Links : \A a \in parts'[k] :
          a.total \in Totals /\ DOMAIN a.pieces \subseteq 0 .. a.total - 1
    BY <1>1 DEF Shapes, IsAssembly
  <2> QED BY <2>1, <2>2, <2>3 DEF TypeOK
<1>3. FlowsAreKnown'
  BY LinkParts DEF FlowsAreKnown
<1>4. \A k \in Links : LinkIsSound(k)'
  BY LinkShrinks DEF LinkIsSound
<1> QED BY <1>1, <1>2, <1>3, <1>4 DEF LinkIsSound

\* A packet is delivered of which nothing is left.
LEMMA LinkDelivers ==
  ASSUME MuxIInv, NEW l \in Links, NEW p \in sent[l],
         OnWay(l)' \subseteq OnWay(l), parts'[l] \subseteq parts[l],
         sent'[l] = sent[l], written'[l] = written[l],
         received'[l] = Append(received[l], p) \/ received'[l] = received[l],
         \A y \in OnWay(l)' : y.packet # p,
         \A a \in parts'[l] : \A i \in DOMAIN a.pieces : a.pieces[i] # p
  PROVE  LinkIsSound(l)'
<1>0. LinkIsSound(l) /\ received[l] \in Seq(Packets) /\ p \in Packets
  BY DEF MuxIInv, LinkIsSound, Shapes
<1>1. Live(l)' \subseteq Live(l)
  BY DEF Live
<1>2. SequenceIsClear(l)'
  BY <1>0, <1>1 DEF LinkIsSound, SequenceIsClear
<1>3. AssembliesAreSound(l)'
  BY <1>0 DEF LinkIsSound, AssembliesAreSound
<1>4. ToSet(received'[l]) \subseteq ToSet(received[l]) \cup {p}
  <2>1. ToSet(Append(received[l], p)) = ToSet(received[l]) \cup {p}
    BY <1>0, AppendIs
  <2> QED BY <2>1
<1>5. ReceivedIsGone(l)'
  BY <1>0, <1>4 DEF LinkIsSound, ReceivedIsGone
<1> QED BY <1>2, <1>3, <1>5 DEF LinkIsSound

\* An assembly with a further piece.
LEMMA WithPieceIs ==
  ASSUME NEW a, IsAssembly(a), NEW x \in Fragments, a.total = x.packet.total
  PROVE  LET b == WithPiece(a, x) IN
         /\ IsAssembly(b) /\ b.seq = a.seq /\ b.total = a.total /\ b.old = a.old
         /\ DOMAIN b.pieces = DOMAIN a.pieces \cup {x.index}
         /\ b.pieces[x.index] = x.packet
         /\ \A i \in DOMAIN a.pieces \ {x.index} : b.pieces[i] = a.pieces[i]
<1> DEFINE ps == [i \in DOMAIN a.pieces \cup {x.index} |->
                    IF i = x.index THEN x.packet ELSE a.pieces[i]]
           b == [a EXCEPT !.pieces = ps]
<1>0. WithPiece(a, x) = b
  BY DEF WithPiece
<1>1. /\ x.index \in 0 .. a.total - 1 /\ x.packet \in Packets
  <2>1. a.total \in Nat
    BY Bounds DEF IsAssembly
  <2> QED BY <2>1, FragmentIs
<1>2. /\ DOMAIN ps = DOMAIN a.pieces \cup {x.index} /\ ps[x.index] = x.packet
      /\ \A i \in DOMAIN a.pieces \ {x.index} : ps[i] = a.pieces[i]
      /\ ps \in [DOMAIN ps -> Packets] /\ DOMAIN ps \subseteq 0 .. a.total - 1
  BY <1>1 DEF IsAssembly
<1> HIDE DEF ps
<1>3. /\ b \in [seq : {a.seq}, total : Totals \ {1}, old : BOOLEAN, pieces : {ps}]
      /\ b.seq = a.seq /\ b.total = a.total /\ b.old = a.old /\ b.pieces = ps
  BY DEF IsAssembly
<1> HIDE DEF b
<1>4. IsAssembly(b)
  BY <1>2, <1>3 DEF IsAssembly
<1> QED BY <1>0, <1>2, <1>3, <1>4

\* The assembly that accept chooses for a fragment: one of the same packet, or
\* a new one where there is place.
LEMMA SlotIs ==
  ASSUME MuxIInv, NEW l \in Links, NEW x \in OnWay(l), x \in Fragments, x.packet.total # 1,
         NEW a \in Slot(l, x)
  PROVE  /\ IsAssembly(a) /\ a.seq = Seq32(x.packet) /\ ~a.old
         /\ \A i \in DOMAIN a.pieces : a.pieces[i] = x.packet /\ i # x.index
         /\ a \in Live(l) \/ (a \notin Live(l) /\ Cardinality(Live(l)) < PartsCap)
         /\ \A c \in Live(l) \ {a} : c.seq # a.seq
         /\ \A y \in OnWay(l), i \in DOMAIN a.pieces : y.packet = x.packet => y.index # i
<1> USE DEF MuxIInv
<1> DEFINE mine == {c \in Live(l) : c.seq = Seq32(x.packet)}
           a0 == [seq |-> Seq32(x.packet), total |-> x.packet.total, old |-> FALSE,
                  pieces |-> <<>>]
<1>1. CASE mine # {}
  <2>1. a \in Live(l) /\ a.seq = Seq32(x.packet) /\ a \in parts[l] /\ ~a.old
    BY <1>1 DEF Slot, Live
  <2>2. IsAssembly(a)
    BY <2>1 DEF Shapes
  <2>3. \A i \in DOMAIN a.pieces : a.pieces[i] = x.packet
    BY <2>1 DEF SequenceIsClear
  <2>4. \A y \in OnWay(l), i \in DOMAIN a.pieces : y.packet = x.packet => y.index # i
    BY <2>1, <2>3 DEF AssembliesAreSound
  <2>5. \A i \in DOMAIN a.pieces : i # x.index
    BY <2>4
  <2>6. \A c \in Live(l) \ {a} : c.seq # a.seq
    BY <2>1 DEF AssembliesAreSound, Live
  <2>7. \A i \in DOMAIN a.pieces : a.pieces[i] = x.packet /\ i # x.index
    BY <2>3, <2>5
  <2> HIDE DEF a0, mine, MuxIInv
  <2> QED BY <2>1, <2>2, <2>4, <2>6, <2>7
<1>2. CASE mine = {}
  <2>1. a = a0 /\ Cardinality(Live(l)) < PartsCap
    BY <1>2 DEF Slot
  <2>2. /\ a.seq = Seq32(x.packet) /\ a.total = x.packet.total /\ a.old = FALSE
        /\ a.pieces = <<>> /\ DOMAIN a.pieces = {}
        /\ a \in [seq : {a.seq}, total : {x.packet.total}, old : BOOLEAN, pieces : {a.pieces}]
    BY <2>1
  <2>3. IsAssembly(a)
    <3>1. x.packet.total \in Totals \ {1}
      BY FragmentIs
    <3>2. a.pieces \in [DOMAIN a.pieces -> Packets]
      BY <2>2
    <3>3. a \in [seq : {a.seq}, total : Totals \ {1}, old : BOOLEAN, pieces : {a.pieces}]
      BY <2>2, <3>1
    <3> QED BY <2>2, <3>2, <3>3 DEF IsAssembly
  <2>4. \A c \in Live(l) : c.seq # a.seq
    BY <1>2, <2>2
  <2>5. ~a.old
    BY <2>2
  <2>6. a \notin Live(l)
    BY <2>4
  <2>7. \A y \in OnWay(l), i \in DOMAIN a.pieces : y.packet = x.packet => y.index # i
    BY <2>2
  <2>8. \A i \in DOMAIN a.pieces : a.pieces[i] = x.packet /\ i # x.index
    BY <2>2
  <2>9. a.seq = Seq32(x.packet)
    BY <2>2
  <2> HIDE DEF a0, mine
  <2> QED BY <2>1, <2>3, <2>4, <2>5, <2>6, <2>7, <2>8, <2>9
<1> QED BY <1>1, <1>2

\* A further piece is put into an assembly that is not complete with it.
LEMMA LinkTakesPiece ==
  ASSUME MuxIInv, NEW l \in Links, NEW x \in OnWay(l), x \in Fragments, x.packet.total # 1,
         NEW a \in Slot(l, x), a.total = x.packet.total, x.index \notin DOMAIN a.pieces,
         OnWay(l)' \subseteq OnWay(l), x \notin OnWay(l)',
         \A y \in OnWay(l) : y \in Fragments /\ y.flow = x.flow,
         parts'[l] = (Live(l) \ {a}) \cup {WithPiece(a, x)},
         sent'[l] = sent[l], written'[l] = written[l], received'[l] = received[l]
  PROVE  LinkIsSound(l)'
<1> DEFINE b == WithPiece(a, x)
<1>0. LinkIsSound(l)
  BY DEF MuxIInv, LinkIsSound
<1>1. /\ IsAssembly(a) /\ a.seq = Seq32(x.packet) /\ ~a.old
      /\ \A i \in DOMAIN a.pieces : a.pieces[i] = x.packet
      /\ \A c \in Live(l) \ {a} : c.seq # a.seq
      /\ \A y \in OnWay(l), i \in DOMAIN a.pieces : y.packet = x.packet => y.index # i
  BY SlotIs
<1>2. /\ b.seq = Seq32(x.packet) /\ b.total = x.packet.total /\ b.old = a.old
      /\ DOMAIN b.pieces = DOMAIN a.pieces \cup {x.index}
      /\ \A i \in DOMAIN b.pieces : b.pieces[i] = x.packet
  <2>1. /\ b.seq = a.seq /\ b.total = a.total /\ b.old = a.old
        /\ DOMAIN b.pieces = DOMAIN a.pieces \cup {x.index}
        /\ b.pieces[x.index] = x.packet
        /\ \A i \in DOMAIN a.pieces \ {x.index} : b.pieces[i] = a.pieces[i]
    BY <1>1, WithPieceIs
  <2> QED BY <2>1, <1>1
<1> HIDE DEF b
<1>3. \A y \in OnWay(l)' : y.packet = x.packet => \A i \in DOMAIN b.pieces : y.index # i
  BY <1>1, <1>2, FragmentIs
<1>4. x.packet \in sent[l] /\ \A y \in OnWay(l) : Seq32(y.packet) = b.seq => y.packet = x.packet
  BY <1>0, <1>2 DEF LinkIsSound, SequenceIsClear
<1>5. Live(l)' \subseteq Live(l) \cup {b} /\ parts'[l] = (Live(l) \ {a}) \cup {b}
      /\ Live(l) \subseteq parts[l]
  BY DEF Live, b
<1>6. SequenceIsClear(l)'
  <2>1. \A c \in Live(l)', y \in OnWay(l)' : c.seq = Seq32(y.packet) =>
          \A i \in DOMAIN c.pieces : c.pieces[i] = y.packet
    BY <1>0, <1>2, <1>4, <1>5 DEF LinkIsSound, SequenceIsClear
  <2> QED BY <2>1, <1>0 DEF LinkIsSound, SequenceIsClear
<1>7. AssembliesAreSound(l)'
  <2>1. \A c, d \in parts'[l] : c.seq = d.seq => c = d
    BY <1>0, <1>1, <1>2, <1>5 DEF LinkIsSound, AssembliesAreSound
  <2>2. ASSUME NEW c \in parts'[l], NEW i \in DOMAIN c.pieces
        PROVE  /\ c.pieces[i] \in sent'[l]
               /\ Seq32(c.pieces[i]) = c.seq /\ c.pieces[i].total = c.total
               /\ \A j \in DOMAIN c.pieces : c.pieces[i] = c.pieces[j]
               /\ \A y \in OnWay(l)' : y.packet = c.pieces[i] => y.index # i
    <3>1. CASE c = b
      BY <3>1, <1>2, <1>3, <1>4, <2>2
    <3>2. CASE c # b
      BY <3>2, <1>0, <1>5, <2>2 DEF LinkIsSound, AssembliesAreSound
    <3> QED BY <3>1, <3>2
  <2> QED BY <2>1, <2>2 DEF AssembliesAreSound
<1>8. ReceivedIsGone(l)'
  BY <1>0, <1>2, <1>5 DEF LinkIsSound, ReceivedIsGone
<1> QED BY <1>6, <1>7, <1>8 DEF LinkIsSound

\* The assemblies that accept leaves have their limit.
LEMMA LiveIsFinite ==
  ASSUME MuxIInv, NEW l \in Links
  PROVE  /\ IsFiniteSet(Live(l)) /\ Cardinality(Live(l)) <= PartsCap
         /\ Cardinality(Live(l)) \in Nat /\ Live(l) \subseteq parts[l]
         /\ \A a \in Live(l) : IsAssembly(a)
<1>1. /\ Live(l) \subseteq parts[l] /\ IsFiniteSet(parts[l]) /\ Cardinality(parts[l]) <= PartsCap
      /\ PartsCap \in Nat /\ \A a \in parts[l] : IsAssembly(a)
  BY Bounds DEF MuxIInv, TypeOK, Shapes, Live
<1>2. IsFiniteSet(Live(l)) /\ Cardinality(Live(l)) <= Cardinality(parts[l])
  BY <1>1, FS_Subset
<1>3. Cardinality(Live(l)) \in Nat /\ Cardinality(parts[l]) \in Nat
  BY <1>1, <1>2, FS_CardinalityType
<1> QED BY <1>1, <1>2, <1>3

LEMMA ReplacedIsFinite ==
  ASSUME NEW S, IsFiniteSet(S), NEW a, NEW b, NEW cap \in Nat, Cardinality(S) <= cap,
         a \in S \/ Cardinality(S) < cap
  PROVE  IsFiniteSet((S \ {a}) \cup {b}) /\ Cardinality((S \ {a}) \cup {b}) <= cap
<1>1. /\ IsFiniteSet(S \ {a})
      /\ Cardinality(S \ {a}) = IF a \in S THEN Cardinality(S) - 1 ELSE Cardinality(S)
  BY FS_RemoveElement
<1>2. /\ IsFiniteSet((S \ {a}) \cup {b})
      /\ \/ Cardinality((S \ {a}) \cup {b}) = Cardinality(S \ {a})
         \/ Cardinality((S \ {a}) \cup {b}) = Cardinality(S \ {a}) + 1
  BY <1>1, FS_AddElement
<1>3. Cardinality(S) \in Nat /\ Cardinality(S \ {a}) \in Nat
  BY <1>1, FS_CardinalityType
<1>4. Cardinality(S \ {a}) + 1 <= cap
  BY <1>1, <1>3
<1> QED BY <1>2, <1>3, <1>4

\* What Receive does to the packets that are out: at most one comes out, it was
\* sent, and it was not received before.
ComesOut(l) ==
  \/ received' = received
  \/ \E p \in Packets : /\ p \in sent[l] /\ p \notin ToSet(received[l])
                        /\ received' = [received EXCEPT ![l] = Append(received[l], p)]

\* deliver: the packet waits to be read, or is dropped.
LEMMA DeliverIs ==
  ASSUME MuxIInv, NEW l \in Links, NEW p \in sent[l], p \notin ToSet(received[l]), Deliver(l, p)
  PROVE  /\ unread' \in [Links -> Nat] /\ received' \in [Links -> Seq(Packets)]
         /\ \A k \in Links : unread'[k] <= RecvCap
         /\ \A k \in Links : k # l => received'[k] = received[k]
         /\ received'[l] = Append(received[l], p) \/ received'[l] = received[l]
         /\ ComesOut(l)
<1>0. /\ unread \in [Links -> Nat] /\ received \in [Links -> Seq(Packets)] /\ p \in Packets
      /\ \A k \in Links : unread[k] <= RecvCap
      /\ RecvCap \in Nat
  BY Bounds DEF MuxIInv, Shapes, TypeOK
<1>1. CASE unread[l] < RecvCap
  <2>1. /\ unread' = [unread EXCEPT ![l] = unread[l] + 1]
        /\ received' = [received EXCEPT ![l] = Append(received[l], p)]
    BY <1>1 DEF Deliver
  <2>2. Append(received[l], p) \in Seq(Packets)
    BY <1>0, AppendIs
  <2>3. unread' \in [Links -> Nat] /\ \A k \in Links : unread'[k] <= RecvCap
    BY <1>0, <1>1, <2>1
  <2>4. /\ received' \in [Links -> Seq(Packets)]
        /\ \A k \in Links : k # l => received'[k] = received[k]
        /\ received'[l] = Append(received[l], p)
    BY <1>0, <2>1, <2>2
  <2> QED BY <1>0, <2>1, <2>3, <2>4 DEF ComesOut
<1>2. CASE ~(unread[l] < RecvCap)
  BY <1>0, <1>2 DEF Deliver, ComesOut
<1> QED BY <1>1, <1>2

LEMMA ReceiveKeeps ==
  ASSUME MuxIInv, NEW e \in Ends, NEW x \in net[e], Receive(e, x)
  PROVE  /\ MuxIInv' /\ sent' = sent
         /\ \E l \in Links : ComesOut(l)
<1> DEFINE l == <<e, x.flow>>
<1>1. /\ net' = [net EXCEPT ![e] = net[e] \ {x}]
      /\ UNCHANGED <<up, flows, control, asked, written, writing, send, sent>>
  BY DEF Receive
<1>2. /\ net' \in [Ends -> SUBSET Fragments] /\ FragmentsAreOnce'
      /\ x \in Fragments /\ l \in Links
      /\ \A k \in Links : OnWay(k)' \subseteq OnWay(k)
      /\ x \in OnWay(l) /\ x \notin OnWay(l)'
      /\ \A y \in OnWay(l) : y \in Fragments /\ y.flow = x.flow
  BY <1>1, Leaves
<1>3. /\ UNCHANGED tail \/ Accept(l, x)
  BY DEF Receive
<1> HIDE DEF l
<1>4. /\ LinkIsSound(l) /\ x.packet \in sent[l] /\ x.packet \notin ToSet(received[l])
      /\ unread \in [Links -> Nat] /\ received \in [Links -> Seq(Packets)]
      /\ \A k \in Links : unread[k] <= RecvCap
      /\ DOMAIN parts = Links /\ parts = [k \in Links |-> parts[k]]
      /\ IsFiniteSet(parts[l]) /\ Cardinality(parts[l]) <= PartsCap
      /\ \A a \in parts[l] : IsAssembly(a)
  BY <1>2, Bounds
  DEF MuxIInv, LinkIsSound, SequenceIsClear, ReceivedIsGone, Shapes, TypeOK
<1> SUFFICES MuxIInv' /\ ComesOut(l)
  BY <1>1, <1>2
<1>5. CASE UNCHANGED <<parts, unread, received>>
  <2>1. LinkIsSound(l)'
    BY <1>1, <1>2, <1>4, <1>5, LinkShrinks
  <2>2. MuxIInv'
    BY <1>1, <1>2, <1>4, <1>5, <2>1, TailKeeps
  <2> QED BY <2>2, <1>5 DEF ComesOut
<1>6. CASE x.packet.total = 1 /\ Deliver(l, x.packet) /\ UNCHANGED parts
  <2>1. \A y \in OnWay(l)' : y.packet # x.packet
    <3>1. \A y \in Fragments : y.packet.total = 1 => y.index = 0
      BY FragmentIs
    <3> QED BY <3>1, <1>2, <1>6, FragmentIs
  <2>2. \A a \in parts'[l] : \A i \in DOMAIN a.pieces : a.pieces[i] # x.packet
    <3>1. parts'[l] = parts[l] /\ \A a \in parts[l] : a.total # 1
      BY <1>4, <1>6 DEF IsAssembly
    <3>2. \A a \in parts[l] : \A i \in DOMAIN a.pieces : a.pieces[i].total = a.total
      BY <1>4 DEF LinkIsSound, AssembliesAreSound
    <3> QED BY <3>1, <3>2, <1>6
  <2>3. /\ unread' \in [Links -> Nat] /\ received' \in [Links -> Seq(Packets)]
        /\ \A k \in Links : unread'[k] <= RecvCap
        /\ \A k \in Links : k # l => received'[k] = received[k]
        /\ received'[l] = Append(received[l], x.packet) \/ received'[l] = received[l]
        /\ ComesOut(l)
    BY <1>2, <1>4, <1>6, DeliverIs
  <2>4. LinkIsSound(l)'
    BY <1>1, <1>2, <1>4, <1>6, <2>1, <2>2, <2>3, LinkDelivers
  <2>5. MuxIInv'
    BY <1>1, <1>2, <1>4, <1>6, <2>3, <2>4, TailKeeps
  <2> QED BY <2>3, <2>5
<1>7. CASE parts' = [parts EXCEPT ![l] = Live(l)] /\ UNCHANGED <<unread, received>>
  <2>1. /\ IsFiniteSet(Live(l)) /\ Cardinality(Live(l)) <= PartsCap
        /\ Live(l) \subseteq parts[l] /\ \A a \in Live(l) : IsAssembly(a)
    BY <1>2, LiveIsFinite
  <2>2. /\ parts'[l] = Live(l) /\ parts' = [k \in Links |-> parts'[k]]
        /\ \A k \in Links : k # l => parts'[k] = parts[k]
    BY <1>2, <1>4, <1>7
  <2>3. LinkIsSound(l)'
    BY <1>1, <1>2, <1>4, <1>7, <2>1, <2>2, LinkShrinks
  <2>4. MuxIInv'
    BY <1>1, <1>2, <1>4, <1>7, <2>1, <2>2, <2>3, TailKeeps
  <2> QED BY <2>4, <1>7 DEF ComesOut
<1>8. ASSUME NEW a \in Slot(l, x), x.packet.total # 1,
             a.total = x.packet.total, x.index \notin DOMAIN a.pieces,
             ~Complete(WithPiece(a, x)),
             parts' = [parts EXCEPT ![l] = (Live(l) \ {a}) \cup {WithPiece(a, x)}],
             UNCHANGED <<unread, received>>
      PROVE  MuxIInv' /\ ComesOut(l)
  <2> DEFINE b == WithPiece(a, x)
  <2>1. /\ IsAssembly(a)
        /\ a \in Live(l) \/ (a \notin Live(l) /\ Cardinality(Live(l)) < PartsCap)
    BY <1>2, <1>8, SlotIs
  <2>2. IsAssembly(b)
    BY <1>2, <1>8, <2>1, WithPieceIs
  <2>3. /\ parts'[l] = (Live(l) \ {a}) \cup {b} /\ parts' = [k \in Links |-> parts'[k]]
        /\ \A k \in Links : k # l => parts'[k] = parts[k]
    BY <1>2, <1>4, <1>8
  <2>4. LinkIsSound(l)'
    BY <1>1, <1>2, <1>8, <2>3, LinkTakesPiece
  <2> HIDE DEF b
  <2>5. /\ IsFiniteSet(Live(l)) /\ Cardinality(Live(l)) <= PartsCap
        /\ \A c \in Live(l) : IsAssembly(c)
    BY <1>2, LiveIsFinite
  <2>6. IsFiniteSet(parts'[l]) /\ Cardinality(parts'[l]) <= PartsCap
    <3>1. /\ PartsCap \in Nat
          /\ a \in Live(l) \/ Cardinality(Live(l)) < PartsCap
      BY <2>1, Bounds
    <3>2. /\ IsFiniteSet((Live(l) \ {a}) \cup {b})
          /\ Cardinality((Live(l) \ {a}) \cup {b}) <= PartsCap
      BY <3>1, <2>5, Bounds, ReplacedIsFinite
    <3> QED BY <3>2, <2>3
  <2>7. \A c \in parts'[l] : IsAssembly(c)
    BY <2>2, <2>3, <2>5
  <2>8. MuxIInv'
    BY <1>1, <1>2, <1>4, <1>8, <2>3, <2>4, <2>6, <2>7, TailKeeps
  <2> QED BY <2>8, <1>8 DEF ComesOut
<1>9. ASSUME NEW a \in Slot(l, x), x.packet.total # 1,
             a.total = x.packet.total, x.index \notin DOMAIN a.pieces,
             Complete(WithPiece(a, x)),
             parts' = [parts EXCEPT ![l] = Live(l) \ {a}],
             Deliver(l, Joined(WithPiece(a, x).total, WithPiece(a, x).pieces))
      PROVE  MuxIInv' /\ ComesOut(l)
  <2> DEFINE b == WithPiece(a, x)
  <2>1. /\ IsAssembly(a) /\ a.seq = Seq32(x.packet)
        /\ \A i \in DOMAIN a.pieces : a.pieces[i] = x.packet
        /\ \A c \in Live(l) \ {a} : c.seq # a.seq
        /\ \A y \in OnWay(l), i \in DOMAIN a.pieces : y.packet = x.packet => y.index # i
    BY <1>2, <1>9, SlotIs
  <2>2. /\ b.total = x.packet.total /\ DOMAIN b.pieces = DOMAIN a.pieces \cup {x.index}
        /\ \A i \in DOMAIN b.pieces : b.pieces[i] = x.packet
    <3>1. /\ b.total = a.total /\ DOMAIN b.pieces = DOMAIN a.pieces \cup {x.index}
          /\ b.pieces[x.index] = x.packet
          /\ \A i \in DOMAIN a.pieces \ {x.index} : b.pieces[i] = a.pieces[i]
      BY <1>2, <1>9, <2>1, WithPieceIs
    <3> QED BY <3>1, <1>9, <2>1
  <2>3. DOMAIN b.pieces = 0 .. x.packet.total - 1
    BY <1>9, <2>2 DEF Complete
  <2> HIDE DEF b
  <2>4. Joined(b.total, b.pieces) = x.packet
    <3>1. x.packet \in Packets /\ x.packet.total \in Nat /\ x.packet.total >= 1
      BY <1>2, FragmentIs, Bounds
    <3>2. 0 \in DOMAIN b.pieces
      BY <2>3, <3>1
    <3> QED BY <2>2, <2>3, <3>1, <3>2 DEF Joined
  <2>5. Deliver(l, x.packet)
    BY <1>9, <2>4 DEF b
  <2>6. /\ unread' \in [Links -> Nat] /\ received' \in [Links -> Seq(Packets)]
        /\ \A k \in Links : unread'[k] <= RecvCap
        /\ \A k \in Links : k # l => received'[k] = received[k]
        /\ received'[l] = Append(received[l], x.packet) \/ received'[l] = received[l]
        /\ ComesOut(l)
    BY <1>2, <1>4, <2>5, DeliverIs
  <2>7. /\ parts'[l] = Live(l) \ {a} /\ parts' = [k \in Links |-> parts'[k]]
        /\ \A k \in Links : k # l => parts'[k] = parts[k]
    BY <1>2, <1>4, <1>9
  <2>8. \A y \in OnWay(l)' : y.packet # x.packet
    <3>1. ASSUME NEW y \in OnWay(l)', y.packet = x.packet PROVE FALSE
      <4>1. y \in OnWay(l) /\ y \in Fragments /\ y.flow = x.flow /\ y # x
        BY <1>2, <3>1
      <4>2. y.index # x.index
        BY <1>2, <3>1, <4>1, FragmentIs
      <4>3. y.index \in 0 .. x.packet.total - 1
        BY <3>1, <4>1, FragmentIs, Bounds
      <4>4. y.index \in DOMAIN a.pieces
        BY <2>2, <2>3, <4>2, <4>3
      <4> QED BY <2>1, <3>1, <4>1, <4>4
    <3> QED BY <3>1
  <2>9. \A c \in parts'[l] : \A i \in DOMAIN c.pieces : c.pieces[i] # x.packet
    <3>1. ASSUME NEW c \in Live(l) \ {a}, NEW i \in DOMAIN c.pieces PROVE c.pieces[i] # x.packet
      <4>1. c \in parts[l] /\ c.seq # Seq32(x.packet)
        BY <2>1 DEF Live
      <4>2. Seq32(c.pieces[i]) = c.seq
        BY <1>4, <4>1 DEF LinkIsSound, AssembliesAreSound
      <4> QED BY <4>1, <4>2
    <3> QED BY <3>1, <2>7
  <2>10. /\ IsFiniteSet(Live(l)) /\ Cardinality(Live(l)) <= PartsCap
         /\ Cardinality(Live(l)) \in Nat /\ Live(l) \subseteq parts[l]
         /\ \A c \in Live(l) : IsAssembly(c)
    BY <1>2, LiveIsFinite
  <2>11. LinkIsSound(l)'
    BY <1>1, <1>2, <1>4, <2>6, <2>7, <2>8, <2>9, <2>10, LinkDelivers
  <2>12. IsFiniteSet(parts'[l]) /\ Cardinality(parts'[l]) <= PartsCap
    <3>1. IsFiniteSet(Live(l) \ {a}) /\ Cardinality(Live(l) \ {a}) <= Cardinality(Live(l))
      BY <2>10, FS_Subset
    <3>2. Cardinality(Live(l) \ {a}) \in Nat
      BY <3>1, FS_CardinalityType
    <3> QED BY <2>7, <2>10, <3>1, <3>2, Bounds
  <2>13. \A c \in parts'[l] : IsAssembly(c)
    BY <2>7, <2>10
  <2>14. MuxIInv'
    BY <1>1, <1>2, <1>4, <2>6, <2>7, <2>11, <2>12, <2>13, TailKeeps
  <2> QED BY <2>6, <2>14
<1>10. CASE Accept(l, x)
  BY <1>6, <1>7, <1>8, <1>9, <1>10 DEF Accept
<1> QED BY <1>3, <1>5, <1>10 DEF tail

LEMMA ReadKeeps == ASSUME MuxIInv, NEW l \in Links, Read(l) PROVE MuxIInv'
<1>1. /\ unread[l] > 0 /\ unread' = [unread EXCEPT ![l] = unread[l] - 1]
      /\ UNCHANGED <<up, flows, control, asked, written, writing, send, net, sent, parts, received>>
  BY DEF Read, wire
<1>2. /\ unread \in [Links -> Nat] /\ received' \in [Links -> Seq(Packets)]
      /\ \A k \in Links : unread[k] <= RecvCap
      /\ parts = [k \in Links |-> parts[k]] /\ net' \in [Ends -> SUBSET Fragments]
      /\ IsFiniteSet(parts[l]) /\ Cardinality(parts[l]) <= PartsCap
      /\ \A a \in parts[l] : IsAssembly(a)
      /\ LinkIsSound(l) /\ RecvCap \in Nat
  BY <1>1, Bounds DEF MuxIInv, Shapes, TypeOK, LinkIsSound
<1>3. unread' \in [Links -> Nat] /\ \A k \in Links : unread'[k] <= RecvCap
  BY <1>1, <1>2
<1>4. \A k \in Links : OnWay(k)' = OnWay(k)
  BY <1>1 DEF OnWay
<1>5. FragmentsAreOnce'
  BY <1>1 DEF MuxIInv, FragmentsAreOnce
<1>6. LinkIsSound(l)'
  BY <1>1, <1>2, <1>4, LinkShrinks
<1> QED BY <1>1, <1>2, <1>3, <1>4, <1>5, <1>6, TailKeeps

LEMMA AgeKeeps == ASSUME MuxIInv, NEW l \in Links, Age(l) PROVE MuxIInv'
<1>1. PICK a \in parts[l] :
        ~a.old /\ parts' = [parts EXCEPT ![l] = (parts[l] \ {a}) \cup {[a EXCEPT !.old = TRUE]}]
  BY DEF Age
<1>2. UNCHANGED <<up, flows, control, asked, written, writing, send, net, sent, unread, received>>
  BY DEF Age, wire
<1>3. /\ unread' \in [Links -> Nat] /\ received' \in [Links -> Seq(Packets)]
      /\ \A k \in Links : unread'[k] <= RecvCap
      /\ DOMAIN parts = Links /\ parts = [k \in Links |-> parts[k]]
      /\ net' \in [Ends -> SUBSET Fragments]
      /\ IsFiniteSet(parts[l]) /\ Cardinality(parts[l]) <= PartsCap /\ PartsCap \in Nat
      /\ \A c \in parts[l] : IsAssembly(c)
      /\ LinkIsSound(l)
  BY <1>2, Bounds DEF MuxIInv, Shapes, TypeOK, LinkIsSound
<1> DEFINE b == [a EXCEPT !.old = TRUE]
<1>4. IsAssembly(b) /\ b.seq = a.seq /\ b.pieces = a.pieces /\ b.total = a.total /\ b.old = TRUE
  <2>1. /\ a \in [seq : {a.seq}, total : Totals \ {1}, old : BOOLEAN, pieces : {a.pieces}]
        /\ DOMAIN a.pieces \subseteq 0 .. a.total - 1
        /\ a.pieces \in [DOMAIN a.pieces -> Packets]
    BY <1>1, <1>3 DEF IsAssembly
  <2>2. /\ b \in [seq : {a.seq}, total : Totals \ {1}, old : BOOLEAN, pieces : {a.pieces}]
        /\ b.seq = a.seq /\ b.pieces = a.pieces /\ b.total = a.total /\ b.old = TRUE
    BY <2>1
  <2> HIDE DEF b
  <2> QED BY <2>1, <2>2 DEF IsAssembly
<1>5. /\ parts'[l] = (parts[l] \ {a}) \cup {b} /\ parts' = [k \in Links |-> parts'[k]]
      /\ \A k \in Links : k # l => parts'[k] = parts[k]
  BY <1>1, <1>3
<1> HIDE DEF b
<1>6. IsFiniteSet(parts'[l]) /\ Cardinality(parts'[l]) <= PartsCap
  <2>1. /\ IsFiniteSet((parts[l] \ {a}) \cup {b})
        /\ Cardinality((parts[l] \ {a}) \cup {b}) <= PartsCap
    BY <1>1, <1>3, ReplacedIsFinite
  <2> QED BY <2>1, <1>5
<1>7. \A c \in parts'[l] : IsAssembly(c)
  BY <1>3, <1>4, <1>5
<1>8. \A k \in Links : OnWay(k)' = OnWay(k)
  BY <1>2 DEF OnWay
<1>9. FragmentsAreOnce'
  BY <1>2 DEF MuxIInv, FragmentsAreOnce
<1>10. LinkIsSound(l)'
  <2>1. Live(l)' \subseteq Live(l)
    BY <1>4, <1>5 DEF Live
  <2>2. SequenceIsClear(l)'
    BY <1>2, <1>3, <1>8, <2>1 DEF LinkIsSound, SequenceIsClear
  <2>3. AssembliesAreSound(l)'
    BY <1>1, <1>2, <1>3, <1>4, <1>5, <1>8 DEF LinkIsSound, AssembliesAreSound
  <2>4. ReceivedIsGone(l)'
    BY <1>1, <1>2, <1>3, <1>4, <1>5, <1>8 DEF LinkIsSound, ReceivedIsGone
  <2> QED BY <2>2, <2>3, <2>4 DEF LinkIsSound
<1> QED BY <1>2, <1>3, <1>5, <1>6, <1>7, <1>8, <1>9, <1>10, TailKeeps

-----------------------------------------------------------------------------
(* The theorems.                                                           *)

LEMMA MuxStarts == Init => MuxIInv
<1> SUFFICES ASSUME Init PROVE MuxIInv
  OBVIOUS
<1> USE DEF Init
<1>1. /\ ToSet(<<>>) = {} /\ IsInjective(<<>>) /\ \A S : <<>> \in Seq(S)
      /\ Len(<<>>) = 0 /\ IsFiniteSet({}) /\ Cardinality({}) = 0
  BY EmptyIs, FS_EmptySet
<1>2. \A l \in Links : l[1] \in Ends /\ l[2] \in Flows
  BY LinkParts
<1>3. \A l \in Links : OnWay(l) = {}
  BY <1>1, <1>2 DEF OnWay, OfFlow
<1>4. TypeOK
  <2>1. \A l \in Links : written[l] \in 0 .. MaxWrites[l[1]] /\ unread[l] \in 0 .. RecvCap
    BY <1>2, Bounds
  <2>2. \A e \in Ends : Len(send[e]) <= SendCap /\ ToSet(send[e]) \subseteq Fragments
    BY <1>1, Bounds
  <2>3. \A l \in Links : Cardinality(parts[l]) <= PartsCap /\ ToSet(writing[l]) \subseteq Fragments
    BY <1>1, Bounds
  <2> QED BY <2>1, <2>2, <2>3 DEF TypeOK
<1>5. Shapes
  BY <1>1 DEF Shapes
<1>6. FragmentsAreOnce
  BY <1>1, <1>2 DEF FragmentsAreOnce
<1>7. FlowsAreKnown
  <2>1. \A f \in Flows : <<"client", f>> \in Links /\ <<"server", f>> \in Links
    BY LinkParts DEF Ends
  <2> QED BY <1>3, <2>1 DEF FlowsAreKnown
<1>8. \A l \in Links : SequenceIsClear(l) /\ AssembliesAreSound(l) /\ ReceivedIsGone(l)
  BY <1>1, <1>3 DEF SequenceIsClear, AssembliesAreSound, ReceivedIsGone
<1> QED BY <1>4, <1>5, <1>6, <1>7, <1>8 DEF MuxIInv

LEMMA MuxStutters == ASSUME MuxIInv, UNCHANGED vars PROVE MuxIInv'
<1>1. UNCHANGED <<up, flows, control, asked>> /\ UNCHANGED <<wire, sent, tail>>
  BY DEF vars
<1>2. /\ up \in BOOLEAN /\ flows \in [Links -> {"never", "open", "closed"}]
      /\ control \in [Flows -> {"none", "requested", "replied", "live", "closed"}]
      /\ asked \subseteq Flows
  BY DEF MuxIInv, TypeOK
<1>3. /\ \A f \in Flows :
           f \in asked \/ control[f] # "none" \/ flows[<<"server", f>>] # "never" =>
             flows[<<"client", f>>] # "never"
      /\ \A f \in Flows : control[f] \in {"replied", "live"} => flows[<<"server", f>>] # "never"
  BY DEF MuxIInv, FlowsAreKnown
<1> QED BY <1>1, <1>2, <1>3, ControlKeeps

LEMMA MuxSteps == ASSUME MuxIInv, [Next]_vars PROVE MuxIInv'
<1>1. CASE \E f \in Flows : Dial(f) \/ Serve(f) \/ Deny(f) \/ Dialed(f)
  BY <1>1, DialKeeps, ServeKeeps, DenyKeeps
<1>2. CASE \E e \in Ends, f \in Flows : Close(e, f)
  BY <1>2, CloseKeeps
<1>3. CASE ConnectionEnds
  BY <1>3, ConnectionEndsKeeps
<1>4. CASE \E l \in Links : \E total \in Totals : Write(l, total)
  BY <1>4, WriteKeeps
<1>5. CASE \E l \in Links : Enqueue(l) \/ Read(l) \/ Age(l)
  BY <1>5, EnqueueKeeps, ReadKeeps, AgeKeeps
<1>6. CASE \E e \in Ends : Transmit(e) \/ Discard(e)
  BY <1>6, SenderKeeps
<1>7. CASE \E e \in Ends : \E x \in net[e] : Lose(e, x) \/ Receive(e, x)
  BY <1>7, LoseKeeps, ReceiveKeeps
<1>8. CASE UNCHANGED vars
  BY <1>8, MuxStutters
<1> QED BY <1>1, <1>2, <1>3, <1>4, <1>5, <1>6, <1>7, <1>8 DEF Next

\* The inductive invariant holds in every state, whatever the network loses,
\* the queues drop and the two ends close.
THEOREM MuxAlwaysIInv == Spec => []MuxIInv
<1>1. MuxIInv /\ [Next]_vars => MuxIInv'
  BY MuxSteps
<1> QED BY MuxStarts, <1>1, PTL DEF Spec, Safe

\* The queues, the assemblies and the unread packets of DatagramMux stay within
\* their limits, no assembly holds pieces of two packets, and no datagram is
\* early: for any number of flows, any limits, any space of sequence numbers.
THEOREM MuxAlwaysMuxInv == Spec => []MuxInv
<1>1. MuxIInv => MuxInv
  <2> SUFFICES ASSUME MuxIInv PROVE MuxInv
    OBVIOUS
  <2>1. PiecesBelongTogether
    BY DEF MuxIInv, AssembliesAreSound, PiecesBelongTogether
  <2>2. ASSUME NEW e \in Ends, NEW x \in net[e] PROVE flows[<<Peer(e), x.flow>>] # "never"
    <3>1. x \in Fragments /\ x.flow \in Flows
      BY FragmentIs DEF MuxIInv, Shapes
    <3> DEFINE l == <<e, x.flow>>
    <3>2. l \in Links /\ l[1] = e /\ l[2] = x.flow
      BY <3>1, LinkParts
    <3> HIDE DEF l
    <3>3. x \in OnWay(l)
      BY <3>2 DEF OnWay, OfFlow
    <3>4. flows[<<Peer(l[1]), l[2]>>] # "never"
      BY <3>2, <3>3 DEF MuxIInv, FlowsAreKnown
    <3> QED BY <3>2, <3>4
  <2> QED BY <2>1, <2>2 DEF MuxIInv, MuxInv, NoEarlyDatagram
<1> QED BY <1>1, MuxAlwaysIInv, PTL

\* All steps but Write and Receive leave alone what was sent and what came out.
LEMMA OthersCarryNothing ==
  ASSUME Next
  PROVE  \/ \E l \in Links : \E total \in Totals : Write(l, total)
         \/ \E e \in Ends : \E x \in net[e] : Receive(e, x)
         \/ UNCHANGED <<sent, received>>
<1> USE DEF tail
<1>1. CASE \E f \in Flows : Dial(f) \/ Serve(f) \/ Deny(f) \/ Dialed(f)
  BY <1>1 DEF Dial, Serve, Reply, Deny, Dialed
<1>2. CASE \E e \in Ends, f \in Flows : Close(e, f)
  BY <1>2 DEF Close
<1>3. CASE ConnectionEnds
  BY <1>3 DEF ConnectionEnds
<1>4. CASE \E l \in Links : Enqueue(l) \/ Read(l) \/ Age(l)
  BY <1>4 DEF Enqueue, Read, Age
<1>5. CASE \E e \in Ends : Transmit(e) \/ Discard(e)
  BY <1>5 DEF Transmit, Discard
<1>6. CASE \E e \in Ends : \E x \in net[e] : Lose(e, x)
  BY <1>6 DEF Lose
<1> QED BY <1>1, <1>2, <1>3, <1>4, <1>5, <1>6 DEF Next

\* Write is a Send of the channel.
LEMMA WriteSends ==
  ASSUME MuxIInv, NEW l \in Links, NEW total \in Totals, Write(l, total)
  PROVE  Channel!Next
<1>1. PICK p \in Packets : /\ p \notin sent[l]
                           /\ sent' = [sent EXCEPT ![l] = sent[l] \cup {p}]
  BY WriteKeeps
<1>2. received' = received
  BY DEF Write, tail
<1>3. Channel!Send(l, p)
  BY <1>1, <1>2 DEF Channel!Send
<1> QED BY <1>3 DEF Channel!Next

\* Receive is a Receive of the channel, unless nothing comes out.
LEMMA ReceiveReceives ==
  ASSUME MuxIInv, NEW e \in Ends, NEW x \in net[e], Receive(e, x)
  PROVE  Channel!Next \/ UNCHANGED <<sent, received>>
<1>1. sent' = sent
  BY ReceiveKeeps
<1>2. PICK l \in Links : ComesOut(l)
  BY ReceiveKeeps
<1>3. CASE received' = received
  BY <1>1, <1>3
<1>4. ASSUME NEW p \in Packets, p \in sent[l], p \notin ToSet(received[l]),
             received' = [received EXCEPT ![l] = Append(received[l], p)]
      PROVE  Channel!Next
  <2>1. \A i \in DOMAIN received[l] : received[l][i] # p
    BY <1>4 DEF ToSet
  <2>2. Channel!Receive(l, p)
    BY <1>1, <1>4, <2>1 DEF Channel!Receive
  <2> QED BY <2>2 DEF Channel!Next
<1> QED BY <1>2, <1>3, <1>4 DEF ComesOut

\* DatagramMux implements UdpChannel: every packet comes out whole, at most
\* once, and only at the other end of the flow it was written on, although
\* fragments are lost and reordered and sequence numbers are used again.
THEOREM MuxIsUdpChannel == Spec => IsUdpChannel
<1>1. Init => Channel!Init
  BY DEF Init, Channel!Init
<1>2. MuxIInv /\ [Next]_vars => [Channel!Next]_<<sent, received>>
  <2> SUFFICES ASSUME MuxIInv, [Next]_vars
               PROVE  Channel!Next \/ UNCHANGED <<sent, received>>
    OBVIOUS
  <2>1. CASE \E l \in Links : \E total \in Totals : Write(l, total)
    BY <2>1, WriteSends
  <2>2. CASE \E e \in Ends : \E x \in net[e] : Receive(e, x)
    BY <2>2, ReceiveReceives
  <2>3. CASE UNCHANGED <<sent, received>>
    BY <2>3
  <2>4. CASE UNCHANGED vars
    BY <2>4, <2>3 DEF vars, tail
  <2> QED BY <2>1, <2>2, <2>3, <2>4, OthersCarryNothing
<1> QED BY <1>1, <1>2, MuxAlwaysIInv, PTL DEF Spec, Safe, IsUdpChannel, Channel!Spec

==============================================================================
