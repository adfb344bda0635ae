----------------------------- MODULE UdpChannel -----------------------------
(***************************************************************************)
(* What a UDP flow promises its user, whatever carries it: datagrams may   *)
(* be lost and overtake each other, but each arrives whole, at most once,  *)
(* and only if the other side sent it.                                     *)
(***************************************************************************)
EXTENDS Sequences

CONSTANTS Links, Packets

VARIABLES
  sent,        \* the packets written on each link
  received     \* the packets that came out at its other end, in that order

Init == sent = [l \in Links |-> {}] /\ received = [l \in Links |-> <<>>]

Send(l, p) ==
  /\ p \notin sent[l]
  /\ sent' = [sent EXCEPT ![l] = @ \cup {p}]
  /\ UNCHANGED received

Receive(l, p) ==
  /\ p \in sent[l]
  /\ \A i \in DOMAIN received[l] : received[l][i] # p
  /\ received' = [received EXCEPT ![l] = Append(@, p)]
  /\ UNCHANGED sent

Next == \E l \in Links, p \in Packets : Send(l, p) \/ Receive(l, p)

Spec == Init /\ [][Next]_<<sent, received>>
=============================================================================
