---------------------------- MODULE MCMultipleVpn ----------------------------
(* One profile that takes every flow. *)
EXTENDS MultipleVpn

Everything(p) == [id |-> p, mode |-> "all", uids |-> {}, subnets |-> {}]

OneProfile == {[rules |-> <<Everything(p)>>, dns |-> p] : p \in Profiles}

\* The sessions are interchangeable: it is enough to start with one of them.
FirstSession ==
  VpnInit /\ current = [p \in Profiles |-> CHOOSE s \in Gateways : TRUE]

LiveSpec == FirstSession /\ [][VpnNext]_vpnVars /\ VpnFairness
=============================================================================
