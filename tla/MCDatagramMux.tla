---------------------------- MODULE MCDatagramMux ----------------------------
(* Instances of the datagram mux. *)
EXTENDS DatagramMux

\* The client sends enough for a sequence number to return.
Upload == [client |-> 3, server |-> 0]
=============================================================================
