-------------------------- MODULE MCGatewayStreams --------------------------
(* Two sessions, two streams and one place for them all: both streams of   *)
(* one session, or one of each. The sessions are alike, so it is enough    *)
(* that the stream that talks is of the first.                             *)
EXTENDS GatewayStreams

CONSTANTS s1, s2, a, b

MCOwners == {[st \in {a, b} |-> s1], [st \in {a, b} |-> IF st = a THEN s1 ELSE s2]}
=============================================================================
