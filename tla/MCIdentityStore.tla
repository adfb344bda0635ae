--------------------------- MODULE MCIdentityStore ---------------------------
EXTENDS IdentityStore, TLC

CONSTANTS u1, u2, s1, s2

\* The first user connects over both transports, so that a change of his
\* protocols concerns one of his sessions and not the other.
MCCert == s1 :> u1 @@ s2 :> u1
MCTransport == s1 :> "quic" @@ s2 :> "https"

\* Two selections that differ in every protocol but "https", and the empty
\* one, which provisionAWG rejects.
MCChoices == {{}, {"quic", "https"}, {"https", "awg"}}

=============================================================================
