--------------------------- MODULE MCManagedServer ---------------------------
EXTENDS ManagedServer, TLC

MCCert == <<>>
MCTransport == <<>>
MCChoices == {{"quic"}, {"awg"}}
=============================================================================
