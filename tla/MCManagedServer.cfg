\* No gateway sessions; two identities and two addresses, so that a freed
\* address is given to another while the worker is at work.
SPECIFICATION FleetSpec
CONSTANTS
  Ids = {u1, u2}
  Names = {n1, n2}
  Sessions = {}
  Cert <- MCCert
  Transport <- MCTransport
  Choices <- MCChoices
  PoolSize = 2
  NoUser = NoUser
  NoSession = NoSession
  NoPeer = NoPeer
INVARIANTS PeerOwnsItsAddress WorkerNeverStops
PROPERTIES RevokedPeerRemoved EntitledPeerConfigured
