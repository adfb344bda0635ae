\* Two identities, two sessions of the first one, one address fewer than the
\* users need when both want AWG.
SPECIFICATION Spec
CONSTANTS
  u1 = u1
  u2 = u2
  s1 = s1
  s2 = s2
  Ids = {u1, u2}
  Names = {n1, n2}
  Sessions = {s1, s2}
  Cert <- MCCert
  Transport <- MCTransport
  Choices <- MCChoices
  PoolSize = 1
  NoUser = NoUser
  NoSession = NoSession
INVARIANTS ServedOnlyIfEntitled MemoryMatchesDisk NothingLeftBehind
PROPERTIES DeletedForever RevokedSessionEnds
