------------------------- MODULE ManagedServerProofs -------------------------
(***************************************************************************)
(* Proofs about the identities of the managed server and those who use     *)
(* them, for any number of users, sessions and addresses.                  *)
(*                                                                         *)
(* First IdentityStore alone: StoreInv is inductive, the safety properties *)
(* are its conjuncts, and DeletedForever follows from it step by step.     *)
(* Then the store and the AWG worker together.  The second part uses of    *)
(* the first only StoreInv and Ageing: what the worker once read about an  *)
(* id does not become wrong while the file changes behind its back.        *)
(***************************************************************************)
EXTENDS ManagedServer, TLAPS, WellFoundedInduction

\* A nonempty set of addresses has a lowest one, so the search of
\* provisionAWG ends at an address whenever one is free.
LEMMA LowestExists ==
  ASSUME NEW T, T \subseteq Nat, T # {}
  PROVE  \E a \in T : \A b \in T : a <= b
<1>1. IsWellFoundedOn(OpToRel(<, Nat), Nat)
  BY NatLessThanWellFounded
<1>2. \E x \in T : \A y \in T : ~ (<<y, x>> \in OpToRel(<, Nat))
  BY <1>1, WFMin
<1>3. PICK x \in T : \A y \in T : ~ (<<y, x>> \in OpToRel(<, Nat))
  BY <1>2
<1>4. \A y \in T : ~ (y < x)
  BY <1>3 DEF OpToRel
<1> QED BY <1>4

\* provisionAWG keeps the address of the user, gives none, or gives one that
\* no other user has.
LEMMA ProvisionedIsFree ==
  ASSUME NEW u \in Ids, NEW ps, NEW awg \in Pool \cup {NoAddress},
         CanProvision(u, ps, awg)
  PROVE  LET a == Provisioned(u, ps, awg)
         IN  /\ a \in Pool \cup {NoAddress}
             /\ a = awg \/ a \in FreeAddresses(u)
<1>1. CASE "awg" \notin ps \/ awg # NoAddress
  BY <1>1 DEF Provisioned
<1>2. CASE ~("awg" \notin ps \/ awg # NoAddress)
  <2>1. FreeAddresses(u) # {} /\ FreeAddresses(u) \subseteq Nat
    BY <1>2 DEF CanProvision, FreeAddresses, Pool
  <2>2. \E a \in FreeAddresses(u) : \A b \in FreeAddresses(u) : a <= b
    BY <2>1, LowestExists
  <2>3. Provisioned(u, ps, awg) \in FreeAddresses(u)
    BY <1>2, <2>2 DEF Provisioned
  <2> QED BY <2>3 DEF FreeAddresses
<1> QED BY <1>1, <1>2

-----------------------------------------------------------------------------
\* The initial store satisfies the invariant.
LEMMA InitInv == Init => StoreInv
BY NoUserAssumption
DEF Init, StoreInv, TypeOK, Phases, ServedOnlyIfEntitled, ServedIsRegistered,
    Served, MemoryMatchesDisk, NoSharedNameOrAddress, NothingLeftBehind,
    KnownWasIssued, Known, SameUser

\* A failed or successful save leaves memory and file in agreement, and a
\* successful one installs the new map.
LEMMA CommitFacts ==
  ASSUME StoreInv, NEW new \in [Ids -> User \cup {NoUser}], NEW saved \in BOOLEAN,
         Commit(new, saved)
  PROVE  /\ users' \in [Ids -> User \cup {NoUser}]
         /\ disk' \in [Ids -> User \cup {NoUser}]
         /\ users' = (IF saved THEN new ELSE users)
         /\ MemoryMatchesDisk'
BY DEF StoreInv, TypeOK, Commit, MemoryMatchesDisk, SameUser

LEMMA CreateInv ==
  ASSUME StoreInv, NEW u \in Ids, NEW n \in Names, NEW ps \in SUBSET Protocols,
         NEW saved \in BOOLEAN, Create(u, n, ps, saved)
  PROVE  StoreInv'
<1> DEFINE rec == [name |-> n, protocols |-> ps, disabled |-> FALSE,
                   awg |-> Provisioned(u, ps, NoAddress), last |-> NoSession]
<1>1. Provisioned(u, ps, NoAddress) \in Pool \cup {NoAddress}
  BY ProvisionedIsFree DEF Create
<1>2. \/ Provisioned(u, ps, NoAddress) = NoAddress
      \/ Provisioned(u, ps, NoAddress) \in FreeAddresses(u)
  BY ProvisionedIsFree DEF Create
<1>3. rec \in User
  BY <1>1 DEF User
<1>4. [users EXCEPT ![u] = rec] \in [Ids -> User \cup {NoUser}]
  BY <1>3 DEF StoreInv, TypeOK
<1>5. Commit([users EXCEPT ![u] = rec], saved)
  BY DEF Create
<1>6. /\ users' \in [Ids -> User \cup {NoUser}]
      /\ disk' \in [Ids -> User \cup {NoUser}]
      /\ users' = (IF saved THEN [users EXCEPT ![u] = rec] ELSE users)
      /\ MemoryMatchesDisk'
  BY <1>4, <1>5, CommitFacts
<1>7. TypeOK'
  BY <1>6 DEF StoreInv, TypeOK, Create, sessionVars
<1>8. NoSharedNameOrAddress'
  BY <1>2, <1>6 DEF StoreInv, TypeOK, Create, NoSharedNameOrAddress, Known, FreeAddresses, TakenAddresses
<1>9. KnownWasIssued'
  BY <1>6 DEF StoreInv, TypeOK, Create, KnownWasIssued, Known
<1>10. NothingLeftBehind'
  BY <1>6 DEF StoreInv, TypeOK, Create, NothingLeftBehind, Known, sessionVars, KnownWasIssued
<1>11. ServedIsRegistered'
  BY <1>6 DEF StoreInv, TypeOK, Create, ServedIsRegistered, Served, sessionVars
<1>12. ServedOnlyIfEntitled'
  BY <1>6, CertAssumption
  DEF StoreInv, TypeOK, Create, ServedOnlyIfEntitled, Served, Entitled, Allows, Known,
      sessionVars, KnownWasIssued
<1> QED BY <1>6, <1>7, <1>8, <1>9, <1>10, <1>11, <1>12 DEF StoreInv

LEMMA RenameInv ==
  ASSUME StoreInv, NEW u \in Ids, NEW n \in Names, NEW saved \in BOOLEAN,
         Rename(u, n, saved)
  PROVE  StoreInv'
<1> DEFINE new == [users EXCEPT ![u].name = n]
<1>1. new \in [Ids -> User \cup {NoUser}]
  BY DEF StoreInv, TypeOK, Rename, Known, User
<1>2. /\ users' \in [Ids -> User \cup {NoUser}]
      /\ disk' \in [Ids -> User \cup {NoUser}]
      /\ users' = (IF saved THEN new ELSE users)
      /\ MemoryMatchesDisk'
  BY <1>1, CommitFacts DEF Rename
<1>3. \A v \in Ids :
        /\ users'[v] = NoUser <=> users[v] = NoUser
        /\ users[v] # NoUser => /\ users'[v].protocols = users[v].protocols
                                /\ users'[v].disabled = users[v].disabled
                                /\ users'[v].awg = users[v].awg
  BY <1>2, NoUserAssumption DEF StoreInv, TypeOK, Rename, Known, User
<1>4. TypeOK'
  BY <1>2 DEF StoreInv, TypeOK, Rename, sessionVars
<1>5. NoSharedNameOrAddress'
  BY <1>2, <1>3 DEF StoreInv, TypeOK, Rename, NoSharedNameOrAddress, Known, User
<1>6. KnownWasIssued' /\ NothingLeftBehind'
  BY <1>3 DEF StoreInv, Rename, KnownWasIssued, NothingLeftBehind, Known, sessionVars
<1>7. ServedIsRegistered'
  BY DEF StoreInv, Rename, ServedIsRegistered, Served, sessionVars
<1>8. ServedOnlyIfEntitled'
  BY <1>3, CertAssumption
  DEF StoreInv, Rename, ServedOnlyIfEntitled, Served, Entitled, Allows, Known, sessionVars
<1> QED BY <1>2, <1>4, <1>5, <1>6, <1>7, <1>8 DEF StoreInv

LEMMA DeleteInv ==
  ASSUME StoreInv, NEW u \in Ids, NEW saved \in BOOLEAN, Delete(u, saved)
  PROVE  StoreInv'
<1> DEFINE new == [users EXCEPT ![u] = NoUser]
<1>1. new \in [Ids -> User \cup {NoUser}]
  BY DEF StoreInv, TypeOK
<1>2. /\ users' \in [Ids -> User \cup {NoUser}]
      /\ disk' \in [Ids -> User \cup {NoUser}]
      /\ users' = (IF saved THEN new ELSE users)
      /\ MemoryMatchesDisk'
  BY <1>1, CommitFacts DEF Delete
<1>3. TypeOK'
  BY <1>2 DEF StoreInv, TypeOK, Delete, sessionVars
<1>4. NoSharedNameOrAddress'
  BY <1>2 DEF StoreInv, TypeOK, NoSharedNameOrAddress, Known
<1>5. KnownWasIssued'
  BY <1>2 DEF StoreInv, TypeOK, Delete, KnownWasIssued, Known
<1>6. NothingLeftBehind'
  BY <1>2 DEF StoreInv, TypeOK, Delete, NothingLeftBehind, Known, sessionVars
<1>7. ServedIsRegistered'
  BY CertAssumption
  DEF StoreInv, TypeOK, Delete, ServedIsRegistered, Served, sessionVars
<1>8. ServedOnlyIfEntitled'
  BY <1>2, CertAssumption
  DEF StoreInv, TypeOK, Delete, ServedOnlyIfEntitled, ServedIsRegistered,
      Served, Entitled, Allows, Known, sessionVars
<1> QED BY <1>2, <1>3, <1>4, <1>5, <1>6, <1>7, <1>8 DEF StoreInv

LEMMA SetProtocolsInv ==
  ASSUME StoreInv, NEW u \in Ids, NEW ps \in SUBSET Protocols,
         NEW d \in BOOLEAN, NEW saved \in BOOLEAN,
         SetProtocols(u, ps, d, saved)
  PROVE  StoreInv'
<1> DEFINE addr == Provisioned(u, ps, users[u].awg)
           rec == [users[u] EXCEPT !.protocols = ps, !.disabled = d, !.awg = addr]
           new == [users EXCEPT ![u] = rec]
<1>1. users[u] \in User /\ users[u].awg \in Pool \cup {NoAddress}
  BY DEF StoreInv, TypeOK, SetProtocols, Known, User
<1>2. /\ addr \in Pool \cup {NoAddress}
      /\ addr = users[u].awg \/ addr \in FreeAddresses(u)
  BY <1>1, ProvisionedIsFree DEF SetProtocols
<1> HIDE DEF addr
<1>3. /\ rec \in User
      /\ rec.name = users[u].name
      /\ rec.awg = addr
      /\ rec.disabled = d
      /\ rec.protocols = ps
  BY <1>1, <1>2 DEF User
<1>4. Commit(new, saved)
  BY DEF SetProtocols, addr
<1> HIDE DEF rec
<1>5. /\ users' \in [Ids -> User \cup {NoUser}]
      /\ disk' \in [Ids -> User \cup {NoUser}]
      /\ users' = (IF saved THEN new ELSE users)
      /\ MemoryMatchesDisk'
  <2>1. new \in [Ids -> User \cup {NoUser}]
    BY <1>3 DEF StoreInv, TypeOK
  <2> QED BY <2>1, <1>4, CommitFacts
<1>6. /\ \A v \in Ids \ {u} : users'[v] = users[v]
      /\ users'[u] # NoUser
      /\ users'[u].name = users[u].name
      /\ users'[u].awg = users[u].awg \/ users'[u].awg \in FreeAddresses(u)
      /\ users'[u].disabled = (IF saved THEN d ELSE users[u].disabled)
      /\ users'[u].protocols = (IF saved THEN ps ELSE users[u].protocols)
  BY <1>1, <1>2, <1>3, <1>5, NoUserAssumption DEF StoreInv, TypeOK, SetProtocols, Known
<1>7. TypeOK'
  BY <1>5 DEF StoreInv, TypeOK, SetProtocols, Excluded, sessionVars
<1>8. NoSharedNameOrAddress'
  BY <1>6 DEF StoreInv, NoSharedNameOrAddress, Known, FreeAddresses, TakenAddresses,
      SetProtocols
<1>9. KnownWasIssued' /\ NothingLeftBehind'
  BY <1>6 DEF StoreInv, SetProtocols, KnownWasIssued, NothingLeftBehind, Known, sessionVars
<1>10. ServedIsRegistered'
  BY DEF StoreInv, SetProtocols, ServedIsRegistered, Served, sessionVars
<1>11. ServedOnlyIfEntitled'
  BY <1>6, CertAssumption
  DEF StoreInv, SetProtocols, Excluded, ServedOnlyIfEntitled, ServedIsRegistered,
      Served, Entitled, Allows, Known, sessionVars
<1> QED BY <1>5, <1>7, <1>8, <1>9, <1>10, <1>11 DEF StoreInv

-----------------------------------------------------------------------------
\* Steps that leave the user map and the file alone: only the conjuncts about
\* sessions can change.
LEMMA UsersUnchanged ==
  ASSUME StoreInv, users' = users, disk' = disk, issued' = issued
  PROVE  MemoryMatchesDisk' /\ NoSharedNameOrAddress' /\ KnownWasIssued'
BY DEF StoreInv, MemoryMatchesDisk, NoSharedNameOrAddress, KnownWasIssued, Known

LEMMA CallCloserInv ==
  ASSUME StoreInv, NEW s \in Sessions, CallCloser(s)
  PROVE  StoreInv'
<1>1. TypeOK'
  BY DEF StoreInv, TypeOK, CallCloser
<1>2. NothingLeftBehind'
  BY DEF StoreInv, CallCloser, NothingLeftBehind, Known
<1>3. ServedIsRegistered' /\ ServedOnlyIfEntitled'
  BY DEF StoreInv, CallCloser, ServedIsRegistered, ServedOnlyIfEntitled, Served,
      Entitled, Allows, Known
<1> QED BY <1>1, <1>2, <1>3, UsersUnchanged DEF StoreInv, CallCloser

LEMMA ConnectInv ==
  ASSUME StoreInv, NEW s \in Sessions, Connect(s)
  PROVE  StoreInv'
<1>1. TypeOK'
  BY DEF StoreInv, TypeOK, Connect, Goto, Phases, storeVars
<1>2. NothingLeftBehind'
  BY DEF StoreInv, TypeOK, Connect, Goto, NothingLeftBehind, Known, storeVars
<1>3. ServedIsRegistered' /\ ServedOnlyIfEntitled'
  BY DEF StoreInv, TypeOK, Connect, Goto, ServedIsRegistered, ServedOnlyIfEntitled,
      Served, Entitled, Allows, Known, storeVars
<1> QED BY <1>1, <1>2, <1>3, UsersUnchanged DEF StoreInv, Connect, storeVars

LEMMA RegisterInv ==
  ASSUME StoreInv, NEW s \in Sessions, Register(s)
  PROVE  StoreInv'
<1> USE CertAssumption
<1>1. TypeOK'
  BY DEF StoreInv, TypeOK, Register, Goto, Phases
<1>2. NothingLeftBehind'
  BY DEF StoreInv, TypeOK, Register, Allowed, Goto, NothingLeftBehind, Known
<1>3. ServedIsRegistered' /\ ServedOnlyIfEntitled'
  BY DEF StoreInv, TypeOK, Register, Allowed, Goto, ServedIsRegistered,
      ServedOnlyIfEntitled, Served, Entitled, Allows, Known
<1> QED BY <1>1, <1>2, <1>3, UsersUnchanged DEF StoreInv, Register

LEMMA RegisterRefusedInv ==
  ASSUME StoreInv, NEW s \in Sessions, RegisterRefused(s)
  PROVE  StoreInv'
<1>1. TypeOK'
  BY DEF StoreInv, TypeOK, RegisterRefused, Goto, Phases, storeVars
<1>2. NothingLeftBehind'
  BY DEF StoreInv, TypeOK, RegisterRefused, Goto, NothingLeftBehind, Known, storeVars
<1>3. ServedIsRegistered' /\ ServedOnlyIfEntitled'
  BY DEF StoreInv, TypeOK, RegisterRefused, Goto, ServedIsRegistered,
      ServedOnlyIfEntitled, Served, Entitled, Allows, Known, storeVars
<1> QED BY <1>1, <1>2, <1>3, UsersUnchanged DEF StoreInv, RegisterRefused, storeVars

LEMMA DisconnectInv ==
  ASSUME StoreInv, NEW s \in Sessions, Disconnect(s)
  PROVE  StoreInv'
<1>1. TypeOK'
  BY DEF StoreInv, TypeOK, Disconnect, storeVars
<1>2. NothingLeftBehind'
  BY DEF StoreInv, Disconnect, NothingLeftBehind, Known, storeVars
<1>3. ServedIsRegistered' /\ ServedOnlyIfEntitled'
  BY DEF StoreInv, Disconnect, ServedIsRegistered, ServedOnlyIfEntitled, Served,
      Entitled, Allows, Known, storeVars
<1> QED BY <1>1, <1>2, <1>3, UsersUnchanged DEF StoreInv, Disconnect, storeVars

LEMMA ReleaseInv ==
  ASSUME StoreInv, NEW s \in Sessions, Release(s)
  PROVE  StoreInv'
<1> USE CertAssumption
<1>1. TypeOK'
  BY DEF StoreInv, TypeOK, Release, Goto, Phases
<1>2. NothingLeftBehind'
  BY DEF StoreInv, TypeOK, Release, Goto, NothingLeftBehind, Known
<1>3. ServedIsRegistered' /\ ServedOnlyIfEntitled'
  BY DEF StoreInv, TypeOK, Release, Goto, ServedIsRegistered, ServedOnlyIfEntitled,
      Served, Entitled, Allows, Known
<1> QED BY <1>1, <1>2, <1>3, UsersUnchanged DEF StoreInv, Release

LEMMA ExpireInv ==
  ASSUME StoreInv, NEW u \in Ids, Expire(u)
  PROVE  StoreInv'
<1>1. TypeOK'
  BY DEF StoreInv, TypeOK, Expire, sessionVars
<1>2. NothingLeftBehind' /\ ServedIsRegistered' /\ ServedOnlyIfEntitled'
  BY DEF StoreInv, Expire, NothingLeftBehind, ServedIsRegistered,
      ServedOnlyIfEntitled, Served, Entitled, Allows, Known, sessionVars
<1> QED BY <1>1, <1>2, UsersUnchanged DEF StoreInv, Expire

-----------------------------------------------------------------------------
\* Track and done rewrite the metadata of one user only, and when their save
\* fails memory and file still describe the same users.
LEMMA MetadataFacts ==
  ASSUME StoreInv, NEW u \in Ids, Known(u), NEW l \in Sessions, NEW saved \in BOOLEAN,
         SaveMetadata([users EXCEPT ![u].last = l], saved), issued' = issued
  PROVE  /\ users' \in [Ids -> User \cup {NoUser}]
         /\ disk' \in [Ids -> User \cup {NoUser}]
         /\ \A v \in Ids : SameUser(users[v], users'[v])
         /\ MemoryMatchesDisk' /\ NoSharedNameOrAddress' /\ KnownWasIssued'
<1> DEFINE rec == [users[u] EXCEPT !.last = l]
<1>1. users[u] \in User
  BY DEF StoreInv, TypeOK, Known
<1>2. rec \in User /\ SameUser(users[u], rec)
  BY <1>1, NoUserAssumption DEF User, SameUser
<1>3. users' = [users EXCEPT ![u] = rec] /\ disk' = (IF saved THEN users' ELSE disk)
  BY DEF SaveMetadata
<1> HIDE DEF rec
<1>4. /\ users' \in [Ids -> User \cup {NoUser}]
      /\ disk' \in [Ids -> User \cup {NoUser}]
  BY <1>2, <1>3 DEF StoreInv, TypeOK
<1>5. \A v \in Ids : SameUser(users[v], users'[v])
  BY <1>2, <1>3 DEF StoreInv, TypeOK, SameUser
<1>6. MemoryMatchesDisk'
  BY <1>3, <1>5 DEF StoreInv, MemoryMatchesDisk, SameUser
<1>7. NoSharedNameOrAddress' /\ KnownWasIssued'
  BY <1>5 DEF StoreInv, NoSharedNameOrAddress, KnownWasIssued, SameUser, Known
<1> QED BY <1>4, <1>5, <1>6, <1>7

LEMMA TrackInv ==
  ASSUME StoreInv, NEW s \in Sessions, NEW saved \in BOOLEAN, Track(s, saved)
  PROVE  StoreInv'
<1> USE CertAssumption
<1>1. CASE Allowed(Cert[s])
  <2>1. /\ users' \in [Ids -> User \cup {NoUser}]
        /\ disk' \in [Ids -> User \cup {NoUser}]
        /\ \A v \in Ids : SameUser(users[v], users'[v])
        /\ MemoryMatchesDisk' /\ NoSharedNameOrAddress' /\ KnownWasIssued'
    <3>1. /\ Cert[s] \in Ids /\ Known(Cert[s]) /\ issued' = issued
          /\ SaveMetadata([users EXCEPT ![Cert[s]].last = s], saved)
      BY <1>1 DEF Track, Allowed
    <3> QED BY <3>1, MetadataFacts
  <2>2. TypeOK'
    <3>1. /\ Goto(s, "registered", "serving")
          /\ stats' = [stats EXCEPT ![Cert[s]] = @ \cup {s}]
          /\ UNCHANGED <<issued, expired, active, closing, open>>
      BY <1>1 DEF Track
    <3> QED BY <2>1, <3>1 DEF StoreInv, TypeOK, Goto, Phases
  <2>3. NothingLeftBehind'
    BY <1>1, <2>1 DEF StoreInv, TypeOK, Track, Goto, NothingLeftBehind, Known, SameUser, Allowed
  <2>4. ServedIsRegistered' /\ ServedOnlyIfEntitled'
    BY <1>1, <2>1 DEF StoreInv, TypeOK, Track, Goto, ServedIsRegistered,
        ServedOnlyIfEntitled, Served, Entitled, Allows, Known, SameUser
  <2> QED BY <2>1, <2>2, <2>3, <2>4 DEF StoreInv
<1>2. CASE ~Allowed(Cert[s])
  <2>1. TypeOK'
    BY <1>2 DEF StoreInv, TypeOK, Track, Goto, Phases
  <2>2. NothingLeftBehind'
    BY <1>2 DEF StoreInv, TypeOK, Track, Goto, NothingLeftBehind, Known
  <2>3. ServedIsRegistered' /\ ServedOnlyIfEntitled'
    BY <1>2 DEF StoreInv, TypeOK, Track, Goto, ServedIsRegistered,
        ServedOnlyIfEntitled, Served, Entitled, Allows, Known
  <2> QED BY <1>2, <2>1, <2>2, <2>3, UsersUnchanged DEF StoreInv, Track
<1> QED BY <1>1, <1>2

LEMMA DoneInv ==
  ASSUME StoreInv, NEW s \in Sessions, NEW saved \in BOOLEAN, Done(s, saved)
  PROVE  StoreInv'
<1> USE CertAssumption
<1>1. users' = users /\ (disk' = disk \/ disk' = users)
  BY DEF Done, SaveMetadata
<1>2. MemoryMatchesDisk' /\ NoSharedNameOrAddress' /\ KnownWasIssued'
  BY <1>1 DEF StoreInv, Done, MemoryMatchesDisk, SameUser, NoSharedNameOrAddress,
      KnownWasIssued, Known
<1>3. TypeOK'
  BY <1>1 DEF StoreInv, TypeOK, Done, Goto, Phases
<1>4. NothingLeftBehind'
  BY <1>1 DEF StoreInv, TypeOK, Done, Goto, NothingLeftBehind, Known
<1>5. ServedIsRegistered' /\ ServedOnlyIfEntitled'
  BY <1>1 DEF StoreInv, TypeOK, Done, Goto, ServedIsRegistered, ServedOnlyIfEntitled,
      Served, Entitled, Allows, Known
<1> QED BY <1>2, <1>3, <1>4, <1>5 DEF StoreInv

\* A restart loads what MemoryMatchesDisk says it loads.
LEMMA RestartInv ==
  ASSUME StoreInv, Restart
  PROVE  StoreInv'
<1>1. TypeOK'
  BY DEF StoreInv, TypeOK, Restart, Phases
<1>2. MemoryMatchesDisk' /\ NoSharedNameOrAddress' /\ KnownWasIssued'
  BY DEF StoreInv, Restart, MemoryMatchesDisk, SameUser, NoSharedNameOrAddress,
      KnownWasIssued, Known
<1>3. NothingLeftBehind' /\ ServedIsRegistered' /\ ServedOnlyIfEntitled'
  BY DEF Restart, NothingLeftBehind, ServedIsRegistered, ServedOnlyIfEntitled, Served
<1> QED BY <1>1, <1>2, <1>3 DEF StoreInv

-----------------------------------------------------------------------------
\* Every step of the store, of a session or of the environment, and every
\* stuttering step, preserves the invariant.
LEMMA NextInv == StoreInv /\ [Next]_vars => StoreInv'
<1> SUFFICES ASSUME StoreInv, [Next]_vars PROVE StoreInv'
  OBVIOUS
<1>1. CASE Admin
  <2>1. PICK u \in Ids, saved \in BOOLEAN :
           \/ \E n \in Names, ps \in Choices : Create(u, n, ps, saved)
           \/ \E n \in Names : Rename(u, n, saved)
           \/ Delete(u, saved)
           \/ \E ps \in Choices, d \in BOOLEAN : SetProtocols(u, ps, d, saved)
    BY <1>1 DEF Admin
  <2> QED BY <2>1, ChoicesAssumption, CreateInv, RenameInv, DeleteInv, SetProtocolsInv
<1>2. ASSUME NEW s \in Sessions, CallCloser(s) \/ Gateway(s)
      PROVE  StoreInv'
  BY <1>2, CallCloserInv, ConnectInv, RegisterInv, RegisterRefusedInv, TrackInv,
     DisconnectInv, DoneInv, ReleaseInv DEF Gateway
<1>3. ASSUME NEW u \in Ids, Expire(u) PROVE StoreInv'
  BY <1>3, ExpireInv
<1>4. CASE Restart
  BY <1>4, RestartInv
<1>5. CASE UNCHANGED vars
  BY <1>5 DEF vars, StoreInv, TypeOK, ServedOnlyIfEntitled, ServedIsRegistered,
      MemoryMatchesDisk, NoSharedNameOrAddress, NothingLeftBehind, KnownWasIssued,
      Served, Entitled, Allows, Known
<1> QED BY <1>1, <1>2, <1>3, <1>4, <1>5 DEF Next

\* The invariant holds in every reachable state, whatever the numbers of
\* users, sessions and addresses.
THEOREM StoreInvariant == Spec => []StoreInv
<1>1. Spec => Init /\ [][Next]_vars
  BY DEF Spec
<1> QED BY <1>1, InitInv, NextInv, PTL

\* Store.mu serializes registration and revocation: no connection is served
\* for a user who was deleted, disabled or lost the protocol, except while the
\* revoking handler is on its way to the closer.
THEOREM RevocationIsComplete == Spec => []ServedOnlyIfEntitled
<1>1. StoreInv => ServedOnlyIfEntitled
  BY DEF StoreInv
<1> QED BY <1>1, StoreInvariant, PTL

\* Failed saves and crashes never make memory and identities.json disagree
\* about an administrative change.
THEOREM SavedOrUndone == Spec => []MemoryMatchesDisk
<1>1. StoreInv => MemoryMatchesDisk
  BY DEF StoreInv
<1> QED BY <1>1, StoreInvariant, PTL

\* No two users share a name or an AWG address.
THEOREM UsersAreDistinct == Spec => []NoSharedNameOrAddress
<1>1. StoreInv => NoSharedNameOrAddress
  BY DEF StoreInv
<1> QED BY <1>1, StoreInvariant, PTL

\* Sessions and deletions leave no closer and no accounting behind.
THEOREM RegistrationsAreReleased == Spec => []NothingLeftBehind
<1>1. StoreInv => NothingLeftBehind
  BY DEF StoreInv
<1> QED BY <1>1, StoreInvariant, PTL

-----------------------------------------------------------------------------
\* What one step may do to an entry: ids are handed out once, a deleted one
\* stays deleted, and an address is kept as long as its user exists.
Ageing(u) ==
  /\ u \in issued => u \in issued'
  /\ u \in issued /\ users[u] = NoUser => users'[u] = NoUser
  /\ Known(u) /\ users[u].awg # NoAddress /\ users'[u] # NoUser
       => users'[u].awg = users[u].awg

LEMMA AdminAgeing ==
  ASSUME StoreInv, Admin, NEW v \in Ids
  PROVE  Ageing(v)
<1> USE NoUserAssumption
<1>1. ASSUME NEW u \in Ids, NEW saved \in BOOLEAN, NEW n \in Names, NEW ps \in Choices,
             Create(u, n, ps, saved)
      PROVE  Ageing(v)
  <2>1. /\ issued \subseteq issued' /\ u \notin issued
        /\ users' = users \/ \E r : users' = [users EXCEPT ![u] = r]
    BY <1>1 DEF Create, Commit
  <2> QED BY <2>1 DEF Ageing, StoreInv, TypeOK, KnownWasIssued, Known
<1>2. ASSUME NEW u \in Ids, NEW saved \in BOOLEAN, NEW n \in Names, Rename(u, n, saved)
      PROVE  Ageing(v)
  <2>1. users[u] \in User /\ issued' = issued
    BY <1>2 DEF Rename, StoreInv, TypeOK, Known
  <2>2. users' = users \/ users' = [users EXCEPT ![u].name = n]
    BY <1>2 DEF Rename, Commit
  <2> QED BY <2>1, <2>2 DEF Ageing, StoreInv, TypeOK, User, Known
<1>3. ASSUME NEW u \in Ids, NEW saved \in BOOLEAN, Delete(u, saved)
      PROVE  Ageing(v)
  BY <1>3 DEF Delete, Commit, Ageing, StoreInv, TypeOK, Known
<1>4. ASSUME NEW u \in Ids, NEW saved \in BOOLEAN, NEW ps \in Choices, NEW d \in BOOLEAN,
             SetProtocols(u, ps, d, saved)
      PROVE  Ageing(v)
  <2> DEFINE rec == [users[u] EXCEPT !.protocols = ps, !.disabled = d,
                                     !.awg = Provisioned(u, ps, users[u].awg)]
  <2>1. users[u] \in User /\ issued' = issued
    BY <1>4 DEF SetProtocols, StoreInv, TypeOK, Known
  <2>2. users' = users \/ users' = [users EXCEPT ![u] = rec]
    BY <1>4 DEF SetProtocols, Commit
  <2>3. rec.awg = Provisioned(u, ps, users[u].awg)
    BY <2>1 DEF User
  <2>4. users[u].awg # NoAddress => rec.awg = users[u].awg
    BY <2>3 DEF Provisioned
  <2> HIDE DEF rec
  <2> QED BY <2>1, <2>2, <2>4 DEF Ageing, StoreInv, TypeOK, Known
<1> QED BY <1>1, <1>2, <1>3, <1>4 DEF Admin

LEMMA StepAgeing ==
  ASSUME StoreInv, [Next]_vars, NEW v \in Ids
  PROVE  Ageing(v)
<1> USE CertAssumption
<1>1. CASE Admin
  BY <1>1, AdminAgeing
<1>2. ASSUME NEW s \in Sessions, CallCloser(s) \/ Gateway(s)
      PROVE  Ageing(v)
  <2>1. ASSUME NEW saved \in BOOLEAN, Track(s, saved), Allowed(Cert[s])
        PROVE  Ageing(v)
    <3>1. /\ Cert[s] \in Ids /\ Known(Cert[s]) /\ issued' = issued
          /\ SaveMetadata([users EXCEPT ![Cert[s]].last = s], saved)
      BY <2>1 DEF Track, Allowed
    <3>2. SameUser(users[v], users'[v])
      BY <3>1, MetadataFacts
    <3> QED BY <3>1, <3>2 DEF Ageing, SameUser, Known
  <2>2. ASSUME NEW saved \in BOOLEAN, Track(s, saved), ~Allowed(Cert[s])
        PROVE  users' = users /\ issued' = issued
    BY <2>2 DEF Track
  <2>3. ASSUME NEW saved \in BOOLEAN, Done(s, saved)
        PROVE  users' = users /\ issued' = issued
    BY <2>3 DEF Done, SaveMetadata
  <2>4. CASE CallCloser(s) \/ Connect(s) \/ Register(s) \/ RegisterRefused(s)
             \/ Disconnect(s) \/ Release(s)
    BY <2>4 DEF Ageing, CallCloser, Connect, Register, RegisterRefused, Disconnect,
        Release, storeVars
  <2> QED BY <1>2, <2>1, <2>2, <2>3, <2>4 DEF Gateway, Ageing
<1>3. ASSUME NEW u \in Ids, Expire(u) PROVE Ageing(v)
  BY <1>3 DEF Expire, Ageing
<1>4. CASE Restart
  BY <1>4 DEF Restart, Ageing, StoreInv, MemoryMatchesDisk, SameUser, Known
<1>5. CASE UNCHANGED vars
  BY <1>5 DEF vars, Ageing
<1> QED BY <1>1, <1>2, <1>3, <1>4, <1>5 DEF Next

\* A deleted identity never comes back: not by a failed save, not by a restart
\* from the file, not by a new user, who gets a new id.
THEOREM DeletionIsForever == Spec => DeletedForever
<1>1. StoreInv /\ [Next]_vars
        => [\A u \in issued : users[u] = NoUser => users'[u] = NoUser]_vars
  <2> SUFFICES ASSUME StoreInv, [Next]_vars, NEW u \in issued, users[u] = NoUser
               PROVE  users'[u] = NoUser
    OBVIOUS
  <2>1. u \in Ids
    BY DEF StoreInv, TypeOK
  <2> QED BY <2>1, StepAgeing DEF Ageing
<1>2. Spec => [][Next]_vars
  BY DEF Spec
<1> QED BY <1>1, <1>2, StoreInvariant, PTL DEF DeletedForever

-----------------------------------------------------------------------------
(* The store and the worker.                                               *)

LEMMA FleetInitInv == FleetInit => FleetInv
BY InitInv, NoPeerAssumption
DEF FleetInit, FleetInv, Worker!Init, Worker!Unconfigured, Worker!TypeOK,
    PeerOwnsItsAddress, RouteHasPeer, ReadAddressIsCurrent, ApplyOrder

\* The file holds no duplicate address, because memory and file agree on
\* addresses and memory holds none.
LEMMA NoDuplicate ==
  ASSUME StoreInv
  PROVE  ~Worker!Duplicate
<1>1. \A u \in Ids : Worker!Enabled(u) =>
        Known(u) /\ Worker!Wanted[u] = users[u].awg /\ users[u].awg # NoAddress
  BY DEF Worker!Enabled, Worker!Wanted, StoreInv, MemoryMatchesDisk, SameUser, Known
<1>2. \A u \in Ids : ~Worker!Enabled(u) => Worker!Wanted[u] = NoAddress
  BY DEF Worker!Wanted
<1> QED BY <1>1, <1>2 DEF Worker!Duplicate, StoreInv, NoSharedNameOrAddress

\* A step of the store leaves the worker's picture valid.
LEMMA StoreStepInv ==
  ASSUME FleetInv, [Next]_vars, UNCHANGED workerVars
  PROVE  FleetInv'
<1>1. StoreInv'
  BY NextInv DEF FleetInv
<1>2. \A u \in Ids : Ageing(u)
  BY StepAgeing DEF FleetInv
<1>3. ReadAddressIsCurrent'
  BY <1>2 DEF FleetInv, workerVars, ReadAddressIsCurrent, Ageing, Known
<1>4. Worker!TypeOK' /\ PeerOwnsItsAddress' /\ RouteHasPeer' /\ ApplyOrder'
  BY DEF FleetInv, workerVars, Worker!TypeOK, PeerOwnsItsAddress, RouteHasPeer, ApplyOrder
<1> QED BY <1>1, <1>3, <1>4 DEF FleetInv

\* A step of the worker leaves the store alone.
LEMMA StoreUntouched ==
  ASSUME StoreInv, UNCHANGED vars
  PROVE  StoreInv'
BY NextInv

LEMMA TickInv ==
  ASSUME FleetInv, Worker!Tick, UNCHANGED vars
  PROVE  FleetInv'
<1>1. \A u \in Ids : Worker!Wanted[u] # NoAddress =>
        /\ Known(u) /\ users[u].awg = Worker!Wanted[u]
        /\ users[u].awg \in Pool
  BY DEF FleetInv, StoreInv, TypeOK, User, Worker!Enabled, Worker!Wanted,
      MemoryMatchesDisk, SameUser, Known
<1>2. Worker!Wanted \in [Ids -> Pool \cup {NoAddress}]
  BY <1>1 DEF Worker!Wanted
<1>3. desired' = Worker!Wanted /\ stage' = "revoking" /\ peers' = peers /\ route' = route
  BY DEF Worker!Tick
<1>4. Worker!TypeOK'
  BY <1>2, <1>3 DEF FleetInv, Worker!TypeOK
<1>5. ReadAddressIsCurrent'
  BY <1>1, <1>3 DEF FleetInv, StoreInv, KnownWasIssued, ReadAddressIsCurrent, Known, vars
<1>6. ApplyOrder'
  <2>1. \A u, v \in Ids : u # v /\ desired'[u] = desired'[v] => desired'[u] = NoAddress
    BY <1>3 DEF Worker!Tick, Worker!Duplicate
  <2>2. \A u \in Ids : NoAddress \notin {peers'[u], desired'[u]} => peers'[u] = desired'[u]
    BY <1>1, <1>3 DEF FleetInv, ReadAddressIsCurrent
  <2> QED BY <1>3, <2>1, <2>2 DEF ApplyOrder
<1>7. PeerOwnsItsAddress' /\ RouteHasPeer'
  BY <1>3 DEF FleetInv, PeerOwnsItsAddress, RouteHasPeer
<1> QED BY <1>4, <1>5, <1>6, <1>7, StoreUntouched DEF FleetInv

LEMMA RevokePeerInv ==
  ASSUME FleetInv, NEW u \in Ids, Worker!RevokePeer(u), UNCHANGED vars
  PROVE  FleetInv'
<1> USE NoPeerAssumption DEF FleetInv, Worker!RevokePeer
<1>1. Worker!TypeOK'
  BY DEF Worker!TypeOK
<1>2. PeerOwnsItsAddress' /\ RouteHasPeer'
  BY DEF Worker!TypeOK, PeerOwnsItsAddress, RouteHasPeer
<1>3. ReadAddressIsCurrent'
  BY DEF Worker!TypeOK, ReadAddressIsCurrent, vars, Known
<1>4. ApplyOrder'
  BY DEF Worker!TypeOK, ApplyOrder
<1> QED BY <1>1, <1>2, <1>3, <1>4, StoreUntouched

\* No configured peer has the address that is about to be set: its holder
\* would be in the desired set, with the same address.
LEMMA ApplyPeerInv ==
  ASSUME FleetInv, NEW u \in Ids, Worker!ApplyPeer(u), UNCHANGED vars
  PROVE  FleetInv'
<1> USE NoPeerAssumption DEF FleetInv, Worker!ApplyPeer, Worker!ToApply
<1>0. peers[u] = NoAddress /\ \A v \in Ids : peers[v] # desired[u]
  BY DEF ApplyOrder
<1>1. Worker!TypeOK'
  BY DEF Worker!TypeOK
<1>2. PeerOwnsItsAddress' /\ RouteHasPeer'
  BY <1>0 DEF Worker!TypeOK, PeerOwnsItsAddress, RouteHasPeer
<1>3. ReadAddressIsCurrent'
  BY DEF Worker!TypeOK, ReadAddressIsCurrent, vars, Known
<1>4. ApplyOrder'
  BY DEF Worker!TypeOK, ApplyOrder
<1> QED BY <1>1, <1>2, <1>3, <1>4, StoreUntouched

LEMMA StageInv ==
  ASSUME FleetInv, Worker!RevokingDone \/ Worker!ApplyingDone, UNCHANGED vars
  PROVE  FleetInv'
<1> USE DEF FleetInv, Worker!RevokingDone, Worker!ApplyingDone, Worker!ToRevoke
<1>1. Worker!TypeOK' /\ PeerOwnsItsAddress' /\ RouteHasPeer'
  BY DEF Worker!TypeOK, PeerOwnsItsAddress, RouteHasPeer
<1>2. ReadAddressIsCurrent'
  BY DEF ReadAddressIsCurrent, vars, Known
<1>3. ApplyOrder'
  BY DEF ApplyOrder
<1> QED BY <1>1, <1>2, <1>3, StoreUntouched

LEMMA ExitInv ==
  ASSUME FleetInv, Worker!Exit, UNCHANGED vars
  PROVE  FleetInv'
<1> USE DEF FleetInv, Worker!Exit
<1>1. Worker!TypeOK' /\ PeerOwnsItsAddress' /\ RouteHasPeer'
  BY NoPeerAssumption DEF Worker!TypeOK, PeerOwnsItsAddress, RouteHasPeer
<1>2. ReadAddressIsCurrent' /\ ApplyOrder'
  BY DEF ReadAddressIsCurrent, ApplyOrder
<1> QED BY <1>1, <1>2, StoreUntouched

LEMMA FleetNextInv == FleetInv /\ [FleetNext]_allVars => FleetInv'
<1> SUFFICES ASSUME FleetInv, [FleetNext]_allVars PROVE FleetInv'
  OBVIOUS
<1>1. CASE Next /\ UNCHANGED workerVars
  BY <1>1, StoreStepInv
<1>2. CASE WorkerStep
  BY <1>2, TickInv, RevokePeerInv, ApplyPeerInv, StageInv DEF WorkerStep, Worker!Work
<1>3. CASE WorkerExit
  BY <1>3, ExitInv DEF WorkerExit
<1>4. CASE UNCHANGED allVars
  BY <1>4, StoreStepInv DEF allVars
<1> QED BY <1>1, <1>2, <1>3, <1>4 DEF FleetNext

\* The invariant holds in every reachable state of the two processes.
THEOREM FleetInvariant == FleetSpec => []FleetInv
<1>1. FleetSpec => FleetInit /\ [][FleetNext]_allVars
  BY PTL DEF FleetSpec
<1> QED BY <1>1, FleetInitInv, FleetNextInv, PTL

\* At every IpcSet the device routes each configured address to its owner
\* and nothing else, although addresses are reused and the worker works from an old file.
THEOREM RoutingIsConsistent == FleetSpec => [](PeerOwnsItsAddress /\ RouteHasPeer)
<1>1. FleetInv => PeerOwnsItsAddress /\ RouteHasPeer
  BY DEF FleetInv
<1> QED BY <1>1, FleetInvariant, PTL

\* No file the store writes makes Apply report a duplicate address.
THEOREM WorkerIsNeverRefused == FleetSpec => []WorkerNeverStops
<1>1. FleetInv => WorkerNeverStops
  BY NoDuplicate DEF FleetInv, WorkerNeverStops
<1> QED BY <1>1, FleetInvariant, PTL

\* An existing identity keeps its AWG address through every step.
THEOREM AddressesAreStable == FleetSpec => AddressIsStable
<1>1. FleetInv /\ [FleetNext]_allVars
        => [\A u \in Ids : Known(u) /\ users[u].awg # NoAddress /\ users'[u] # NoUser
                             => users'[u].awg = users[u].awg]_allVars
  <2> SUFFICES ASSUME FleetInv, [FleetNext]_allVars, NEW u \in Ids
               PROVE  Known(u) /\ users[u].awg # NoAddress /\ users'[u] # NoUser
                        => users'[u].awg = users[u].awg
    OBVIOUS
  <2>1. [Next]_vars
    BY DEF FleetNext, WorkerStep, WorkerExit, allVars
  <2> QED BY <2>1, StepAgeing DEF FleetInv, Ageing
<1>2. FleetSpec => [][FleetNext]_allVars
  BY PTL DEF FleetSpec
<1> QED BY <1>1, <1>2, FleetInvariant, PTL DEF AddressIsStable
=============================================================================
