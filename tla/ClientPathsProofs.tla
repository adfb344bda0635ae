-------------------------- MODULE ClientPathsProofs --------------------------
(***************************************************************************)
(* A migrating connection never sends on a closed socket, never leaks a    *)
(* connection ID and never loses a validated candidate, for any number of  *)
(* networks, sockets and identifiers.                                      *)
(***************************************************************************)
EXTENDS ClientPaths, FiniteSetTheorems, NaturalsInduction, WellFoundedInduction, TLAPS

(* Each transport has one role: in use, a candidate, or given to the       *)
(* goroutine that closes it; the client and the path manager agree on the  *)
(* path in use.                                                            *)
RolesAreDistinct ==
  /\ pmActive = activePath /\ activePath \in {NoPath, current}
  /\ IF conn = "none" THEN {current, prepared, parked} = {NoPath}
                      ELSE current \in open \ retiring
  /\ \A p \in {prepared, parked} \cap Path : p \in open \ retiring /\ p # current
  /\ prepared \in Path => prepared # parked
  /\ retiring \subseteq open

(* The loop sends on the transport in use, or on one that is still to be   *)
(* retired; the request to switch always names the transport in use.       *)
LoopFollows ==
  IF conn = "up"
    THEN /\ loopTransport \in {current} \cup retiring
         /\ current = IF pathToSwitchTo = NoPath THEN loopTransport ELSE pathToSwitchTo
    ELSE loopTransport = NoPath /\ pathToSwitchTo = NoPath

(* An operation works on the candidate at the front, and Stop has none.    *)
CallsHaveCandidates ==
  /\ call.op \in {"prepare", "migrate", "switch"} =>
       conn # "none" /\ prepared \in Path /\ call.path = prepared
  /\ call.op = "stop" => conn = "closed" /\ prepared = NoPath /\ parked = NoPath

(* A candidate that counts as checked is validated, unless it is being     *)
(* probed again.                                                           *)
CheckedIsValidated ==
  /\ checked \subseteq {prepared, parked}
  /\ \A p \in checked : paths[p] = "validated" \/ (Probing /\ call.path = p)

(* Only the path in use and the candidates are known to the path manager,  *)
(* and only known paths hold connection IDs.                               *)
OnlyKnownPaths ==
  /\ Present \subseteq {activePath, prepared, parked}
  /\ pathProbing \subseteq Present

(* The connection IDs that the peer honours add up. An ID that came back   *)
(* is with a path that holds one; the ID that may come back has no path. A *)
(* connection that is not up has none.                                     *)
IdsAreCounted ==
  IF conn = "up"
    THEN /\ Cardinality(pathProbing \ spent) + free + owed
              + (IF activeSpent THEN 0 ELSE 1) = MaxActive - 1
         /\ spent \subseteq pathProbing
         /\ newest \in pathProbing \cup {NoPath}
         /\ ghost # "none" => newest = NoPath
    ELSE /\ pathProbing = {} /\ free = 0 /\ owed = 0
         /\ newest = NoPath /\ ghost = "none" /\ spent = {} /\ activeSpent = FALSE

(* The part of the type invariant that is about connection IDs.            *)
IdTypes ==
  /\ pathProbing \subseteq Path /\ spent \subseteq Path
  /\ free \in 0..MaxActive /\ owed \in 0..MaxActive
  /\ newest \in Maybe /\ ghost \in {"none", "retired", "queued"}
  /\ activeSpent \in BOOLEAN

(* The inductive invariant.                                                *)
PathIInv ==
  /\ TypeOK /\ SwitchIsNotRefused /\ SocketsAreAccountedFor
  /\ RolesAreDistinct /\ LoopFollows /\ CallsHaveCandidates
  /\ CheckedIsValidated /\ OnlyKnownPaths /\ IdsAreCounted

-----------------------------------------------------------------------------
(* Lemmas on the operators of the model.                                   *)

\* A set of paths is finite, so its connection IDs can be counted.
LEMMA PathsAreFinite ==
  ASSUME NEW S \in SUBSET Path
  PROVE  IsFiniteSet(S) /\ Cardinality(S) \in Nat
<1>1. IsFiniteSet(Path)
  BY PathAssumption, FS_Interval DEF Path
<1> QED BY <1>1, FS_Subset, FS_CardinalityType

\* A path that is closed gives up its own connection ID and no other: what
\* pathProbing loses is what is added to the IDs owed.
LEMMA IdsGivenUp ==
  ASSUME NEW S \in SUBSET Path, NEW T
  PROVE  /\ Cardinality(S \ T) \in Nat /\ Cardinality(T \cap S) \in Nat
         /\ Cardinality(S \ T) + Cardinality(T \cap S) = Cardinality(S)
<1>1. IsFiniteSet(S) /\ Cardinality(S) \in Nat
  BY PathsAreFinite
<1>2. T \cap S = S \cap T /\ S \cap T \in SUBSET Path /\ S \ T \in SUBSET Path
  OBVIOUS
<1>3. Cardinality(S \cap T) \in Nat /\ Cardinality(S \ T) \in Nat
  BY <1>2, PathsAreFinite
<1>4. Cardinality(S \ T) = Cardinality(S) - Cardinality(S \cap T)
  BY <1>1, FS_Difference
<1> QED BY <1>1, <1>2, <1>3, <1>4

\* Pruning the queue leaves a queue of paths whose head, if it has one, the
\* path manager knows: NextPathToProbe never asks an ID for an abandoned path.
LEMMA PrunedHead ==
  ASSUME NEW q \in Seq(Path)
  PROVE  /\ Pruned(q) \in Seq(Path)
         /\ Pruned(q) # <<>> => Head(Pruned(q)) \in Present
<1> DEFINE alive == {i \in DOMAIN q : q[i] \in Present}
           first == CHOOSE i \in alive : \A j \in alive : i <= j
<1>1. alive \subseteq Nat /\ DOMAIN q = 1 .. Len(q) /\ Len(q) \in Nat
  OBVIOUS
<1>2. CASE alive = {}
  BY <1>2 DEF Pruned
<1>3. CASE alive # {}
  <2>1. IsWellFoundedOn(OpToRel(<, Nat), Nat)
    BY NatLessThanWellFounded
  <2>2. \E x \in alive : \A y \in alive : ~ (<<y, x>> \in OpToRel(<, Nat))
    <3> HIDE DEF alive
    <3> QED BY <1>1, <1>3, <2>1, WFMin
  <2>3. PICK x \in alive : \A y \in alive : ~ (<<y, x>> \in OpToRel(<, Nat))
    BY <2>2
  <2>4. \A y \in alive : x <= y
    <3> HIDE DEF alive
    <3>1. x \in Nat
      BY <1>1, <2>3
    <3> SUFFICES ASSUME NEW y \in alive PROVE x <= y
      OBVIOUS
    <3>2. y \in Nat
      BY <1>1
    <3>3. ~ (y < x)
      BY <3>1, <3>2, <2>3 DEF OpToRel
    <3> QED BY <3>1, <3>2, <3>3
  <2>5. first \in alive
    BY <2>3, <2>4
  <2>6. first \in 1 .. Len(q) /\ q[first] \in Present
    BY <2>5, <1>1
  <2>7. Pruned(q) = SubSeq(q, first, Len(q))
    BY <1>3 DEF Pruned
  <2> HIDE DEF first
  <2>8. SubSeq(q, first, Len(q)) \in Seq(Path) /\ SubSeq(q, first, Len(q))[1] = q[first]
    BY <1>1, <2>6
  <2>9. Head(SubSeq(q, first, Len(q))) = q[first]
    BY <1>1, <2>6, <2>8
  <2> QED BY <2>6, <2>7, <2>8, <2>9
<1> QED BY <1>2, <1>3

-----------------------------------------------------------------------------
(* One lemma per action.                                                   *)

\* An answer validates a path that is known and not yet validated.
LEMMA PathResponseInv ==
  ASSUME PathIInv, NEW p \in Path, PathResponse(p)
  PROVE  PathIInv'
<1> USE PathAssumption, IdAssumption DEF PathIInv, Path, NoPath, Maybe
<1>1. TypeOK'
  BY DEF PathResponse, client, sockets, manager, ids, TypeOK
<1>2. SwitchIsNotRefused'
  BY DEF PathResponse, client, sockets, manager, ids, TypeOK, SwitchIsNotRefused
<1>3. SocketsAreAccountedFor'
  BY DEF PathResponse, client, sockets, manager, ids, TypeOK, SocketsAreAccountedFor
<1>4. RolesAreDistinct'
  BY DEF PathResponse, client, sockets, manager, ids, TypeOK, RolesAreDistinct
<1>5. LoopFollows'
  BY DEF PathResponse, client, sockets, manager, ids, TypeOK, LoopFollows, RolesAreDistinct
<1>6. CallsHaveCandidates'
  BY DEF PathResponse, client, sockets, manager, ids, TypeOK, CallsHaveCandidates
<1>7. CheckedIsValidated'
  BY DEF PathResponse, client, sockets, manager, ids, TypeOK, CheckedIsValidated, Probing
<1>8. OnlyKnownPaths'
  BY DEF PathResponse, client, sockets, manager, ids, TypeOK, OnlyKnownPaths, Present
<1>9. IdsAreCounted'
  BY DEF PathResponse, client, sockets, manager, ids, TypeOK, IdsAreCounted
<1> QED BY <1>1, <1>2, <1>3, <1>4, <1>5, <1>6, <1>7, <1>8, <1>9 DEF PathIInv

\* A replacement that arrives is no longer owed.
LEMMA NewConnectionIdInv ==
  ASSUME PathIInv, NewConnectionId
  PROVE  PathIInv'
<1> USE PathAssumption, IdAssumption DEF PathIInv, Path, NoPath, Maybe
<1>1. pathProbing \ spent \in SUBSET Path
  BY DEF TypeOK
<1>2. Cardinality(pathProbing \ spent) \in Nat
  BY <1>1, PathsAreFinite
<1>3. Cardinality(pathProbing \ spent) + free + owed
        + (IF activeSpent THEN 0 ELSE 1) = MaxActive - 1
  BY DEF NewConnectionId, IdsAreCounted
<1>4. TypeOK'
  BY <1>2, <1>3 DEF NewConnectionId, Queued, client, sockets, manager, ids, TypeOK
<1>5. SwitchIsNotRefused'
  BY DEF NewConnectionId, client, sockets, manager, ids, TypeOK, SwitchIsNotRefused
<1>6. SocketsAreAccountedFor'
  BY DEF NewConnectionId, client, sockets, manager, ids, TypeOK, SocketsAreAccountedFor
<1>7. RolesAreDistinct'
  BY DEF NewConnectionId, client, sockets, manager, ids, TypeOK, RolesAreDistinct
<1>8. LoopFollows'
  BY DEF NewConnectionId, client, sockets, manager, ids, TypeOK, LoopFollows, RolesAreDistinct
<1>9. CallsHaveCandidates'
  BY DEF NewConnectionId, client, sockets, manager, ids, TypeOK, CallsHaveCandidates
<1>10. CheckedIsValidated'
  BY DEF NewConnectionId, client, sockets, manager, ids, TypeOK, CheckedIsValidated, Probing
<1>11. OnlyKnownPaths'
  BY DEF NewConnectionId, client, sockets, manager, ids, TypeOK, OnlyKnownPaths, Present
<1>12. IdsAreCounted'
  BY <1>2 DEF NewConnectionId, Queued, client, sockets, manager, ids, TypeOK, IdsAreCounted
<1> QED BY <1>4, <1>5, <1>6, <1>7, <1>8, <1>9, <1>10, <1>11, <1>12 DEF PathIInv

\* A repeated ID comes back only when no path holds it.
LEMMA NewConnectionIdAgainInv ==
  ASSUME PathIInv, NewConnectionIdAgain
  PROVE  PathIInv'
<1> USE PathAssumption, IdAssumption DEF PathIInv, Path, NoPath, Maybe
<1>1. TypeOK'
  BY DEF NewConnectionIdAgain, client, sockets, manager, ids, TypeOK
<1>2. SwitchIsNotRefused'
  BY DEF NewConnectionIdAgain, client, sockets, manager, ids, TypeOK, SwitchIsNotRefused
<1>3. SocketsAreAccountedFor'
  BY DEF NewConnectionIdAgain, client, sockets, manager, ids, TypeOK, SocketsAreAccountedFor
<1>4. RolesAreDistinct'
  BY DEF NewConnectionIdAgain, client, sockets, manager, ids, TypeOK, RolesAreDistinct
<1>5. LoopFollows'
  BY DEF NewConnectionIdAgain, client, sockets, manager, ids, TypeOK, LoopFollows, RolesAreDistinct
<1>6. CallsHaveCandidates'
  BY DEF NewConnectionIdAgain, client, sockets, manager, ids, TypeOK, CallsHaveCandidates
<1>7. CheckedIsValidated'
  BY DEF NewConnectionIdAgain, client, sockets, manager, ids, TypeOK, CheckedIsValidated, Probing
<1>8. OnlyKnownPaths'
  BY DEF NewConnectionIdAgain, client, sockets, manager, ids, TypeOK, OnlyKnownPaths, Present
<1>9. IdsAreCounted'
  BY DEF NewConnectionIdAgain, client, sockets, manager, ids, TypeOK, IdsAreCounted
<1> QED BY <1>1, <1>2, <1>3, <1>4, <1>5, <1>6, <1>7, <1>8, <1>9 DEF PathIInv

\* A connection ID that is rotated out is owed.
LEMMA RotateConnectionIdInv ==
  ASSUME PathIInv, RotateConnectionId
  PROVE  PathIInv'
<1> USE PathAssumption, IdAssumption DEF PathIInv, Path, NoPath, Maybe
<1>1. pathProbing \ spent \in SUBSET Path
  BY DEF TypeOK
<1>2. Cardinality(pathProbing \ spent) \in Nat
  BY <1>1, PathsAreFinite
<1>3. Cardinality(pathProbing \ spent) + free + owed
        + (IF activeSpent THEN 0 ELSE 1) = MaxActive - 1
  BY DEF RotateConnectionId, IdsAreCounted
<1>4. TypeOK'
  BY <1>2, <1>3 DEF RotateConnectionId, Queued, client, sockets, manager, ids, TypeOK
<1>5. SwitchIsNotRefused'
  BY DEF RotateConnectionId, client, sockets, manager, ids, TypeOK, SwitchIsNotRefused
<1>6. SocketsAreAccountedFor'
  BY DEF RotateConnectionId, client, sockets, manager, ids, TypeOK, SocketsAreAccountedFor
<1>7. RolesAreDistinct'
  BY DEF RotateConnectionId, client, sockets, manager, ids, TypeOK, RolesAreDistinct
<1>8. LoopFollows'
  BY DEF RotateConnectionId, client, sockets, manager, ids, TypeOK, LoopFollows, RolesAreDistinct
<1>9. CallsHaveCandidates'
  BY DEF RotateConnectionId, client, sockets, manager, ids, TypeOK, CallsHaveCandidates
<1>10. CheckedIsValidated'
  BY DEF RotateConnectionId, client, sockets, manager, ids, TypeOK, CheckedIsValidated, Probing
<1>11. OnlyKnownPaths'
  BY DEF RotateConnectionId, client, sockets, manager, ids, TypeOK, OnlyKnownPaths, Present
<1>12. IdsAreCounted'
  <2>1. /\ conn' = "up" /\ pathProbing' = pathProbing /\ spent' = spent
        /\ newest' = NoPath /\ ghost' = "none"
        /\ free' = IF ghost = "queued" THEN free ELSE free - 1
        /\ owed' = IF activeSpent THEN owed ELSE owed + 1
        /\ spent \subseteq pathProbing /\ free \in Nat /\ owed \in Nat
    BY DEF RotateConnectionId, client, TypeOK, IdsAreCounted
  <2>2. (IF activeSpent' THEN 0 ELSE 1) = IF ghost = "queued" THEN 0 ELSE 1
    BY DEF RotateConnectionId
  <2>3. Cardinality((pathProbing \ spent)') + free' + owed'
          + (IF activeSpent' THEN 0 ELSE 1) = MaxActive - 1
    BY <1>2, <1>3, <2>1, <2>2
  <2> QED BY <2>1, <2>3 DEF IdsAreCounted
<1> QED BY <1>4, <1>5, <1>6, <1>7, <1>8, <1>9, <1>10, <1>11, <1>12 DEF PathIInv

\* The end of the loop leaves the client's books alone.
LEMMA ConnectionDiesInv ==
  ASSUME PathIInv, ConnectionDies
  PROVE  PathIInv'
<1> USE PathAssumption, IdAssumption DEF PathIInv, Path, NoPath, Maybe
<1>1. TypeOK'
  <2>1. activeSpent' \in BOOLEAN
    BY Zenon DEF ConnectionDies, LoopEnds
  <2> QED BY <2>1 DEF ConnectionDies, LoopEnds, client, sockets, manager, ids, TypeOK
<1>2. SwitchIsNotRefused'
  BY DEF ConnectionDies, LoopEnds, client, sockets, manager, ids, TypeOK, SwitchIsNotRefused
<1>3. SocketsAreAccountedFor'
  BY DEF ConnectionDies, LoopEnds, client, sockets, manager, ids, TypeOK, SocketsAreAccountedFor
<1>4. RolesAreDistinct'
  BY DEF ConnectionDies, LoopEnds, client, sockets, manager, ids, TypeOK, RolesAreDistinct
<1>5. LoopFollows'
  BY DEF ConnectionDies, LoopEnds, client, sockets, manager, ids, TypeOK, LoopFollows, RolesAreDistinct
<1>6. CallsHaveCandidates'
  BY DEF ConnectionDies, LoopEnds, client, sockets, manager, ids, TypeOK, CallsHaveCandidates
<1>7. CheckedIsValidated'
  BY DEF ConnectionDies, LoopEnds, client, sockets, manager, ids, TypeOK, CheckedIsValidated, Probing
<1>8. OnlyKnownPaths'
  BY DEF ConnectionDies, LoopEnds, client, sockets, manager, ids, TypeOK, OnlyKnownPaths, Present
<1>9. IdsAreCounted'
  BY DEF ConnectionDies, LoopEnds, client, sockets, manager, ids, TypeOK, IdsAreCounted
<1> QED BY <1>1, <1>2, <1>3, <1>4, <1>5, <1>6, <1>7, <1>8, <1>9 DEF PathIInv

\* The loop moves to the transport in use.
LEMMA SwitchToNewPathInv ==
  ASSUME PathIInv, SwitchToNewPath
  PROVE  PathIInv'
<1> USE PathAssumption, IdAssumption DEF PathIInv, Path, NoPath, Maybe
<1>1. TypeOK'
  BY DEF SwitchToNewPath, client, sockets, manager, ids, TypeOK
<1>2. SwitchIsNotRefused'
  BY DEF SwitchToNewPath, client, sockets, manager, ids, TypeOK, SwitchIsNotRefused
<1>3. SocketsAreAccountedFor'
  BY DEF SwitchToNewPath, client, sockets, manager, ids, TypeOK, SocketsAreAccountedFor
<1>4. RolesAreDistinct'
  BY DEF SwitchToNewPath, client, sockets, manager, ids, TypeOK, RolesAreDistinct
<1>5. LoopFollows'
  BY DEF SwitchToNewPath, client, sockets, manager, ids, TypeOK, LoopFollows, RolesAreDistinct
<1>6. CallsHaveCandidates'
  BY DEF SwitchToNewPath, client, sockets, manager, ids, TypeOK, CallsHaveCandidates
<1>7. CheckedIsValidated'
  BY DEF SwitchToNewPath, client, sockets, manager, ids, TypeOK, CheckedIsValidated, Probing
<1>8. OnlyKnownPaths'
  BY DEF SwitchToNewPath, client, sockets, manager, ids, TypeOK, OnlyKnownPaths, Present
<1>9. IdsAreCounted'
  BY DEF SwitchToNewPath, client, sockets, manager, ids, TypeOK, IdsAreCounted
<1> QED BY <1>1, <1>2, <1>3, <1>4, <1>5, <1>6, <1>7, <1>8, <1>9 DEF PathIInv

\* A socket is closed only when it has no role and the loop has left it.
LEMMA RetireTransportInv ==
  ASSUME PathIInv, NEW p \in Path, RetireTransport(p)
  PROVE  PathIInv'
<1> USE PathAssumption, IdAssumption DEF PathIInv, Path, NoPath, Maybe
<1>1. TypeOK'
  BY DEF RetireTransport, Detachable, client, sockets, manager, ids, TypeOK
<1>2. SwitchIsNotRefused'
  BY DEF RetireTransport, Detachable, client, sockets, manager, ids, TypeOK, SwitchIsNotRefused
<1>3. SocketsAreAccountedFor'
  BY DEF RetireTransport, Detachable, client, sockets, manager, ids, TypeOK, SocketsAreAccountedFor
<1>4. RolesAreDistinct'
  BY DEF RetireTransport, Detachable, client, sockets, manager, ids, TypeOK, RolesAreDistinct
<1>5. LoopFollows'
  BY DEF RetireTransport, Detachable, client, sockets, manager, ids, TypeOK, LoopFollows, RolesAreDistinct
<1>6. CallsHaveCandidates'
  BY DEF RetireTransport, Detachable, client, sockets, manager, ids, TypeOK, CallsHaveCandidates
<1>7. CheckedIsValidated'
  BY DEF RetireTransport, Detachable, client, sockets, manager, ids, TypeOK, CheckedIsValidated, Probing
<1>8. OnlyKnownPaths'
  BY DEF RetireTransport, Detachable, client, sockets, manager, ids, TypeOK, OnlyKnownPaths, Present
<1>9. IdsAreCounted'
  BY DEF RetireTransport, Detachable, client, sockets, manager, ids, TypeOK, IdsAreCounted
<1> QED BY <1>1, <1>2, <1>3, <1>4, <1>5, <1>6, <1>7, <1>8, <1>9 DEF PathIInv

\* The probe's timer queues the candidate once more.
LEMMA ProbeAgainInv ==
  ASSUME PathIInv, ProbeAgain
  PROVE  PathIInv'
<1> USE PathAssumption, IdAssumption DEF PathIInv, Path, NoPath, Maybe
<1>1. call.path \in Path
  BY DEF ProbeAgain, Probing, CallsHaveCandidates
<1>2. TypeOK'
  BY <1>1 DEF ProbeAgain, Probing, client, sockets, manager, ids, TypeOK
<1>3. SwitchIsNotRefused'
  BY DEF ProbeAgain, Probing, client, sockets, manager, ids, TypeOK, SwitchIsNotRefused
<1>4. SocketsAreAccountedFor'
  BY DEF ProbeAgain, Probing, client, sockets, manager, ids, TypeOK, SocketsAreAccountedFor
<1>5. RolesAreDistinct'
  BY DEF ProbeAgain, Probing, client, sockets, manager, ids, TypeOK, RolesAreDistinct
<1>6. LoopFollows'
  BY DEF ProbeAgain, Probing, client, sockets, manager, ids, TypeOK, LoopFollows, RolesAreDistinct
<1>7. CallsHaveCandidates'
  BY DEF ProbeAgain, Probing, client, sockets, manager, ids, TypeOK, CallsHaveCandidates
<1>8. CheckedIsValidated'
  BY DEF ProbeAgain, Probing, client, sockets, manager, ids, TypeOK, CheckedIsValidated, Probing
<1>9. OnlyKnownPaths'
  BY DEF ProbeAgain, Probing, client, sockets, manager, ids, TypeOK, OnlyKnownPaths, Present
<1>10. IdsAreCounted'
  BY DEF ProbeAgain, Probing, client, sockets, manager, ids, TypeOK, IdsAreCounted
<1> QED BY <1>2, <1>3, <1>4, <1>5, <1>6, <1>7, <1>8, <1>9, <1>10 DEF PathIInv

\* A probe that succeeded has validated its path.
LEMMA ProbeSucceedsInv ==
  ASSUME PathIInv, ProbeSucceeds
  PROVE  PathIInv'
<1> USE PathAssumption, IdAssumption DEF PathIInv, Path, NoPath, Maybe
<1>1. /\ call.op \in {"prepare", "migrate"} /\ call.path = prepared /\ prepared \in Path
      /\ paths[prepared] = "validated"
  BY DEF ProbeSucceeds, Probing, CallsHaveCandidates
<1>2. call' = IF call.op = "migrate" THEN [op |-> "switch", path |-> prepared] ELSE Idle
  <2>1. call \in [op : {"idle", "prepare", "migrate", "switch", "stop"}, path : Maybe]
    BY DEF TypeOK
  <2>2. call' = IF call.op = "migrate" THEN [call EXCEPT !.op = "switch"] ELSE Idle
    BY DEF ProbeSucceeds
  <2> HIDE DEF PathIInv
  <2> QED BY ONLY <1>1, <2>1, <2>2
<1>3. checked' = checked \cup {prepared} /\ UNCHANGED <<paths, prepared, parked>>
  BY <1>1 DEF ProbeSucceeds, manager
<1>4. TypeOK'
  <2>1. call' \in [op : {"idle", "prepare", "migrate", "switch", "stop"}, path : Maybe]
    BY <1>1, <1>2 DEF Idle
  <2>2. checked' \subseteq Path
    BY <1>1, <1>3 DEF TypeOK
  <2> QED BY <2>1, <2>2 DEF ProbeSucceeds, sockets, manager, ids, TypeOK
<1>5. SwitchIsNotRefused'
  BY DEF ProbeSucceeds, Probing, Idle, client, sockets, manager, ids, TypeOK, SwitchIsNotRefused
<1>6. SocketsAreAccountedFor'
  BY DEF ProbeSucceeds, Probing, Idle, client, sockets, manager, ids, TypeOK, SocketsAreAccountedFor
<1>7. RolesAreDistinct'
  BY DEF ProbeSucceeds, Probing, Idle, client, sockets, manager, ids, TypeOK, RolesAreDistinct
<1>8. LoopFollows'
  BY DEF ProbeSucceeds, Probing, Idle, client, sockets, manager, ids, TypeOK, LoopFollows, RolesAreDistinct
<1>9. CallsHaveCandidates'
  BY DEF ProbeSucceeds, Probing, Idle, client, sockets, manager, ids, TypeOK, CallsHaveCandidates
<1>10. CheckedIsValidated'
  BY <1>1, <1>3 DEF CheckedIsValidated
<1>11. OnlyKnownPaths'
  BY DEF ProbeSucceeds, Probing, Idle, client, sockets, manager, ids, TypeOK, OnlyKnownPaths, Present
<1>12. IdsAreCounted'
  BY DEF ProbeSucceeds, Probing, Idle, client, sockets, manager, ids, TypeOK, IdsAreCounted
<1> QED BY <1>4, <1>5, <1>6, <1>7, <1>8, <1>9, <1>10, <1>11, <1>12 DEF PathIInv

\* After a probe that failed the candidate no longer counts as checked.
LEMMA ProbeFailsInv ==
  ASSUME PathIInv, ProbeFails
  PROVE  PathIInv'
<1> USE PathAssumption, IdAssumption DEF PathIInv, Path, NoPath, Maybe
<1>1. TypeOK'
  BY DEF ProbeFails, Probing, Idle, client, sockets, manager, ids, TypeOK
<1>2. SwitchIsNotRefused'
  BY DEF ProbeFails, Probing, Idle, client, sockets, manager, ids, TypeOK, SwitchIsNotRefused
<1>3. SocketsAreAccountedFor'
  BY DEF ProbeFails, Probing, Idle, client, sockets, manager, ids, TypeOK, SocketsAreAccountedFor
<1>4. RolesAreDistinct'
  BY DEF ProbeFails, Probing, Idle, client, sockets, manager, ids, TypeOK, RolesAreDistinct
<1>5. LoopFollows'
  BY DEF ProbeFails, Probing, Idle, client, sockets, manager, ids, TypeOK, LoopFollows, RolesAreDistinct
<1>6. CallsHaveCandidates'
  BY DEF ProbeFails, Probing, Idle, client, sockets, manager, ids, TypeOK, CallsHaveCandidates
<1>7. CheckedIsValidated'
  BY DEF ProbeFails, Probing, Idle, client, sockets, manager, ids, TypeOK, CheckedIsValidated, Probing
<1>8. OnlyKnownPaths'
  BY DEF ProbeFails, Probing, Idle, client, sockets, manager, ids, TypeOK, OnlyKnownPaths, Present
<1>9. IdsAreCounted'
  BY DEF ProbeFails, Probing, Idle, client, sockets, manager, ids, TypeOK, IdsAreCounted
<1> QED BY <1>1, <1>2, <1>3, <1>4, <1>5, <1>6, <1>7, <1>8, <1>9 DEF PathIInv

\* Paths that give up their connection IDs move those that the peer still
\* honours to the ones owed, whether or not the connection is up.
LEMMA GiveUpIdsCount ==
  ASSUME PathIInv, NEW gone \in SUBSET Path, GiveUpIds(gone), UNCHANGED conn
  PROVE  IdsAreCounted' /\ IdTypes' /\ pathProbing' = pathProbing \ gone
<1> DEFINE held == pathProbing \ spent
<1>1. IdTypes /\ held \in SUBSET Path /\ free \in Nat /\ owed \in Nat
  BY IdAssumption DEF PathIInv, TypeOK, IdTypes
<1>2. /\ pathProbing' = pathProbing \ gone /\ spent' = spent \ gone
      /\ owed' = owed + Cardinality(gone \cap held)
      /\ newest' = IF newest \in gone THEN NoPath ELSE newest
      /\ ghost' = IF newest \in gone THEN "retired" ELSE ghost
      /\ UNCHANGED <<free, activeSpent>>
  BY DEF GiveUpIds
<1>3. pathProbing' \ spent' = held \ gone
  BY <1>2
<1> HIDE DEF held
<1>4. /\ Cardinality(held \ gone) \in Nat /\ Cardinality(gone \cap held) \in Nat
      /\ Cardinality(held \ gone) + Cardinality(gone \cap held) = Cardinality(held)
  BY <1>1, IdsGivenUp
<1>5. NoPath \notin Path /\ NoPath \notin gone
  BY DEF NoPath, Path
<1>6. CASE conn = "up"
  <2>1. /\ Cardinality(held) + free + owed + (IF activeSpent THEN 0 ELSE 1) = MaxActive - 1
        /\ spent \subseteq pathProbing /\ newest \in pathProbing \cup {NoPath}
        /\ ghost # "none" => newest = NoPath
    BY <1>6 DEF PathIInv, IdsAreCounted, held
  <2>2. /\ Cardinality(held \ gone) + free' + owed'
             + (IF activeSpent' THEN 0 ELSE 1) = MaxActive - 1
        /\ owed' \in 0 .. MaxActive
    BY <1>1, <1>2, <1>4, <2>1, IdAssumption
  <2>3. /\ spent' \subseteq pathProbing' /\ newest' \in pathProbing' \cup {NoPath}
        /\ ghost' # "none" => newest' = NoPath
    BY <1>2, <1>5, <2>1
  <2>4. IdsAreCounted'
    BY <1>3, <1>6, <2>2, <2>3 DEF IdsAreCounted
  <2>5. IdTypes'
    BY <1>1, <1>2, <2>2 DEF IdTypes, Maybe
  <2> QED BY <1>2, <2>4, <2>5
<1>7. CASE conn # "up"
  <2>1. /\ pathProbing = {} /\ free = 0 /\ owed = 0
        /\ newest = NoPath /\ ghost = "none" /\ spent = {} /\ activeSpent = FALSE
    BY <1>7 DEF PathIInv, IdsAreCounted
  <2>2. gone \cap held = {} /\ Cardinality({}) = 0
    BY <2>1, FS_EmptySet DEF held
  <2>3. IdsAreCounted'
    BY <1>2, <1>5, <1>7, <2>1, <2>2 DEF IdsAreCounted
  <2>4. activeSpent' \in BOOLEAN
    BY <1>1, <1>2 DEF IdTypes
  <2>5. /\ pathProbing' = {} /\ spent' = {} /\ free' = 0 /\ owed' = 0
        /\ newest' = NoPath /\ ghost' = "none"
    BY <1>2, <1>5, <2>1, <2>2
  <2>6. IdTypes'
    BY <2>4, <2>5, IdAssumption DEF IdTypes, Maybe
  <2> QED BY <1>2, <2>3, <2>6
<1> QED BY <1>6, <1>7

\* The same of the paths that are closed.
LEMMA ClosePathsIds ==
  ASSUME PathIInv, NEW ps, ClosePaths(ps), UNCHANGED conn
  PROVE  /\ IdsAreCounted' /\ IdTypes'
         /\ pathProbing' = pathProbing \ ((ps \cap Present) \ {pmActive})
<1> DEFINE gone == (ps \cap Present) \ {pmActive}
<1>1. gone \in SUBSET Path /\ GiveUpIds(gone)
  BY DEF ClosePaths, Present
<1> HIDE DEF gone
<1>2. IdsAreCounted' /\ IdTypes' /\ pathProbing' = pathProbing \ gone
  BY <1>1, GiveUpIdsCount
<1> QED BY <1>2 DEF gone

\* Start opens the first transport of a connection over a fresh socket.
LEMMA StartInv ==
  ASSUME PathIInv, NEW p \in Path, Start(p)
  PROVE  PathIInv'
<1> USE PathAssumption, IdAssumption DEF PathIInv, Path, NoPath, Maybe
<1>1. p \notin open /\ conn = "none" /\ retiring \subseteq open
  BY DEF Start, Unused, RolesAreDistinct
<1>2. Cardinality({}) = 0 /\ {} \ {} = {}
  BY FS_EmptySet
<1>3. TypeOK'
  BY DEF Start, client, sockets, manager, ids, TypeOK
<1>4. SwitchIsNotRefused'
  BY DEF Start, client, sockets, manager, ids, TypeOK, SwitchIsNotRefused
<1>5. SocketsAreAccountedFor'
  BY <1>1 DEF Start, TypeOK, SocketsAreAccountedFor, RolesAreDistinct
<1>6. RolesAreDistinct'
  BY <1>1 DEF Start, client, sockets, manager, ids, TypeOK, RolesAreDistinct
<1>7. LoopFollows'
  BY <1>1 DEF Start, client, sockets, manager, ids, TypeOK, LoopFollows, RolesAreDistinct
<1>8. CallsHaveCandidates'
  BY DEF Start, client, sockets, manager, ids, TypeOK, CallsHaveCandidates
<1>9. CheckedIsValidated'
  BY DEF Start, client, sockets, manager, ids, TypeOK, CheckedIsValidated, Probing
<1>10. OnlyKnownPaths'
  BY DEF Start, client, sockets, manager, ids, TypeOK, OnlyKnownPaths, Present
<1>11. IdsAreCounted'
  <2>1. /\ conn' = "up" /\ pathProbing' = {} /\ spent' = {} /\ owed' = 0
        /\ newest' = NoPath /\ ghost' = "none" /\ free' = MaxActive - 2
    BY <1>1 DEF Start, IdsAreCounted
  <2>2. activeSpent' = FALSE
    BY <1>1 DEF Start, IdsAreCounted
  <2>3. (IF activeSpent' THEN 0 ELSE 1) = 1
    BY <2>2
  <2>4. (pathProbing \ spent)' = {}
    BY <2>1
  <2> QED BY <1>2, <2>1, <2>3, <2>4 DEF IdsAreCounted
<1> QED BY <1>3, <1>4, <1>5, <1>6, <1>7, <1>8, <1>9, <1>10, <1>11 DEF PathIInv

\* A path that takes an ID from the queue is counted for it, unless the ID is
\* one that came back.
LEMMA TakeIdCount ==
  ASSUME PathIInv, conn = "up", NEW p \in Path, p \notin pathProbing, Queued > 0,
         TakeId(p), UNCHANGED conn
  PROVE  IdsAreCounted' /\ IdTypes' /\ pathProbing' = pathProbing \cup {p}
<1> DEFINE held == pathProbing \ spent
<1>1. IdTypes /\ held \in SUBSET Path /\ free \in Nat /\ owed \in Nat
  BY IdAssumption DEF PathIInv, TypeOK, IdTypes
<1>2. /\ Cardinality(held) + free + owed + (IF activeSpent THEN 0 ELSE 1) = MaxActive - 1
      /\ spent \subseteq pathProbing
  BY DEF PathIInv, IdsAreCounted
<1>3. /\ pathProbing' = pathProbing \cup {p} /\ newest' = p /\ ghost' = "none"
      /\ spent' = IF ghost = "queued" THEN spent \cup {p} ELSE spent
      /\ free' = IF ghost = "queued" THEN free ELSE free - 1
      /\ UNCHANGED <<owed, activeSpent>>
  BY DEF TakeId
<1>4. /\ p \notin held
      /\ pathProbing' \ spent' = IF ghost = "queued" THEN held ELSE held \cup {p}
  BY <1>2, <1>3
<1> HIDE DEF held
<1>5. IsFiniteSet(held) /\ Cardinality(held) \in Nat
  BY <1>1, PathsAreFinite
<1>6. Cardinality(held \cup {p}) = Cardinality(held) + 1
  BY <1>4, <1>5, FS_AddElement
<1>7. ghost # "queued" => free > 0
  BY <1>1 DEF Queued
<1>8. Cardinality((pathProbing \ spent)') + free' + owed'
        + (IF activeSpent' THEN 0 ELSE 1) = MaxActive - 1
  BY <1>1, <1>2, <1>3, <1>4, <1>5, <1>6, IdAssumption
<1>9. IdsAreCounted'
  BY <1>2, <1>3, <1>8 DEF IdsAreCounted
<1>10. IdTypes'
  BY <1>1, <1>3, <1>7, IdAssumption DEF IdTypes, Maybe
<1> QED BY <1>3, <1>9, <1>10

\* A probe goes out on a known path that holds an ID of its own.
LEMMA NextPathToProbeInv ==
  ASSUME PathIInv, NextPathToProbe
  PROVE  PathIInv'
<1> USE PathAssumption, IdAssumption DEF PathIInv, Path, NoPath, Maybe
<1> DEFINE q == Pruned(pathsToProbe)
           sends == q # <<>> /\ HasConnId(Head(q))
<1>1. q \in Seq(Path) /\ (q # <<>> => Head(q) \in Present)
  BY PrunedHead DEF TypeOK
<1>2. IdTypes /\ free \in Nat /\ owed \in Nat
  BY DEF TypeOK, IdTypes
<1>3. /\ conn = "up"
      /\ pathsToProbe' = IF sends THEN Tail(q) ELSE q
      /\ challenged' \subseteq challenged \cup (IF sends THEN {Head(q)} ELSE {})
      /\ IF sends /\ Head(q) \notin pathProbing THEN TakeId(Head(q)) ELSE UNCHANGED ids
      /\ UNCHANGED <<conn, current, activePath, prepared, parked, key, checked, call, open,
                     retiring, paths, pmActive, pathToSwitchTo, loopTransport>>
  BY DEF NextPathToProbe, client, sockets
<1>4. sends => Head(q) \in pathProbing \/ Queued > 0
  BY DEF HasConnId
<1> HIDE DEF q, sends
<1>7. Present \subseteq Path /\ (sends => q # <<>>)
  BY DEF Present, sends
<1>6. /\ IdsAreCounted' /\ IdTypes'
      /\ pathProbing' \subseteq pathProbing \cup (IF sends THEN {Head(q)} ELSE {})
  <2>1. CASE sends /\ Head(q) \notin pathProbing
    BY <1>1, <1>2, <1>3, <1>4, <1>7, <2>1, TakeIdCount
  <2>2. CASE ~(sends /\ Head(q) \notin pathProbing)
    <3>1. UNCHANGED <<pathProbing, free, owed, newest, ghost, spent, activeSpent>>
      BY <1>3, <2>2 DEF ids
    <3> QED BY <1>2, <1>3, <3>1 DEF IdsAreCounted, IdTypes
  <2> QED BY <2>1, <2>2
<1>8. pathsToProbe' \in Seq(Path)
  <2> HIDE DEF Path
  <2>1. q # <<>> => Tail(q) \in Seq(Path)
    BY <1>1
  <2> QED BY <1>1, <1>3, <1>7, <2>1
<1>9. TypeOK'
  <2>1. challenged' \subseteq Path
    BY <1>1, <1>3, <1>7 DEF TypeOK
  <2> QED BY <1>3, <1>8, <1>6, <2>1 DEF TypeOK, IdTypes
<1>10. SwitchIsNotRefused'
  BY <1>3 DEF TypeOK, SwitchIsNotRefused
<1>11. SocketsAreAccountedFor'
  BY <1>3 DEF TypeOK, SocketsAreAccountedFor
<1>12. RolesAreDistinct'
  BY <1>3 DEF TypeOK, RolesAreDistinct
<1>13. LoopFollows'
  BY <1>3 DEF TypeOK, LoopFollows, RolesAreDistinct
<1>14. CallsHaveCandidates'
  BY <1>3 DEF TypeOK, CallsHaveCandidates
<1>15. CheckedIsValidated'
  BY <1>3 DEF TypeOK, CheckedIsValidated, Probing
<1>16. OnlyKnownPaths'
  BY <1>1, <1>3, <1>6, <1>7 DEF OnlyKnownPaths, Present
<1>17. IdsAreCounted'
  BY <1>6
<1> QED BY <1>9, <1>10, <1>11, <1>12, <1>13, <1>14, <1>15, <1>16, <1>17 DEF PathIInv

\* prepare() keeps the candidates apart when it rearranges them, and drops at
\* most the parked one.
LEMMA RearrangedFacts ==
  ASSUME PathIInv, NEW k \in Key
  PROVE  LET r == Rearranged(k)
         IN  /\ r.prepared \in {prepared, parked, NoPath} /\ r.parked \in {prepared, parked, NoPath}
             /\ r.prepared \in Path => r.prepared # r.parked
             /\ r.dropped \subseteq {parked} \cap Path
             /\ r.prepared \notin r.dropped /\ r.parked \notin r.dropped
             /\ {prepared, parked} \cap Path \subseteq {r.prepared, r.parked} \cup r.dropped
<1>1. /\ prepared \in Maybe /\ parked \in Maybe
      /\ prepared \in Path => prepared # parked
  BY DEF PathIInv, TypeOK, RolesAreDistinct
<1>2. NoPath \notin Path
  BY PathAssumption DEF NoPath, Path
<1>3. CASE prepared = NoPath /\ parked # NoPath /\ key[parked] = k
  BY <1>1, <1>2, <1>3 DEF Rearranged, Maybe
<1>4. CASE prepared # NoPath /\ key[prepared] # k /\ parked # NoPath /\ key[parked] = k
  BY <1>1, <1>2, <1>4 DEF Rearranged, Maybe
<1>5. CASE prepared # NoPath /\ key[prepared] # k /\ ~(parked # NoPath /\ key[parked] = k)
  BY <1>1, <1>2, <1>5 DEF Rearranged, Maybe
<1>6. CASE /\ ~(prepared = NoPath /\ parked # NoPath /\ key[parked] = k)
           /\ ~(prepared # NoPath /\ key[prepared] # k /\ parked # NoPath /\ key[parked] = k)
           /\ ~(prepared # NoPath /\ key[prepared] # k /\ ~(parked # NoPath /\ key[parked] = k))
  BY <1>1, <1>2, <1>6 DEF Rearranged, Maybe
<1> QED BY <1>3, <1>4, <1>5, <1>6

\* prepare() up to the probe keeps the books, whether it opens a socket, reuses
\* a candidate or fails to open one after it has dropped the parked candidate.
LEMMA ProbeInv ==
  ASSUME PathIInv, NEW op \in {"prepare", "migrate"}, NEW k \in Key,
         call = Idle, conn = "up", Probe(op, k),
         checked' = checked \cap {prepared', parked'},
         UNCHANGED <<conn, current, activePath, pmActive, pathToSwitchTo, loopTransport>>
  PROVE  PathIInv'
<1> USE PathAssumption, IdAssumption DEF PathIInv, NoPath, Maybe
<1>a. NoPath \notin Path
  BY DEF Path
<1> DEFINE front == Rearranged(k).prepared
           back == Rearranged(k).parked
           dropped == Rearranged(k).dropped
<1>1. /\ front \in {prepared, parked, NoPath} /\ back \in {prepared, parked, NoPath}
      /\ front \in Path => front # back
      /\ dropped \subseteq {parked} \cap Path
      /\ front \notin dropped /\ back \notin dropped
      /\ {prepared, parked} \cap Path \subseteq {front, back} \cup dropped
  BY RearrangedFacts
<1>2. /\ parked' = back
      /\ ClosePaths(dropped) /\ retiring' = retiring \cup dropped
      /\ \/ \E p \in IF front # NoPath THEN {front} ELSE Unused :
              /\ prepared' = p
              /\ open' = open \cup {p}
              /\ key' = [Keyless(dropped) EXCEPT ![p] = k]
              /\ paths' = [Abandoned(dropped) EXCEPT ![p] = "unvalidated"]
              /\ challenged' = challenged \ (dropped \cup {p})
              /\ pathsToProbe' = Append(pathsToProbe, p)
              /\ call' = [op |-> op, path |-> p]
         \/ /\ front = NoPath
            /\ prepared' = NoPath
            /\ paths' = Abandoned(dropped)
            /\ challenged' = challenged \ dropped
            /\ key' = Keyless(dropped)
            /\ UNCHANGED <<open, pathsToProbe, call>>
  BY DEF Probe, Retire
<1>3. /\ IdsAreCounted' /\ IdTypes'
      /\ pathProbing' = pathProbing \ ((dropped \cap Present) \ {pmActive})
  BY <1>2, ClosePathsIds
<1>4. /\ pmActive = activePath /\ activePath \in {NoPath, current}
      /\ current \in open \ retiring /\ current \in Path
      /\ {prepared, parked, current} \cap Path \subseteq open
      /\ {prepared, parked, current} \cap retiring = {}
      /\ prepared \in Path => prepared # parked
      /\ current \notin {prepared, parked}
      /\ retiring \subseteq open /\ open \subseteq Path
      /\ prepared \in Maybe /\ parked \in Maybe /\ current \in Maybe
  BY <1>a DEF TypeOK, RolesAreDistinct
<1> HIDE DEF front, back, dropped
<1>5. dropped \subseteq Path /\ pmActive \notin dropped
  BY <1>a, <1>1, <1>4
<1>6. Abandoned(dropped) = [q \in Path |-> IF q \in dropped THEN "absent" ELSE paths[q]]
  BY <1>5 DEF Abandoned
<1>7. pathProbing' \subseteq pathProbing \ dropped
  BY <1>3, <1>5 DEF OnlyKnownPaths
<1>8. \A q \in {front, back} \cap Path : q \in open /\ q \notin retiring' /\ q # current
  BY <1>a, <1>1, <1>2, <1>4, <1>5
<1>9. CASE \E p \in IF front # NoPath THEN {front} ELSE Unused :
              /\ prepared' = p
              /\ open' = open \cup {p}
              /\ key' = [Keyless(dropped) EXCEPT ![p] = k]
              /\ paths' = [Abandoned(dropped) EXCEPT ![p] = "unvalidated"]
              /\ challenged' = challenged \ (dropped \cup {p})
              /\ pathsToProbe' = Append(pathsToProbe, p)
              /\ call' = [op |-> op, path |-> p]
  <2>1. PICK p \in IF front # NoPath THEN {front} ELSE Unused :
              /\ prepared' = p
              /\ open' = open \cup {p}
              /\ key' = [Keyless(dropped) EXCEPT ![p] = k]
              /\ paths' = [Abandoned(dropped) EXCEPT ![p] = "unvalidated"]
              /\ challenged' = challenged \ (dropped \cup {p})
              /\ pathsToProbe' = Append(pathsToProbe, p)
              /\ call' = [op |-> op, path |-> p]
    BY <1>9
  <2>2. p \in Path /\ (p = front \/ (p \notin open /\ front = NoPath))
    BY <1>a, <1>1, <1>4, <2>1 DEF Unused
  <2>3. p # current /\ p \notin retiring' /\ p \notin dropped /\ p # back
    BY <1>a, <1>1, <1>2, <1>4, <1>8, <2>2
  <2>4. /\ paths' \in [Path -> {"absent", "unvalidated", "validated"}]
        /\ paths'[p] = "unvalidated"
        /\ \A q \in Path : q # p => paths'[q] = IF q \in dropped THEN "absent" ELSE paths[q]
    BY <1>6, <2>1, <2>2 DEF TypeOK
  <2>5. call'.op = op /\ call'.path = p
    BY <2>1
  <2>6. TypeOK'
    <3>1. key' \in [Path -> Key \cup {NoKey}]
      BY <2>1, <2>2 DEF TypeOK, Keyless
    <3>2. call' \in [op : {"idle", "prepare", "migrate", "switch", "stop"}, path : Maybe]
      BY <2>1, <2>2
    <3>3. pathsToProbe' \in Seq(Path)
      BY <2>1, <2>2 DEF TypeOK
    <3>4. {current, activePath, prepared, parked}' \subseteq Maybe
      BY <1>1, <1>2, <1>4, <2>1, <2>2
    <3>5. checked' \subseteq Path /\ open' \subseteq Path /\ retiring' \subseteq Path
      BY <1>2, <1>4, <1>5, <2>1, <2>2 DEF TypeOK
    <3>6. challenged' \subseteq Path /\ pathProbing' \subseteq Path
      BY <1>7, <2>1 DEF TypeOK
    <3>7. conn' \in {"none", "up", "closed"} /\ {pmActive, pathToSwitchTo, loopTransport}' \subseteq Maybe
      BY DEF TypeOK
    <3> QED BY <1>3, <2>4, <3>1, <3>2, <3>3, <3>4, <3>5, <3>6, <3>7 DEF TypeOK, IdTypes
  <2>7. SwitchIsNotRefused' /\ CallsHaveCandidates'
    BY <2>1, <2>2, <2>5 DEF SwitchIsNotRefused, CallsHaveCandidates
  <2>8. SocketsAreAccountedFor'
    BY <1>a, <1>1, <1>2, <1>4, <2>1, <2>2 DEF SocketsAreAccountedFor
  <2>9. RolesAreDistinct'
    BY <1>a, <1>1, <1>2, <1>4, <1>8, <2>1, <2>2, <2>3 DEF RolesAreDistinct
  <2>10. LoopFollows'
    BY <1>2 DEF LoopFollows
  <2>11. CheckedIsValidated'
    BY <1>1, <1>2, <2>1, <2>3, <2>4, <2>5 DEF CheckedIsValidated, Probing, TypeOK, Idle
  <2>12. OnlyKnownPaths'
    <3>1. Present' \subseteq {p} \cup (Present \ dropped)
      BY <2>2, <2>4 DEF Present
    <3>2. Present \subseteq Path /\ p \in Present' /\ Present \ dropped \subseteq Present'
      BY <2>2, <2>4 DEF Present
    <3>3. Present' \subseteq {activePath', prepared', parked'}
      BY <1>a, <1>1, <1>2, <2>1, <2>2, <3>1, <3>2 DEF OnlyKnownPaths
    <3>4. pathProbing' \subseteq Present'
      BY <1>7, <3>2 DEF OnlyKnownPaths
    <3> QED BY <3>3, <3>4 DEF OnlyKnownPaths
  <2> QED BY <1>3, <2>6, <2>7, <2>8, <2>9, <2>10, <2>11, <2>12
<1>10. CASE /\ front = NoPath
            /\ prepared' = NoPath
            /\ paths' = Abandoned(dropped)
            /\ challenged' = challenged \ dropped
            /\ key' = Keyless(dropped)
            /\ UNCHANGED <<open, pathsToProbe, call>>
  <2>1. /\ paths' \in [Path -> {"absent", "unvalidated", "validated"}]
        /\ \A q \in Path : paths'[q] = IF q \in dropped THEN "absent" ELSE paths[q]
    BY <1>6, <1>10 DEF TypeOK
  <2>2. TypeOK'
    <3>1. {current, activePath, prepared, parked}' \subseteq Maybe
      BY <1>1, <1>2, <1>4, <1>10
    <3>2. checked' \subseteq Path /\ open' \subseteq Path /\ retiring' \subseteq Path
      BY <1>2, <1>4, <1>5, <1>10 DEF TypeOK
    <3>3. challenged' \subseteq Path /\ pathProbing' \subseteq Path
      BY <1>7, <1>10 DEF TypeOK
    <3>4. key' \in [Path -> Key \cup {NoKey}]
      BY <1>10 DEF TypeOK, Keyless
    <3> QED BY <1>3, <1>10, <2>1, <3>1, <3>2, <3>3, <3>4 DEF TypeOK, IdTypes
  <2>3. SwitchIsNotRefused' /\ CallsHaveCandidates'
    BY <1>10 DEF SwitchIsNotRefused, CallsHaveCandidates, Idle
  <2>4. SocketsAreAccountedFor'
    BY <1>a, <1>1, <1>2, <1>4, <1>10 DEF SocketsAreAccountedFor
  <2>5. RolesAreDistinct'
    BY <1>a, <1>1, <1>2, <1>4, <1>8, <1>10 DEF RolesAreDistinct
  <2>6. LoopFollows'
    BY <1>2 DEF LoopFollows
  <2>7. CheckedIsValidated'
    BY <1>a, <1>1, <1>2, <1>10, <2>1 DEF CheckedIsValidated, Probing, TypeOK, Idle
  <2>8. OnlyKnownPaths'
    <3>1. Present' = Present \ dropped /\ Present \subseteq Path
      BY <2>1 DEF Present
    <3>2. Present' \subseteq {activePath', prepared', parked'}
      BY <1>a, <1>1, <1>2, <1>10, <3>1 DEF OnlyKnownPaths
    <3>3. pathProbing' \subseteq Present'
      BY <1>7, <3>1 DEF OnlyKnownPaths
    <3> QED BY <3>2, <3>3 DEF OnlyKnownPaths
  <2> QED BY <1>3, <2>2, <2>3, <2>4, <2>5, <2>6, <2>7, <2>8
<1> QED BY <1>2, <1>9, <1>10

\* PreparePath probes a candidate for the network it is given.
LEMMA PreparePathInv ==
  ASSUME PathIInv, NEW k \in Key, PreparePath(k)
  PROVE  PathIInv'
BY ProbeInv DEF PreparePath

\* MigrateTo goes straight to Switch with a candidate that is still validated,
\* or probes first.
LEMMA MigrateToInv ==
  ASSUME PathIInv, NEW k \in Key, MigrateTo(k)
  PROVE  PathIInv'
<1>1. CASE /\ Warm(k)
           /\ call' = [op |-> "switch", path |-> prepared]
           /\ UNCHANGED <<prepared, parked, key, checked, sockets, paths, pathsToProbe,
                          challenged, ids>>
  <2> USE PathAssumption, IdAssumption DEF PathIInv, NoPath, Maybe
  <2>1. /\ call = Idle /\ conn = "up" /\ prepared \in Path /\ prepared \in checked
        /\ UNCHANGED <<conn, current, activePath, pmActive, pathToSwitchTo, loopTransport>>
        /\ UNCHANGED <<prepared, parked, key, checked, open, retiring, paths, pathsToProbe,
                       challenged, pathProbing, free, owed, newest, ghost, spent, activeSpent>>
    BY <1>1 DEF MigrateTo, Warm, TypeOK, sockets, ids
  <2>2. paths[prepared] = "validated"
    BY <2>1 DEF CheckedIsValidated, Probing, Idle
  <2>3. call'.op = "switch" /\ call'.path = prepared
    BY <1>1
  <2>4. TypeOK'
    <3>1. call' \in [op : {"idle", "prepare", "migrate", "switch", "stop"}, path : Maybe]
      BY <1>1, <2>1
    <3> QED BY <2>1, <3>1 DEF TypeOK
  <2>5. SwitchIsNotRefused' /\ CallsHaveCandidates'
    BY <2>1, <2>2, <2>3 DEF SwitchIsNotRefused, CallsHaveCandidates
  <2>6. SocketsAreAccountedFor' /\ RolesAreDistinct' /\ LoopFollows'
    BY <2>1 DEF SocketsAreAccountedFor, RolesAreDistinct, LoopFollows
  <2>7. CheckedIsValidated'
    BY <2>1, <2>3 DEF CheckedIsValidated, Probing, Idle
  <2>8. OnlyKnownPaths' /\ IdsAreCounted'
    BY <2>1 DEF OnlyKnownPaths, Present, IdsAreCounted
  <2> QED BY <2>4, <2>5, <2>6, <2>7, <2>8
<1>2. CASE Probe("migrate", k) /\ checked' = checked \cap {prepared', parked'}
  BY <1>2, ProbeInv DEF MigrateTo
<1> QED BY <1>1, <1>2 DEF MigrateTo

\* Switch finds its path validated: the candidate takes over, and the transport it
\* replaces outlives it as long as the loop needs.
LEMMA SwitchInv ==
  ASSUME PathIInv, Switch
  PROVE  PathIInv'
<1> USE PathAssumption, IdAssumption DEF PathIInv, Path, NoPath, Maybe
<1> DEFINE left == {activePath} \cap Path
<1>1. /\ call.op = "switch" /\ call.path = prepared /\ prepared \in Path /\ conn # "none"
      /\ paths[prepared] = "validated"
  BY DEF Switch, CallsHaveCandidates, SwitchIsNotRefused
<1>2. /\ pathToSwitchTo' = (IF conn = "up" THEN prepared ELSE NoPath) /\ pmActive' = prepared
      /\ paths' = [q \in Path |-> IF q \in left THEN "absent" ELSE paths[q]]
      /\ GiveUpIds(left)
      /\ challenged' = challenged \ left
      /\ retiring' = retiring \cup {current}
      /\ current' = prepared /\ activePath' = prepared
      /\ prepared' = NoPath /\ checked' = checked \ {prepared} /\ call' = Idle
      /\ key' = Keyless({prepared})
      /\ UNCHANGED <<conn, parked, open, pathsToProbe, loopTransport>>
  BY <1>1 DEF Switch, Switched, Retire
<1>3. /\ activePath \in {NoPath, current} /\ pmActive = activePath
      /\ current \in open \ retiring /\ current \in Path
      /\ prepared \in open \ retiring /\ prepared # current /\ prepared # parked
      /\ parked \in Path => parked \in open \ retiring /\ parked # current
      /\ parked \in Maybe /\ retiring \subseteq open /\ open \subseteq Path
  BY <1>1 DEF RolesAreDistinct, TypeOK
<1>5. left \subseteq {current} /\ prepared \notin left /\ parked \notin left
  BY <1>1, <1>3
<1>6. activePath \in Path => left = {activePath}
  OBVIOUS
<1> HIDE DEF left, Path
<1>7. IdsAreCounted' /\ IdTypes' /\ pathProbing' = pathProbing \ left
  BY <1>2, <1>5, <1>3, GiveUpIdsCount
<1>8. /\ paths' \in [Path -> {"absent", "unvalidated", "validated"}]
      /\ \A q \in Path : paths'[q] = IF q \in left THEN "absent" ELSE paths[q]
  BY <1>2 DEF TypeOK
<1>9. call'.op = "idle" /\ call'.path = NoPath
  BY <1>2 DEF Idle
<1>10. NoPath \notin Path
  BY DEF Path
<1>12. TypeOK'
  <2>1. {current, activePath, prepared, parked}' \subseteq Maybe
    BY <1>1, <1>2, <1>3
  <2>2. checked' \subseteq Path /\ open' \subseteq Path /\ retiring' \subseteq Path
    BY <1>2, <1>3 DEF TypeOK
  <2>3. challenged' \subseteq Path /\ key' \in [Path -> Key \cup {NoKey}]
    BY <1>2 DEF TypeOK, Keyless
  <2>4. {pmActive, pathToSwitchTo, loopTransport}' \subseteq Maybe
    BY <1>1, <1>2 DEF TypeOK
  <2>5. call' \in [op : {"idle", "prepare", "migrate", "switch", "stop"}, path : Maybe]
    BY <1>2 DEF Idle
  <2> QED BY <1>2, <1>7, <1>8, <2>1, <2>2, <2>3, <2>4, <2>5 DEF TypeOK, IdTypes
<1>13. SwitchIsNotRefused'
  BY <1>9 DEF SwitchIsNotRefused
<1>14. SocketsAreAccountedFor'
  BY <1>2, <1>3, <1>10 DEF SocketsAreAccountedFor
<1>15. RolesAreDistinct'
  BY <1>1, <1>2, <1>3, <1>10 DEF RolesAreDistinct
<1>16. LoopFollows'
  BY <1>1, <1>2, <1>3, <1>10 DEF LoopFollows
<1>17. CallsHaveCandidates'
  BY <1>9 DEF CallsHaveCandidates
<1>18. CheckedIsValidated'
  BY <1>1, <1>2, <1>3, <1>5, <1>8 DEF CheckedIsValidated, Probing, TypeOK
<1>19. OnlyKnownPaths'
  <2>1. Present' = Present \ left /\ Present \subseteq Path
    BY <1>8 DEF Present
  <2> QED BY <1>2, <1>6, <1>7, <1>10, <2>1 DEF OnlyKnownPaths
<1>20. IdsAreCounted'
  BY <1>7
<1> QED BY <1>12, <1>13, <1>14, <1>15, <1>16, <1>17, <1>18, <1>19, <1>20 DEF PathIInv

\* A lost network takes its candidates with it, never the path in use.
LEMMA InvalidatePathInv ==
  ASSUME PathIInv, NEW k \in Key, InvalidatePath(k)
  PROVE  PathIInv'
<1> USE PathAssumption, IdAssumption DEF PathIInv, Path, NoPath, Maybe
<1> DEFINE lost == {p \in {prepared, parked} \cap Path : key[p] = k}
<1>1. call = Idle /\ ClosePaths(lost) /\ UNCHANGED conn
  BY DEF InvalidatePath
<1>2. /\ paths' = Abandoned(lost) /\ challenged' = challenged \ lost
      /\ retiring' = retiring \cup lost
      /\ prepared' = IF prepared \in lost THEN NoPath ELSE prepared
      /\ parked' = IF parked \in lost THEN NoPath ELSE parked
      /\ key' = Keyless(lost) /\ checked' = checked \ lost
      /\ UNCHANGED <<conn, current, activePath, call, open, pmActive,
                     pathsToProbe, pathToSwitchTo, loopTransport>>
  BY DEF InvalidatePath, Retire
<1>3. /\ IdsAreCounted' /\ IdTypes'
      /\ pathProbing' = pathProbing \ ((lost \cap Present) \ {pmActive})
  BY <1>1, ClosePathsIds
<1>4. lost \subseteq {prepared, parked} \cap Path
  OBVIOUS
<1> HIDE DEF lost, Path
<1>5. NoPath \notin Path
  BY DEF Path
<1>6. pmActive \notin lost /\ current \notin lost
  BY <1>4, <1>5 DEF RolesAreDistinct
<1>7. /\ paths' \in [Path -> {"absent", "unvalidated", "validated"}]
      /\ \A q \in Path : paths'[q] = IF q \in lost THEN "absent" ELSE paths[q]
  BY <1>2, <1>6 DEF TypeOK, Abandoned
<1>8. call'.op = "idle" /\ call'.path = NoPath /\ call' = call
  BY <1>1, <1>2 DEF Idle
<1>9. conn = "none" => lost = {}
  BY <1>4, <1>5 DEF RolesAreDistinct
<1>10. TypeOK'
  <2>1. key' \in [Path -> Key \cup {NoKey}]
    BY <1>2 DEF TypeOK, Keyless
  <2> QED BY <1>2, <1>3, <1>4, <1>7, <2>1 DEF TypeOK, IdTypes
<1>11. SwitchIsNotRefused'
  BY <1>8 DEF SwitchIsNotRefused
<1>12. SocketsAreAccountedFor'
  BY <1>2, <1>4 DEF SocketsAreAccountedFor
<1>13. RolesAreDistinct'
  BY <1>2, <1>4, <1>5, <1>6, <1>9 DEF RolesAreDistinct, TypeOK
<1>14. LoopFollows'
  BY <1>2 DEF LoopFollows
<1>15. CallsHaveCandidates'
  BY <1>8 DEF CallsHaveCandidates
<1>16. CheckedIsValidated'
  BY <1>1, <1>2, <1>4, <1>7 DEF CheckedIsValidated, Probing, TypeOK, Idle
<1>17. OnlyKnownPaths'
  <2>1. Present' = Present \ lost /\ Present \subseteq Path
    BY <1>7 DEF Present
  <2> QED BY <1>2, <1>3, <1>4, <1>6, <2>1 DEF OnlyKnownPaths
<1>18. IdsAreCounted'
  BY <1>3
<1> QED BY <1>10, <1>11, <1>12, <1>13, <1>14, <1>15, <1>16, <1>17, <1>18 DEF PathIInv

\* Stop ends the connection and hands both candidates to their goroutines.
LEMMA StopInv ==
  ASSUME PathIInv, Stop
  PROVE  PathIInv'
<1> USE PathAssumption, IdAssumption DEF PathIInv, Path, NoPath, Maybe
<1>1. /\ call = Idle /\ conn # "none" /\ conn' = "closed"
      /\ pathProbing' = {} /\ free' = 0 /\ owed' = 0
      /\ newest' = NoPath /\ ghost' = "none" /\ spent' = {} /\ activeSpent' = FALSE
      /\ pathsToProbe' = <<>> /\ challenged' = {}
      /\ pathToSwitchTo' = NoPath /\ loopTransport' = NoPath
      /\ paths' = Abandoned({prepared, parked})
      /\ retiring' = retiring \cup ({prepared, parked} \cap Path)
      /\ prepared' = NoPath /\ parked' = NoPath /\ checked' = {}
      /\ call' = [op |-> "stop", path |-> NoPath] /\ key' = Keyless({prepared, parked})
      /\ UNCHANGED <<current, activePath, open, pmActive>>
  BY DEF Stop, LoopEnds, Retire
<1>2. call'.op = "stop" /\ call'.path = NoPath
  BY <1>1
<1> HIDE DEF Path
<1>3. NoPath \notin Path
  BY DEF Path
<1>4. /\ paths' \in [Path -> {"absent", "unvalidated", "validated"}]
      /\ \A q \in Path : q \in {prepared, parked} /\ q # pmActive => paths'[q] = "absent"
      /\ \A q \in Path : q \notin {prepared, parked} => paths'[q] = paths[q]
  BY <1>1 DEF TypeOK, Abandoned
<1>5. TypeOK'
  <2>1. call' \in [op : {"idle", "prepare", "migrate", "switch", "stop"}, path : Maybe]
    BY <1>1
  <2>2. {current, activePath, prepared, parked, pmActive, pathToSwitchTo, loopTransport}'
          \subseteq Maybe
    BY <1>1 DEF TypeOK
  <2>3. pathsToProbe' \in Seq(Path) /\ retiring' \subseteq Path /\ open' \subseteq Path
    BY <1>1 DEF TypeOK
  <2>4. /\ challenged' \subseteq Path /\ pathProbing' \subseteq Path /\ checked' \subseteq Path
        /\ free' \in 0 .. MaxActive /\ owed' \in 0 .. MaxActive /\ conn' = "closed"
        /\ newest' \in Maybe /\ ghost' = "none" /\ spent' \subseteq Path
        /\ key' \in [Path -> Key \cup {NoKey}]
    BY <1>1 DEF TypeOK, Keyless
  <2>5. activeSpent' \in BOOLEAN
    BY <1>1, Zenon
  <2> QED BY <1>4, <2>1, <2>2, <2>3, <2>4, <2>5 DEF TypeOK
<1>6. SwitchIsNotRefused'
  BY <1>2 DEF SwitchIsNotRefused
<1>7. SocketsAreAccountedFor'
  BY <1>1 DEF SocketsAreAccountedFor, TypeOK
<1>8. RolesAreDistinct'
  BY <1>1, <1>3 DEF RolesAreDistinct, TypeOK
<1>9. LoopFollows'
  BY <1>1 DEF LoopFollows
<1>10. CallsHaveCandidates'
  BY <1>1, <1>2 DEF CallsHaveCandidates
<1>11. CheckedIsValidated'
  BY <1>1 DEF CheckedIsValidated
<1>12. OnlyKnownPaths'
  <2>1. Present' \subseteq {activePath}
    BY <1>4 DEF Present, OnlyKnownPaths, RolesAreDistinct
  <2> QED BY <1>1, <2>1 DEF OnlyKnownPaths
<1>13. IdsAreCounted'
  BY <1>1 DEF IdsAreCounted
<1> QED BY <1>5, <1>6, <1>7, <1>8, <1>9, <1>10, <1>11, <1>12, <1>13 DEF PathIInv

\* When the goroutines are done Stop closes the last socket and forgets the paths.
LEMMA StopEndsInv ==
  ASSUME PathIInv, StopEnds
  PROVE  PathIInv'
<1> USE PathAssumption, IdAssumption DEF PathIInv, Path, NoPath, Maybe
<1>1. /\ call.op = "stop" /\ retiring = {}
      /\ open' = open \ {current}
      /\ current' = NoPath /\ activePath' = NoPath /\ conn' = "none" /\ call' = Idle
      /\ paths' = [p \in Path |-> "absent"] /\ pmActive' = NoPath
      /\ UNCHANGED <<prepared, parked, key, checked, retiring, pathsToProbe, pathToSwitchTo,
                     challenged, loopTransport, pathProbing, free, owed, newest, ghost,
                     spent, activeSpent>>
  BY DEF StopEnds, ids
<1>2. conn = "closed" /\ prepared = NoPath /\ parked = NoPath
  BY <1>1 DEF CallsHaveCandidates
<1>3. call'.op = "idle" /\ call'.path = NoPath
  BY <1>1 DEF Idle
<1> HIDE DEF Path
<1>4. NoPath \notin Path
  BY DEF Path
<1>5. checked = {} /\ pathProbing = {}
  BY <1>2, <1>4 DEF CheckedIsValidated, IdsAreCounted, TypeOK
<1>6. TypeOK'
  <2>1. call' \in [op : {"idle", "prepare", "migrate", "switch", "stop"}, path : Maybe]
    BY <1>1 DEF Idle
  <2>2. key' \in [Path -> Key \cup {NoKey}]
    BY <1>1 DEF TypeOK
  <2>3. paths' \in [Path -> {"absent", "unvalidated", "validated"}]
    BY <1>1
  <2>4. {current, activePath, prepared, parked, pmActive, pathToSwitchTo, loopTransport}'
          \subseteq Maybe
    BY <1>1 DEF TypeOK
  <2>5. conn' = "none" /\ open' \subseteq Path
    BY <1>1 DEF TypeOK
  <2> QED BY <1>1, <2>1, <2>2, <2>3, <2>4, <2>5 DEF TypeOK
<1>7. SwitchIsNotRefused'
  BY <1>3 DEF SwitchIsNotRefused
<1>8. SocketsAreAccountedFor'
  BY <1>1, <1>2, <1>4 DEF SocketsAreAccountedFor, TypeOK
<1>9. RolesAreDistinct'
  BY <1>1, <1>2, <1>4 DEF RolesAreDistinct
<1>10. LoopFollows'
  BY <1>1, <1>2 DEF LoopFollows
<1>11. CallsHaveCandidates'
  BY <1>3 DEF CallsHaveCandidates
<1>12. CheckedIsValidated'
  BY <1>1, <1>5 DEF CheckedIsValidated
<1>13. OnlyKnownPaths'
  BY <1>1, <1>5 DEF OnlyKnownPaths, Present
<1>14. IdsAreCounted'
  BY <1>1, <1>2 DEF IdsAreCounted
<1> QED BY <1>6, <1>7, <1>8, <1>9, <1>10, <1>11, <1>12, <1>13, <1>14 DEF PathIInv

\* A client that was never started has the invariant.
LEMMA PathInitInv == Init => PathIInv
<1> SUFFICES ASSUME Init PROVE PathIInv
  OBVIOUS
<1> USE PathAssumption, IdAssumption DEF Init, Idle, Path, NoPath, Maybe
<1>1. TypeOK
  <2>1. activeSpent \in BOOLEAN
    BY Zenon
  <2> QED BY <2>1 DEF TypeOK
<1>2. SwitchIsNotRefused /\ SocketsAreAccountedFor
  BY DEF SwitchIsNotRefused, SocketsAreAccountedFor
<1>3. RolesAreDistinct /\ LoopFollows /\ CallsHaveCandidates
  BY DEF RolesAreDistinct, LoopFollows, CallsHaveCandidates
<1>4. CheckedIsValidated /\ OnlyKnownPaths /\ IdsAreCounted
  BY DEF CheckedIsValidated, OnlyKnownPaths, Present, IdsAreCounted
<1> QED BY <1>1, <1>2, <1>3, <1>4 DEF PathIInv

\* A step that changes none of the variables keeps the invariant.
LEMMA PathStutter == PathIInv /\ UNCHANGED vars => PathIInv'
<1> SUFFICES ASSUME PathIInv, UNCHANGED vars PROVE PathIInv'
  OBVIOUS
<1> USE DEF PathIInv, vars, client, sockets, manager, ids
<1>1. TypeOK'
  BY DEF TypeOK
<1>2. SwitchIsNotRefused' /\ SocketsAreAccountedFor'
  BY DEF SwitchIsNotRefused, SocketsAreAccountedFor
<1>3. RolesAreDistinct' /\ LoopFollows' /\ CallsHaveCandidates'
  BY DEF RolesAreDistinct, LoopFollows, CallsHaveCandidates
<1>4. CheckedIsValidated' /\ OnlyKnownPaths' /\ IdsAreCounted'
  BY DEF CheckedIsValidated, Probing, OnlyKnownPaths, Present, IdsAreCounted
<1> QED BY <1>1, <1>2, <1>3, <1>4

\* The invariant is inductive: no interleaving of the operations, the loop, the
\* goroutines and the network leaves it.
THEOREM PathsAlwaysIInv == Spec => []PathIInv
<1>1. PathIInv /\ [Next]_vars => PathIInv'
  <2> SUFFICES ASSUME PathIInv, [Next]_vars PROVE PathIInv'
    OBVIOUS
  <2>1. CASE Environment
    BY <2>1, PathResponseInv, NewConnectionIdInv, NewConnectionIdAgainInv,
       RotateConnectionIdInv, ConnectionDiesInv DEF Environment, ConnectionIdLimit
  <2>2. CASE Loop
    BY <2>2, NextPathToProbeInv, SwitchToNewPathInv DEF Loop
  <2>3. CASE Goroutines
    BY <2>3, RetireTransportInv DEF Goroutines
  <2>4. CASE Operations
    <3>1. CASE \E p \in Path : Start(p)
      BY <3>1, StartInv
    <3>2. CASE \E k \in Key : PreparePath(k) \/ MigrateTo(k) \/ InvalidatePath(k)
      BY <3>2, PreparePathInv, MigrateToInv, InvalidatePathInv
    <3>3. CASE ProbeAgain \/ ProbeSucceeds \/ ProbeFails
      BY <3>3, ProbeAgainInv, ProbeSucceedsInv, ProbeFailsInv
    <3>4. CASE Switch \/ Stop \/ StopEnds
      BY <3>4, SwitchInv, StopInv, StopEndsInv
    <3> QED BY <2>4, <3>1, <3>2, <3>3, <3>4 DEF Operations
  <2>5. CASE UNCHANGED vars
    BY <2>5, PathStutter
  <2> QED BY <2>1, <2>2, <2>3, <2>4, <2>5 DEF Next
<1> QED BY <1>1, PathInitInv, PTL DEF Spec

\* The books of the client hold for ever: a migration that has reached Switch is
\* never refused, and every open socket is in use, a candidate or on its way out.
THEOREM PathsAlwaysPathInv == Spec => []PathInv
<1>1. PathIInv => PathInv
  BY DEF PathIInv, PathInv
<1> QED BY <1>1, PathsAlwaysIInv, PTL

\* At no moment of a migration does the loop send on a closed socket, and the
\* transport it is to send on next is open and not retiring.
THEOREM PathsAlwaysOpen == Spec => []TransportInUseIsOpen
<1>1. PathIInv => TransportInUseIsOpen
  <2> SUFFICES ASSUME PathIInv, conn = "up" PROVE TransportInUseIsOpen
    BY DEF TransportInUseIsOpen
  <2>1. /\ current \in open \ retiring /\ retiring \subseteq open
        /\ loopTransport \in {current} \cup retiring
        /\ current = IF pathToSwitchTo = NoPath THEN loopTransport ELSE pathToSwitchTo
    BY DEF PathIInv, RolesAreDistinct, LoopFollows
  <2> QED BY <2>1 DEF TransportInUseIsOpen
<1> QED BY <1>1, PathsAlwaysIInv, PTL

\* However many networks come and go, the connection IDs in use belong to the
\* active path and the two candidates, and none is lost.
THEOREM PathsNeverLeakIds == Spec => []IdsAreNotLeaked
<1>1. PathIInv => IdsAreNotLeaked
  BY DEF PathIInv, OnlyKnownPaths, IdsAreCounted, IdsAreNotLeaked
<1> QED BY <1>1, PathsAlwaysIInv, PTL
=============================================================================
