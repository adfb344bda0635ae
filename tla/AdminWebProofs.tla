--------------------------- MODULE AdminWebProofs ---------------------------
(***************************************************************************)
(* The capture manager keeps its limits and the shape of its recordings,   *)
(* a viewer that is told the end has everything, and the administration    *)
(* over it records only whom it should and revokes what it must: for any   *)
(* number of captures, logins, users, addresses and tickets.               *)
(***************************************************************************)
EXTENDS AdminWeb, FiniteSetTheorems, TLAPS

(* What runs was found by the manager, or is the one being started, which  *)
(* is a capture of the listeners, is not yet found, and keeps Close out.   *)
StartIsExclusive ==
  /\ running \subseteq sessions \cup {managerMu}
  /\ managerMu \notin sessions \cup unsent
  /\ managerMu # NoCapture => ~closing /\ info[managerMu].user = NoUser

(* The limits, with the room that is kept for the capture being started.   *)
RoomIsKept ==
  /\ IsFiniteSet(running) /\ Cardinality(running) <= Slots
  /\ IsFiniteSet(sessions) /\ Cardinality(sessions) <= Retained
  /\ managerMu # NoCapture => Cardinality(sessions) < Retained

(* No two running captures are of one user.                                *)
UsersAreDistinct ==
  \A c, d \in Active : info[c].user = info[d].user => c = d \/ info[c].user = NoUser

(* A secret waits only for a recording that has begun.                     *)
SecretsFollowHeader == \A c \in unsent : blocks[c] # <<>>

(* The last batch is that of an ended capture and goes to its end.         *)
LastIsLast ==
  \A c \in Capture :
    /\ viewer[c].at = "writing" /\ viewer[c].last =>
         c \notin running /\ viewer[c].until = Len(blocks[c])
    /\ viewer[c].at = "closed" =>
         c \notin running /\ viewer[c].index = Len(blocks[c])

(* The inductive invariant of the manager.                                 *)
CaptureIInv ==
  /\ CaptureTypeOK /\ HeaderIsFirst /\ ClosingStopsAll
  /\ StartIsExclusive /\ RoomIsKept /\ UsersAreDistinct
  /\ SecretsFollowHeader /\ LastIsLast

(* What the handler that holds userCaptureMu is about: a user, and a login *)
(* that was not ended since it was checked.                                *)
HandlerIsValid ==
  /\ mutex.op \in {"stop", "revoke", "request", "capture"} => mutex.user \in User
  /\ mutex.op \in {"request", "capture"} => mutex.owner \notin loggedOut

(* An address belongs to one user, who exists.                             *)
AddressesAreUnique ==
  /\ \A u \in User : ~Known(u) => address[u] = NoAddress
  /\ \A u, v \in User : address[u] = address[v] => u = v \/ address[u] = NoAddress

(* TicketsAreFresh without counting.                                       *)
TicketsAreUnique ==
  /\ \A s, t \in Enrollment : tickets[s] = tickets[t] => s = t \/ tickets[s] = NoUser
  /\ \A t \in stale : mutex.op \in {"stop", "revoke"} /\ mutex.user = tickets[t]

(* The inductive invariant of the pages.                                   *)
WebIInv ==
  /\ CaptureIInv
  /\ WebTypeOK /\ LogoutIsDurable /\ InnerEndsWithLogin /\ CaptureFollowsUser
  /\ HandlerIsValid /\ AddressesAreUnique /\ TicketsAreUnique

-----------------------------------------------------------------------------
(* Lemmas on the operators of the model.                                   *)

\* The information of nobody is information: there is an owner for it.
LEMMA NoInfoType == NoInfo \in Info /\ NoInfo.user = NoUser
<1>1. PICK o \in Owner : TRUE
  BY CaptureAssumption
<1>2. [owner |-> o, user |-> NoUser, address |-> NoAddress] \in Info
  BY <1>1 DEF Info
<1>3. \E i \in Info : i.user = NoUser /\ i.address = NoAddress
  BY <1>2
<1> QED BY <1>3 DEF NoInfo

\* CHOOSE picks a member.
LEMMA AnotherIsMember == ASSUME NEW S, S # {} PROVE Another(S) \in S
  BY DEF Another

\* Without a start under way, every capture that runs is found.
LEMMA ActiveIsRunning ==
  ASSUME CaptureTypeOK, StartIsExclusive, managerMu = NoCapture
  PROVE  Active = running
  BY CaptureAssumption DEF CaptureTypeOK, StartIsExclusive, Active

\* A set with no two elements has at most one.
LEMMA AtMostOne ==
  ASSUME NEW S, \A x, y \in S : x = y
  PROVE  Cardinality(S) <= 1
<1>1. CASE S = {}
  BY <1>1, FS_EmptySet
<1>2. CASE S # {}
  <2>1. PICK x \in S : TRUE
    BY <1>2
  <2>2. S = {x}
    BY <2>1
  <2> QED BY <2>2, FS_Singleton
<1> QED BY <1>1, <1>2

-----------------------------------------------------------------------------
(* The manager: each operation preserves the invariant.                    *)

\* Captures stop, tickets, tokens and viewers change: the limits and the
\* recordings are kept.
LEMMA StopKeeps ==
  ASSUME CaptureIInv, running' \subseteq running,
         UNCHANGED <<sessions, info, managerMu, record>>,
         closing' \in BOOLEAN, closing' => running' = {},
         managerMu # NoCapture => ~closing',
         pass' \in [Capture -> SUBSET {"ticket", "token"}],
         viewer' \in [Capture -> Viewer], LastIsLast'
  PROVE  CaptureIInv'
<1> USE DEF CaptureIInv, record
<1>1. CaptureTypeOK'
  BY DEF CaptureTypeOK
<1>2. HeaderIsFirst'
  BY DEF HeaderIsFirst
<1>3. ClosingStopsAll' /\ StartIsExclusive'
  BY DEF ClosingStopsAll, StartIsExclusive
<1>4. RoomIsKept'
  <2>1. IsFiniteSet(running') /\ Cardinality(running') <= Cardinality(running)
    BY FS_Subset DEF RoomIsKept
  <2>2. Cardinality(running) \in Nat /\ Cardinality(running') \in Nat
    BY <2>1, FS_CardinalityType DEF RoomIsKept
  <2> QED BY <2>1, <2>2, CaptureAssumption DEF RoomIsKept
<1>5. UsersAreDistinct'
  BY DEF UsersAreDistinct, Active
<1>6. SecretsFollowHeader'
  BY DEF SecretsFollowHeader
<1> QED BY <1>1, <1>2, <1>3, <1>4, <1>5, <1>6

\* Stopping captures, with the viewers as they are, is such a step.
LEMMA StopAllKeeps ==
  ASSUME CaptureIInv, running' \subseteq running,
         UNCHANGED <<sessions, info, managerMu, closing, record, viewer>>,
         pass' \in [Capture -> SUBSET {"ticket", "token"}]
  PROVE  CaptureIInv'
<1>1. LastIsLast'
  BY DEF CaptureIInv, LastIsLast, record
<1>2. closing' => running' = {}
  BY DEF CaptureIInv, ClosingStopsAll
<1> QED BY <1>1, <1>2, StopKeeps DEF CaptureIInv, CaptureTypeOK, StartIsExclusive

\* A step of one viewer, which may stop its capture.
LEMMA ViewerKeeps ==
  ASSUME CaptureIInv, NEW c \in Capture, NEW v \in Viewer,
         SetViewer(c, v), running' \subseteq running,
         UNCHANGED <<sessions, info, managerMu, closing, record>>,
         pass' \in [Capture -> SUBSET {"ticket", "token"}],
         v.at = "writing" /\ v.last => c \notin running' /\ v.until = Len(blocks[c]),
         v.at = "closed" => c \notin running' /\ v.index = Len(blocks[c])
  PROVE  CaptureIInv'
<1>0. viewer \in [Capture -> Viewer]
  BY DEF CaptureIInv, CaptureTypeOK
<1>1. viewer' = [viewer EXCEPT ![c] = v] /\ viewer' \in [Capture -> Viewer]
  BY <1>0 DEF SetViewer
<1>2. LastIsLast'
  <2> SUFFICES ASSUME NEW d \in Capture
               PROVE  /\ viewer'[d].at = "writing" /\ viewer'[d].last =>
                           d \notin running' /\ viewer'[d].until = Len(blocks'[d])
                      /\ viewer'[d].at = "closed" =>
                           d \notin running' /\ viewer'[d].index = Len(blocks'[d])
    BY DEF LastIsLast
  <2>0. blocks' = blocks
    BY DEF record
  <2>1. CASE d = c
    BY <2>1, <2>0, <1>0, <1>1
  <2>2. CASE d # c
    BY <2>2, <2>0, <1>0, <1>1 DEF CaptureIInv, LastIsLast
  <2> QED BY <2>1, <2>2
<1>3. closing' => running' = {}
  BY DEF CaptureIInv, ClosingStopsAll
<1> QED BY <1>1, <1>2, <1>3, StopKeeps DEF CaptureIInv, CaptureTypeOK, StartIsExclusive

\* emit: the header goes first, a full or stopped recording takes nothing.
LEMMA EmitKeeps ==
  ASSUME CaptureIInv, NEW c \in Capture, NEW b \in {"header", "packet", "secret"},
         Emit(c, b), b = "header" <=> blocks[c] = <<>>, unsent' \subseteq unsent,
         UNCHANGED <<sessions, info, managerMu, closing, keyLines, pass, viewer>>
  PROVE  CaptureIInv'
<1> USE DEF CaptureIInv
<1> DEFINE adds == c \in running /\ Len(blocks[c]) < MaxBlocks
<1>0. /\ blocks \in [Capture -> Seq({"header", "packet", "secret"})]
      /\ \A d \in Capture : Len(blocks[d]) <= MaxBlocks
      /\ MaxBlocks \in Nat /\ running' \subseteq running
  BY CaptureAssumption DEF CaptureTypeOK, Emit
<1>1. \A d \in Capture : d # c \/ ~adds => blocks'[d] = blocks[d]
  BY <1>0 DEF Emit
<1>2. adds => blocks'[c] = Append(blocks[c], b)
  BY <1>0 DEF Emit
<1>3. CaptureTypeOK'
  <2>1. blocks' \in [Capture -> Seq({"header", "packet", "secret"})]
    BY <1>0 DEF Emit
  <2>2. \A d \in Capture : Len(blocks'[d]) <= MaxBlocks
    BY <1>0, <1>1, <1>2
  <2> QED BY <2>1, <2>2, <1>0 DEF CaptureTypeOK
<1>4. HeaderIsFirst'
  <2>1. \A d \in Capture : blocks[d] # <<>> => blocks'[d] # <<>>
    BY <1>0, <1>1, <1>2
  <2>2. ASSUME NEW d \in Capture, NEW i \in 1..MaxBlocks, i \in DOMAIN blocks'[d]
        PROVE  blocks'[d][i] = "header" <=> i = 1
    <3>1. CASE d # c \/ ~adds
      BY <3>1, <2>2, <1>1 DEF HeaderIsFirst
    <3>2. CASE d = c /\ adds
      <4>1. blocks'[d] = Append(blocks[c], b) /\ blocks[c] \in Seq({"header", "packet", "secret"})
        BY <3>2, <1>0, <1>2
      <4>2. CASE i = Len(blocks[c]) + 1
        <5>1. blocks'[d][i] = b
          BY <4>1, <4>2
        <5>2. blocks[c] = <<>> <=> i = 1
          BY <4>1, <4>2
        <5> QED BY <5>1, <5>2
      <4>3. CASE i # Len(blocks[c]) + 1
        <5>1. i \in DOMAIN blocks[c] /\ blocks'[d][i] = blocks[c][i]
          BY <4>1, <4>3, <2>2
        <5> QED BY <5>1 DEF HeaderIsFirst
      <4> QED BY <4>2, <4>3
    <3> QED BY <3>1, <3>2
  <2>3. \A d \in sessions' : blocks'[d] # <<>>
    BY <2>1 DEF HeaderIsFirst, CaptureTypeOK
  <2> QED BY <2>2, <2>3 DEF HeaderIsFirst
<1>5. ClosingStopsAll' /\ StartIsExclusive'
  BY <1>0 DEF ClosingStopsAll, StartIsExclusive
<1>6. RoomIsKept'
  <2>1. IsFiniteSet(running') /\ Cardinality(running') <= Cardinality(running)
    BY <1>0, FS_Subset DEF RoomIsKept
  <2>2. Cardinality(running) \in Nat /\ Cardinality(running') \in Nat
    BY <2>1, FS_CardinalityType DEF RoomIsKept
  <2> QED BY <2>1, <2>2, CaptureAssumption DEF RoomIsKept
<1>7. UsersAreDistinct'
  BY <1>0 DEF UsersAreDistinct, Active
<1>8. SecretsFollowHeader'
  BY <1>0, <1>1, <1>2 DEF SecretsFollowHeader, CaptureTypeOK
<1>9. LastIsLast'
  <2>1. \A d \in Capture : d \notin running => d \notin running' /\ blocks'[d] = blocks[d]
    BY <1>0, <1>1
  <2> QED BY <2>1 DEF LastIsLast
<1> QED BY <1>3, <1>4, <1>5, <1>6, <1>7, <1>8, <1>9

\* A capture without a viewer has a viewer's record.
LEMMA NoViewerType == NoViewer \in Viewer
  BY CaptureAssumption DEF NoViewer, Viewer

\* A new capture takes one of the slots; while it is being started it is not
\* yet found, and one place among the retained is kept for it.
LEMMA NewSessionKeeps ==
  ASSUME CaptureIInv, NEW c \in Capture, NEW i \in Info, NEW bs \in {<<>>, <<"header">>},
         managerMu = NoCapture, ~closing, HasRoom, Unused(c), NewSession(c, i, bs),
         closing' = closing,
         \/ /\ bs = <<>> /\ i.user = NoUser
            /\ managerMu' = c /\ sessions' = sessions
         \/ /\ bs = <<"header">> /\ i.user # NoUser /\ UserCapture(i.user) = {}
            /\ managerMu' = managerMu /\ sessions' = sessions \cup {c}
  PROVE  CaptureIInv'
<1> USE DEF CaptureIInv
<1>0. /\ c \notin sessions /\ c # NoCapture /\ c \notin unsent /\ c \notin running
      /\ running' = running \cup {c} /\ unsent' = unsent
      /\ Active = running /\ MaxBlocks \in Nat \ {0}
  BY ActiveIsRunning, CaptureAssumption
  DEF CaptureTypeOK, NewSession, Unused, StartIsExclusive
<1>1. /\ info' = [info EXCEPT ![c] = i] /\ info \in [Capture -> Info]
      /\ blocks' = [blocks EXCEPT ![c] = bs]
      /\ blocks \in [Capture -> Seq({"header", "packet", "secret"})]
      /\ viewer' = [viewer EXCEPT ![c] = NoViewer] /\ viewer \in [Capture -> Viewer]
  BY DEF CaptureTypeOK, NewSession, SetViewer
<1>2. Len(bs) <= MaxBlocks /\ bs \in Seq({"header", "packet", "secret"})
  <2>1. CASE bs = <<>>
    BY <2>1, <1>0
  <2>2. CASE bs = <<"header">>
    BY <2>2, <1>0
  <2> QED BY <2>1, <2>2
<1>3. CaptureTypeOK'
  <2>1. \A d \in Capture : Len(blocks'[d]) <= MaxBlocks
    BY <1>1, <1>2 DEF CaptureTypeOK
  <2>2. blocks' \in [Capture -> Seq({"header", "packet", "secret"})]
    BY <1>1, <1>2
  <2>3. viewer' \in [Capture -> Viewer]
    BY <1>1, NoViewerType
  <2>4. keyLines' \in [Capture -> 0..MaxKeys] /\ pass' \in [Capture -> SUBSET {"ticket", "token"}]
    BY CaptureAssumption DEF CaptureTypeOK, NewSession
  <2>5. info' \in [Capture -> Info]
    BY <1>1
  <2>6. sessions' \subseteq Capture /\ managerMu' \in Capture \cup {NoCapture}
    BY DEF CaptureTypeOK
  <2> QED BY <2>1, <2>2, <2>3, <2>4, <2>5, <2>6, <1>0 DEF CaptureTypeOK
<1>4. HeaderIsFirst'
  <2>1. \A d \in sessions' : blocks'[d] # <<>>
    <3>1. \A d \in sessions : blocks'[d] # <<>>
      BY <1>0, <1>1 DEF HeaderIsFirst, CaptureTypeOK
    <3>2. bs = <<"header">> => blocks'[c] # <<>>
      BY <1>1
    <3> QED BY <3>1, <3>2
  <2>2. ASSUME NEW d \in Capture, NEW j \in 1..MaxBlocks, j \in DOMAIN blocks'[d]
        PROVE  blocks'[d][j] = "header" <=> j = 1
    <3>1. CASE d # c
      BY <3>1, <2>2, <1>1 DEF HeaderIsFirst
    <3>2. CASE d = c
      BY <3>2, <2>2, <1>1
    <3> QED BY <3>1, <3>2
  <2> QED BY <2>1, <2>2 DEF HeaderIsFirst
<1>5. ClosingStopsAll' /\ StartIsExclusive'
  <2>1. info'[c] = i
    BY <1>1
  <2>2. running \subseteq sessions
    BY <1>0 DEF Active
  <2>3. ClosingStopsAll'
    BY DEF ClosingStopsAll
  <2>4. running' \subseteq sessions' \cup {managerMu'} /\ managerMu' \notin sessions' \cup unsent'
    BY <1>0, <2>2, CaptureAssumption DEF StartIsExclusive
  <2>5. managerMu' # NoCapture => ~closing' /\ info'[managerMu'].user = NoUser
    BY <2>1
  <2> QED BY <2>3, <2>4, <2>5 DEF StartIsExclusive
<1>6. RoomIsKept'
  <2>1. /\ IsFiniteSet(running') /\ Cardinality(running') = Cardinality(running) + 1
        /\ IsFiniteSet(sessions \cup {c})
        /\ Cardinality(sessions \cup {c}) = Cardinality(sessions) + 1
    BY <1>0, FS_AddElement DEF RoomIsKept
  <2>2. Cardinality(running) \in Nat /\ Cardinality(sessions) \in Nat
    BY FS_CardinalityType DEF RoomIsKept
  <2>3. Cardinality(running) < Slots /\ Cardinality(sessions) < Retained
    BY <1>0 DEF HasRoom
  <2>4. Slots \in Nat /\ Retained \in Nat
    BY CaptureAssumption
  <2>5. \A m, n \in Nat : m < n => m + 1 <= n /\ m <= n
    OBVIOUS
  <2>6. Cardinality(running') <= Slots /\ Cardinality(sessions') <= Retained
    BY <2>1, <2>2, <2>3, <2>4, <2>5
  <2> QED BY <2>1, <2>3, <2>6 DEF RoomIsKept
<1>7. UsersAreDistinct'
  <2>1. \A d \in Capture : d # c => info'[d] = info[d]
    BY <1>1
  <2>2. info'[c] = i
    BY <1>1
  <2>3. Active' \subseteq running \cup {c} /\ running \subseteq Capture
    BY <1>0 DEF Active, CaptureTypeOK
  <2>4. i.user # NoUser => \A d \in running : info[d].user # i.user
    BY <1>0 DEF UserCapture
  <2> QED BY <2>1, <2>2, <2>3, <2>4, <1>0 DEF UsersAreDistinct
<1>8. SecretsFollowHeader'
  BY <1>0, <1>1 DEF SecretsFollowHeader, CaptureTypeOK
<1>9. LastIsLast'
  <2> SUFFICES ASSUME NEW d \in Capture
               PROVE  /\ viewer'[d].at = "writing" /\ viewer'[d].last =>
                           d \notin running' /\ viewer'[d].until = Len(blocks'[d])
                      /\ viewer'[d].at = "closed" =>
                           d \notin running' /\ viewer'[d].index = Len(blocks'[d])
    BY DEF LastIsLast
  <2>1. CASE d = c
    BY <2>1, <1>1 DEF NoViewer
  <2>2. CASE d # c
    BY <2>2, <1>0, <1>1 DEF LastIsLast
  <2> QED BY <2>1, <2>2
<1> QED BY <1>3, <1>4, <1>5, <1>6, <1>7, <1>8, <1>9

\* What a capture held is garbage once it is not found and does not run.
LEMMA DiscardKeeps ==
  ASSUME CaptureIInv, NEW c \in Capture, Discard(c), c \notin unsent,
         running' = running \ {c}, sessions' = sessions \ {c},
         managerMu \in {c, managerMu'}, managerMu' \in {NoCapture, managerMu} \ {c},
         closing' = closing
  PROVE  CaptureIInv'
<1> USE DEF CaptureIInv
<1>0. running' \subseteq running /\ unsent' = unsent /\ MaxBlocks \in Nat
  BY CaptureAssumption DEF Discard
<1>1. /\ info' = [info EXCEPT ![c] = NoInfo] /\ info \in [Capture -> Info]
      /\ blocks' = [blocks EXCEPT ![c] = <<>>]
      /\ blocks \in [Capture -> Seq({"header", "packet", "secret"})]
      /\ viewer' = [viewer EXCEPT ![c] = NoViewer] /\ viewer \in [Capture -> Viewer]
  BY DEF CaptureTypeOK, Discard, SetViewer
<1>2. \A d \in Capture : d # c => info'[d] = info[d] /\ blocks'[d] = blocks[d]
                                   /\ viewer'[d] = viewer[d]
  BY <1>1
<1>3. CaptureTypeOK'
  <2>1. \A d \in Capture : Len(blocks'[d]) <= MaxBlocks
    BY <1>0, <1>1 DEF CaptureTypeOK
  <2>2. blocks' \in [Capture -> Seq({"header", "packet", "secret"})]
    BY <1>1
  <2>3. viewer' \in [Capture -> Viewer]
    BY <1>1, NoViewerType
  <2>4. keyLines' \in [Capture -> 0..MaxKeys] /\ pass' \in [Capture -> SUBSET {"ticket", "token"}]
    BY CaptureAssumption DEF CaptureTypeOK, Discard
  <2>5. info' \in [Capture -> Info]
    BY <1>1, NoInfoType
  <2> QED BY <2>1, <2>2, <2>3, <2>4, <2>5, <1>0 DEF CaptureTypeOK
<1>4. HeaderIsFirst'
  <2>1. \A d \in sessions' : blocks'[d] # <<>>
    BY <1>2 DEF HeaderIsFirst, CaptureTypeOK
  <2>2. ASSUME NEW d \in Capture, NEW j \in 1..MaxBlocks, j \in DOMAIN blocks'[d]
        PROVE  blocks'[d][j] = "header" <=> j = 1
    <3>1. CASE d # c
      BY <3>1, <2>2, <1>1 DEF HeaderIsFirst
    <3>2. CASE d = c
      BY <3>2, <2>2, <1>1
    <3> QED BY <3>1, <3>2
  <2> QED BY <2>1, <2>2 DEF HeaderIsFirst
<1>5. ClosingStopsAll' /\ StartIsExclusive'
  <2>1. ClosingStopsAll'
    BY <1>0 DEF ClosingStopsAll
  <2>2. running' \subseteq sessions' \cup {managerMu'}
    BY DEF StartIsExclusive
  <2> QED BY <2>1, <2>2, <1>0, <1>2, CaptureAssumption DEF StartIsExclusive, CaptureTypeOK
<1>6. RoomIsKept'
  <2>1. /\ IsFiniteSet(running') /\ Cardinality(running') <= Cardinality(running)
        /\ IsFiniteSet(sessions') /\ Cardinality(sessions') <= Cardinality(sessions)
    BY FS_Subset DEF RoomIsKept
  <2>2. /\ Cardinality(running) \in Nat /\ Cardinality(running') \in Nat
        /\ Cardinality(sessions) \in Nat /\ Cardinality(sessions') \in Nat
    BY <2>1, FS_CardinalityType DEF RoomIsKept
  <2> QED BY <2>1, <2>2, CaptureAssumption DEF RoomIsKept
<1>7. UsersAreDistinct'
  BY <1>2 DEF UsersAreDistinct, Active, CaptureTypeOK
<1>8. SecretsFollowHeader'
  BY <1>0, <1>2 DEF SecretsFollowHeader, CaptureTypeOK
<1>9. LastIsLast'
  <2>1. viewer'[c] = NoViewer
    BY <1>1
  <2> QED BY <2>1, <1>0, <1>2 DEF LastIsLast, NoViewer
<1> QED BY <1>3, <1>4, <1>5, <1>6, <1>7, <1>8, <1>9

\* The capture that was started is found from now on.
LEMMA StartSucceedsKeeps ==
  ASSUME CaptureIInv, NEW c \in Capture, StartSucceeds(c)
  PROVE  CaptureIInv'
<1> USE DEF CaptureIInv
<1>0. /\ managerMu = c /\ c # NoCapture /\ blocks[c] # <<>>
      /\ sessions' = sessions \cup {c} /\ managerMu' = NoCapture
      /\ UNCHANGED <<running, info, closing, blocks, keyLines, unsent, pass, viewer>>
  BY CaptureAssumption DEF StartSucceeds, record
<1>1. CaptureTypeOK' /\ HeaderIsFirst'
  BY <1>0 DEF CaptureTypeOK, HeaderIsFirst
<1>2. ClosingStopsAll' /\ StartIsExclusive'
  BY <1>0, CaptureAssumption DEF ClosingStopsAll, StartIsExclusive, CaptureTypeOK
<1>3. RoomIsKept'
  <2>1. IsFiniteSet(sessions') /\ Cardinality(sessions') = Cardinality(sessions) + 1
    BY <1>0, FS_AddElement DEF RoomIsKept, StartIsExclusive
  <2>2. Cardinality(sessions) \in Nat
    BY FS_CardinalityType DEF RoomIsKept
  <2> QED BY <2>1, <2>2, <1>0, CaptureAssumption DEF RoomIsKept
<1>4. UsersAreDistinct'
  BY <1>0 DEF UsersAreDistinct, Active, StartIsExclusive
<1>5. SecretsFollowHeader' /\ LastIsLast'
  BY <1>0 DEF SecretsFollowHeader, LastIsLast
<1> QED BY <1>1, <1>2, <1>3, <1>4, <1>5

\* The first half of Write: the secret is kept, and waits to be recorded.
LEMMA SecretKeeps ==
  ASSUME CaptureIInv, NEW c \in Capture, Secret(c)
  PROVE  CaptureIInv'
<1> USE DEF CaptureIInv
<1>0. /\ managerMu = NoCapture /\ c \in sessions /\ keyLines[c] < MaxKeys
      /\ keyLines' = [keyLines EXCEPT ![c] = @ + 1] /\ unsent' = unsent \cup {c}
      /\ UNCHANGED <<sessions, running, info, managerMu, closing, blocks, pass, viewer>>
  BY DEF Secret, Active, manager
<1>1. CaptureTypeOK'
  <2>1. keyLines' \in [Capture -> 0..MaxKeys]
    <3>1. keyLines[c] + 1 \in 0..MaxKeys
      BY <1>0, CaptureAssumption DEF CaptureTypeOK
    <3> QED BY <3>1, <1>0 DEF CaptureTypeOK
  <2> QED BY <2>1, <1>0 DEF CaptureTypeOK
<1>2. HeaderIsFirst' /\ ClosingStopsAll' /\ RoomIsKept' /\ LastIsLast'
  BY <1>0 DEF HeaderIsFirst, ClosingStopsAll, RoomIsKept, LastIsLast
<1>3. StartIsExclusive'
  BY <1>0, CaptureAssumption DEF StartIsExclusive
<1>4. UsersAreDistinct' /\ SecretsFollowHeader'
  BY <1>0 DEF UsersAreDistinct, Active, SecretsFollowHeader, HeaderIsFirst
<1> QED BY <1>1, <1>2, <1>3, <1>4

\* Nothing happens to the manager.
LEMMA CaptureStutters ==
  ASSUME CaptureIInv, UNCHANGED captureVars
  PROVE  CaptureIInv'
<1> USE DEF CaptureIInv, captureVars, manager, record
<1>1. CaptureTypeOK' /\ HeaderIsFirst' /\ ClosingStopsAll' /\ StartIsExclusive'
  BY DEF CaptureTypeOK, HeaderIsFirst, ClosingStopsAll, StartIsExclusive
<1>2. RoomIsKept' /\ UsersAreDistinct' /\ SecretsFollowHeader' /\ LastIsLast'
  BY DEF RoomIsKept, UsersAreDistinct, Active, SecretsFollowHeader, LastIsLast
<1> QED BY <1>1, <1>2

-----------------------------------------------------------------------------
(* The operations, by these lemmas.                                        *)

LEMMA StartOuterKeeps ==
  ASSUME CaptureIInv, NEW c \in Capture, NEW o \in Owner, StartOuter(c, o)
  PROVE  CaptureIInv'
<1> DEFINE i == [owner |-> o, user |-> NoUser, address |-> NoAddress]
<1>1. i \in Info /\ i.user = NoUser
  BY DEF Info
<1>2. /\ managerMu = NoCapture /\ ~closing /\ HasRoom /\ Unused(c) /\ NewSession(c, i, <<>>)
      /\ managerMu' = c /\ sessions' = sessions /\ closing' = closing
  BY DEF StartOuter
<1> HIDE DEF i
<1> QED BY <1>1, <1>2, NewSessionKeeps

LEMMA StartUserKeeps ==
  ASSUME CaptureIInv, NEW c \in Capture, NEW o \in Owner, NEW u \in User,
         NEW a \in Address \cup {NoAddress}, StartUser(c, o, u, a)
  PROVE  CaptureIInv'
<1> DEFINE i == [owner |-> o, user |-> u, address |-> a]
<1>1. i \in Info /\ i.user = u /\ u # NoUser
  BY CaptureAssumption DEF Info
<1>2. /\ managerMu = NoCapture /\ ~closing /\ HasRoom /\ Unused(c) /\ UserCapture(u) = {}
      /\ NewSession(c, i, <<"header">>)
      /\ managerMu' = managerMu /\ sessions' = sessions \cup {c} /\ closing' = closing
  BY DEF StartUser
<1> HIDE DEF i
<1> QED BY <1>1, <1>2, NewSessionKeeps

LEMMA TcpdumpReadyKeeps ==
  ASSUME CaptureIInv, NEW c \in Capture, TcpdumpReady(c)
  PROVE  CaptureIInv'
<1>1. /\ Emit(c, "header") /\ blocks[c] = <<>> /\ unsent' \subseteq unsent
      /\ UNCHANGED <<sessions, info, managerMu, closing, keyLines, pass, viewer>>
  BY DEF TcpdumpReady
<1> QED BY <1>1, EmitKeeps

LEMMA PacketKeeps ==
  ASSUME CaptureIInv, NEW c \in Capture, Packet(c)
  PROVE  CaptureIInv'
<1>1. /\ Emit(c, "packet") /\ blocks[c] # <<>> /\ unsent' \subseteq unsent
      /\ UNCHANGED <<sessions, info, managerMu, closing, keyLines, pass, viewer>>
  BY DEF Packet, Active, CaptureIInv, HeaderIsFirst
<1> QED BY <1>1, EmitKeeps

LEMMA SecretRecordedKeeps ==
  ASSUME CaptureIInv, NEW c \in Capture, SecretRecorded(c)
  PROVE  CaptureIInv'
<1>1. /\ Emit(c, "secret") /\ blocks[c] # <<>> /\ unsent' \subseteq unsent
      /\ UNCHANGED <<sessions, info, managerMu, closing, keyLines, pass, viewer>>
  BY DEF SecretRecorded, CaptureIInv, SecretsFollowHeader
<1> QED BY <1>1, EmitKeeps

LEMMA StartFailsKeeps ==
  ASSUME CaptureIInv, NEW c \in Capture, StartFails(c)
  PROVE  CaptureIInv'
<1>1. /\ managerMu = c /\ Discard(c) /\ running' = running \ {c}
      /\ managerMu' = NoCapture /\ sessions' = sessions /\ closing' = closing
  BY DEF StartFails, StopAll
<1>2. c \notin sessions \cup unsent /\ c # NoCapture
  BY <1>1, CaptureAssumption DEF CaptureIInv, StartIsExclusive
<1>3. /\ sessions' = sessions \ {c} /\ c \notin unsent
      /\ managerMu \in {c, managerMu'} /\ managerMu' \in {NoCapture, managerMu} \ {c}
  BY <1>1, <1>2
<1> QED BY <1>1, <1>3, DiscardKeeps

LEMMA ForgetKeeps ==
  ASSUME CaptureIInv, NEW c \in Capture, Forget(c)
  PROVE  CaptureIInv'
<1>1. /\ managerMu = NoCapture /\ c \in sessions \ running /\ sessions' = sessions \ {c}
      /\ managerMu' = managerMu /\ closing' = closing /\ running' = running
  BY DEF Forget
<1>2. CASE c \in unsent \/ viewer[c].at \in Streaming
  <2>1. UNCHANGED <<info, blocks, keyLines, unsent, pass, viewer>>
    BY <1>2 DEF Forget, record
  <2> USE DEF CaptureIInv
  <2>2. CaptureTypeOK' /\ HeaderIsFirst' /\ ClosingStopsAll' /\ StartIsExclusive'
    BY <1>1, <2>1 DEF CaptureTypeOK, HeaderIsFirst, ClosingStopsAll, StartIsExclusive
  <2>3. RoomIsKept'
    <3>1. IsFiniteSet(sessions') /\ Cardinality(sessions') <= Cardinality(sessions)
      BY <1>1, FS_Subset DEF RoomIsKept
    <3>2. Cardinality(sessions) \in Nat /\ Cardinality(sessions') \in Nat
      BY <3>1, FS_CardinalityType DEF RoomIsKept
    <3> QED BY <3>1, <3>2, <1>1, CaptureAssumption DEF RoomIsKept
  <2>4. UsersAreDistinct' /\ SecretsFollowHeader' /\ LastIsLast'
    BY <1>1, <2>1 DEF UsersAreDistinct, Active, SecretsFollowHeader, LastIsLast
  <2> QED BY <2>2, <2>3, <2>4
<1>3. CASE ~(c \in unsent \/ viewer[c].at \in Streaming)
  <2>1. Discard(c) /\ running' = running \ {c} /\ c \notin unsent
    BY <1>1, <1>3 DEF Forget
  <2>2. managerMu \in {c, managerMu'} /\ managerMu' \in {NoCapture, managerMu} \ {c}
    BY <1>1, CaptureAssumption
  <2> QED BY <1>1, <2>1, <2>2, DiscardKeeps
<1> QED BY <1>2, <1>3

LEMMA CloseKeeps == ASSUME CaptureIInv, Close PROVE CaptureIInv'
<1>1. /\ managerMu = NoCapture /\ closing' = TRUE /\ running' = running \ sessions
      /\ UNCHANGED <<sessions, info, managerMu, record, pass, viewer>>
  BY DEF Close, StopAll
<1>2. running' = {}
  BY <1>1, ActiveIsRunning DEF CaptureIInv, Active
<1>3. LastIsLast'
  BY <1>1, <1>2 DEF CaptureIInv, LastIsLast, record
<1> QED BY <1>1, <1>2, <1>3, StopKeeps DEF CaptureIInv, CaptureTypeOK

LEMMA StopOwnerKeeps ==
  ASSUME CaptureIInv, NEW o, StopOwner(o)
  PROVE  CaptureIInv'
<1>1. /\ running' \subseteq running
      /\ UNCHANGED <<sessions, info, managerMu, closing, record, viewer>>
  BY DEF StopOwner, StopAll
<1>2. pass' \in [Capture -> SUBSET {"ticket", "token"}]
  BY DEF StopOwner, CaptureIInv, CaptureTypeOK
<1> QED BY <1>1, <1>2, StopAllKeeps

LEMMA StopUserKeeps ==
  ASSUME CaptureIInv, NEW u, StopUser(u)
  PROVE  CaptureIInv'
  BY StopAllKeeps DEF StopUser, StopAll, CaptureIInv, CaptureTypeOK

LEMMA CaptureEndsKeeps ==
  ASSUME CaptureIInv, NEW c \in Capture, CaptureEnds(c)
  PROVE  CaptureIInv'
  BY StopAllKeeps DEF CaptureEnds, StopAll, CaptureIInv, CaptureTypeOK

LEMMA TicketKeeps ==
  ASSUME CaptureIInv, NEW c, Ticket(c)
  PROVE  CaptureIInv'
<1>1. UNCHANGED <<sessions, info, managerMu, closing, record, viewer>> /\ running' \subseteq running
  BY DEF Ticket, manager
<1>2. pass' \in [Capture -> SUBSET {"ticket", "token"}]
  BY DEF Ticket, CaptureIInv, CaptureTypeOK
<1> QED BY <1>1, <1>2, StopAllKeeps

LEMMA RedeemKeeps ==
  ASSUME CaptureIInv, NEW c \in Capture, Redeem(c)
  PROVE  CaptureIInv'
<1>1. UNCHANGED <<sessions, info, managerMu, closing, record, viewer>> /\ running' \subseteq running
  BY DEF Redeem, manager
<1>2. pass' \in [Capture -> SUBSET {"ticket", "token"}]
  BY DEF Redeem, CaptureIInv, CaptureTypeOK
<1> QED BY <1>1, <1>2, StopAllKeeps

\* What the stream notes about its viewer stays well formed.
LEMMA ViewerAt ==
  ASSUME NEW v \in Viewer, NEW a \in {"attached", "reading", "cut"}
  PROVE  [v EXCEPT !.at = a] \in Viewer /\ [v EXCEPT !.at = a].at = a
  BY DEF Viewer

LEMMA ViewerAtIndex ==
  ASSUME NEW v \in Viewer, NEW i \in 0..MaxBlocks
  PROVE  /\ [v EXCEPT !.at = "round", !.index = i] \in Viewer
         /\ [v EXCEPT !.at = "round", !.index = i].at = "round"
  BY DEF Viewer

LEMMA ViewerStalled ==
  ASSUME NEW v \in Viewer, NEW b \in BOOLEAN
  PROVE  /\ [v EXCEPT !.stalled = b] \in Viewer
         /\ [v EXCEPT !.stalled = b].at = v.at
         /\ [v EXCEPT !.stalled = b].until = v.until
         /\ [v EXCEPT !.stalled = b].index = v.index
         /\ [v EXCEPT !.stalled = b].last = v.last
  BY DEF Viewer

LEMMA ViewerAll ==
  ASSUME NEW v \in Viewer, NEW a \in {"closed", "round"},
         NEW i \in 0..MaxBlocks, NEW j \in 0..MaxBlocks
  PROVE  [v EXCEPT !.at = a, !.index = i, !.until = j, !.last = FALSE] \in Viewer
  BY DEF Viewer

LEMMA AttachKeeps ==
  ASSUME CaptureIInv, NEW c \in Capture, Attach(c)
  PROVE  CaptureIInv'
<1> DEFINE v == [NoViewer EXCEPT !.at = "attached"]
<1>1. v \in Viewer /\ v.at = "attached"
  BY NoViewerType, ViewerAt
<1>2. /\ UNCHANGED <<sessions, info, managerMu, closing, record>> /\ running' \subseteq running
      /\ SetViewer(c, v)
  BY DEF Attach, manager
<1>3. pass' \in [Capture -> SUBSET {"ticket", "token"}]
  BY DEF Attach, CaptureIInv, CaptureTypeOK
<1> HIDE DEF v
<1> QED BY <1>1, <1>2, <1>3, ViewerKeeps

LEMMA ViewerCutKeeps ==
  ASSUME CaptureIInv, NEW c \in Capture, ViewerCut(c)
  PROVE  CaptureIInv'
<1> DEFINE v == [NoViewer EXCEPT !.at = "cut"]
<1>1. v \in Viewer /\ v.at = "cut"
  BY NoViewerType, ViewerAt
<1>2. /\ UNCHANGED <<sessions, info, managerMu, closing, record>> /\ running' \subseteq running
      /\ SetViewer(c, v)
  BY DEF ViewerCut, StopAll
<1>3. pass' \in [Capture -> SUBSET {"ticket", "token"}]
  BY DEF ViewerCut, CaptureIInv, CaptureTypeOK
<1> HIDE DEF v
<1> QED BY <1>1, <1>2, <1>3, ViewerKeeps

LEMMA StallsKeeps ==
  ASSUME CaptureIInv, NEW c \in Capture, NEW how \in BOOLEAN, Stalls(c, how)
  PROVE  CaptureIInv'
<1> DEFINE v == [viewer[c] EXCEPT !.stalled = how]
<1>0. viewer[c] \in Viewer
  BY DEF CaptureIInv, CaptureTypeOK
<1>1. /\ v \in Viewer /\ v.at = viewer[c].at /\ v.until = viewer[c].until
      /\ v.index = viewer[c].index /\ v.last = viewer[c].last
  BY <1>0, ViewerStalled
<1>2. /\ UNCHANGED <<sessions, info, managerMu, closing, record>> /\ running' = running
      /\ SetViewer(c, v)
  BY DEF Stalls, manager
<1>3. pass' \in [Capture -> SUBSET {"ticket", "token"}]
  BY DEF Stalls, CaptureIInv, CaptureTypeOK
<1> HIDE DEF v
<1>4. /\ v.at = "writing" /\ v.last => c \notin running' /\ v.until = Len(blocks[c])
      /\ v.at = "closed" => c \notin running' /\ v.index = Len(blocks[c])
  BY <1>1, <1>2 DEF CaptureIInv, LastIsLast
<1> QED BY <1>1, <1>2, <1>3, <1>4, ViewerKeeps

LEMMA StreamKeeps ==
  ASSUME CaptureIInv, NEW c \in Capture, Stream(c)
  PROVE  CaptureIInv'
<1>0. viewer[c] \in Viewer /\ Len(blocks[c]) \in 0..MaxBlocks /\ MaxBlocks \in Nat \ {0}
  BY CaptureAssumption DEF CaptureIInv, CaptureTypeOK
<1>5. CASE BlockTimesOut(c)
  BY <1>5, ViewerCutKeeps DEF BlockTimesOut
<1> SUFFICES ASSUME ~BlockTimesOut(c) PROVE CaptureIInv'
  BY <1>5
<1>1. /\ UNCHANGED <<sessions, info, managerMu, closing, record>> /\ running' = running
      /\ pass' \in [Capture -> SUBSET {"ticket", "token"}]
  BY DEF Stream, SendHeader, ReadKeys, SendSecrets, SendBlocks, LiveBlocks, manager,
         CaptureIInv, CaptureTypeOK
<1>2. CASE SendHeader(c)
  <2> DEFINE v == [viewer[c] EXCEPT !.at = "round", !.index = 1]
  <2>1. v \in Viewer /\ v.at = "round"
    <3>1. 1 \in 0..MaxBlocks
      BY <1>0
    <3> QED BY <3>1, <1>0, ViewerAtIndex
  <2>2. SetViewer(c, v)
    BY <1>2 DEF SendHeader
  <2> HIDE DEF v
  <2> QED BY <1>1, <2>1, <2>2, ViewerKeeps
<1>3. CASE SendBlocks(c)
  <2> DEFINE v == [viewer[c] EXCEPT !.at = IF viewer[c].last THEN "closed" ELSE "round",
                                    !.index = viewer[c].until, !.until = 0, !.last = FALSE]
  <2>1. v \in Viewer
    <3>1. 0 \in 0..MaxBlocks /\ viewer[c].until \in 0..MaxBlocks
      BY <1>0 DEF Viewer
    <3>2. (IF viewer[c].last THEN "closed" ELSE "round") \in {"closed", "round"}
      OBVIOUS
    <3> QED BY <3>1, <3>2, <1>0, ViewerAll
  <2>2. v.last = FALSE /\ v.index = viewer[c].until /\ (v.at = "closed" => viewer[c].last = TRUE)
    BY <1>0 DEF Viewer
  <2>3. SetViewer(c, v) /\ viewer[c].at = "writing"
    BY <1>3 DEF SendBlocks
  <2> HIDE DEF v
  <2>4. v.at = "closed" => c \notin running' /\ v.index = Len(blocks[c])
    BY <1>1, <2>2, <2>3 DEF CaptureIInv, LastIsLast
  <2> QED BY <1>1, <2>1, <2>2, <2>3, <2>4, ViewerKeeps
<1>4. ASSUME NEW end \in 0..MaxBlocks, LiveBlocks(c, end)
      PROVE  CaptureIInv'
  <2> DEFINE v == [viewer[c] EXCEPT !.at = "writing", !.until = end,
                                    !.last = c \notin running /\ end = Len(blocks[c])]
  <2>1. v \in Viewer
    BY <1>0 DEF Viewer
  <2>2. v.at = "writing" /\ v.until = end
    BY <1>0 DEF Viewer
  <2>3. v.last = (c \notin running /\ end = Len(blocks[c]))
    BY <1>0 DEF Viewer
  <2>4. SetViewer(c, v)
    BY <1>4 DEF LiveBlocks
  <2> HIDE DEF v
  <2>5. v.at = "writing" /\ v.last => c \notin running' /\ v.until = Len(blocks[c])
    BY <1>1, <2>2, <2>3
  <2> QED BY <1>1, <2>1, <2>2, <2>4, <2>5, ViewerKeeps
<1>6. CASE ReadKeys(c)
  <2> DEFINE a == IF keyLines[c] > viewer[c].keys THEN "secrets" ELSE "reading"
             v == [viewer[c] EXCEPT !.at = a, !.keys = keyLines[c]]
  <2>1. v \in Viewer /\ v.at \in {"secrets", "reading"}
    <3>1. a \in {"secrets", "reading"} /\ keyLines[c] \in 0..MaxKeys
      BY DEF CaptureIInv, CaptureTypeOK
    <3> HIDE DEF a
    <3>2. v \in Viewer /\ v.at = a
      BY <3>1, <1>0 DEF Viewer
    <3> QED BY <3>1, <3>2
  <2>2. SetViewer(c, v)
    BY <1>6 DEF ReadKeys
  <2> HIDE DEF v
  <2> QED BY <1>1, <2>1, <2>2, ViewerKeeps
<1>7. CASE SendSecrets(c)
  <2> DEFINE v == [viewer[c] EXCEPT !.at = "reading"]
  <2>1. v \in Viewer /\ v.at = "reading"
    BY <1>0, ViewerAt
  <2>2. SetViewer(c, v)
    BY <1>7 DEF SendSecrets
  <2> HIDE DEF v
  <2> QED BY <1>1, <2>1, <2>2, ViewerKeeps
<1> QED BY <1>2, <1>3, <1>4, <1>6, <1>7 DEF Stream

-----------------------------------------------------------------------------
(* The theorems on the manager.                                            *)

LEMMA CaptureInitKeeps == ASSUME CaptureInit PROVE CaptureIInv
<1> USE DEF CaptureInit, CaptureIInv
<1>1. CaptureTypeOK
  <2>1. info \in [Capture -> Info]
    BY NoInfoType
  <2>2. viewer \in [Capture -> Viewer]
    BY CaptureAssumption DEF Viewer, NoViewer
  <2>3. keyLines \in [Capture -> 0..MaxKeys] /\ pass \in [Capture -> SUBSET {"ticket", "token"}]
    BY CaptureAssumption
  <2>4. /\ blocks \in [Capture -> Seq({"header", "packet", "secret"})]
        /\ \A c \in Capture : Len(blocks[c]) <= MaxBlocks
    BY CaptureAssumption
  <2> QED BY <2>1, <2>2, <2>3, <2>4 DEF CaptureTypeOK
<1>2. HeaderIsFirst /\ ClosingStopsAll /\ StartIsExclusive
  BY DEF HeaderIsFirst, ClosingStopsAll, StartIsExclusive
<1>3. RoomIsKept
  BY FS_EmptySet, CaptureAssumption DEF RoomIsKept
<1>4. UsersAreDistinct /\ SecretsFollowHeader /\ LastIsLast
  BY DEF UsersAreDistinct, Active, SecretsFollowHeader, LastIsLast, NoViewer
<1> QED BY <1>1, <1>2, <1>3, <1>4

LEMMA CaptureNextKeeps == ASSUME CaptureIInv, [CaptureNext]_captureVars PROVE CaptureIInv'
<1>1. CASE UNCHANGED captureVars
  BY <1>1, CaptureStutters
<1>2. ASSUME NEW c \in Capture, NEW o \in Owner, StartOuter(c, o) PROVE CaptureIInv'
  BY <1>2, StartOuterKeeps
<1>3. ASSUME NEW c \in Capture, NEW o \in Owner, NEW u \in User,
             NEW a \in Address \cup {NoAddress}, StartUser(c, o, u, a)
      PROVE  CaptureIInv'
  BY <1>3, StartUserKeeps
<1>4. ASSUME NEW o \in Owner, StopOwner(o) PROVE CaptureIInv'
  BY <1>4, StopOwnerKeeps
<1>5. ASSUME NEW u \in User, StopUser(u) PROVE CaptureIInv'
  BY <1>5, StopUserKeeps
<1>6. CASE Close
  BY <1>6, CloseKeeps
<1>7. ASSUME NEW c \in Capture,
             TcpdumpReady(c) \/ StartSucceeds(c) \/ StartFails(c) \/ CaptureEnds(c) \/ Forget(c)
      PROVE  CaptureIInv'
  BY <1>7, TcpdumpReadyKeeps, StartSucceedsKeeps, StartFailsKeeps, CaptureEndsKeeps, ForgetKeeps
<1>8. ASSUME NEW c \in Capture, Packet(c) \/ Secret(c) \/ SecretRecorded(c)
      PROVE  CaptureIInv'
  BY <1>8, PacketKeeps, SecretKeeps, SecretRecordedKeeps
<1>9. ASSUME NEW c \in Capture,
             Ticket(c) \/ Redeem(c) \/ Attach(c) \/ ViewerCut(c) \/ Stream(c)
      PROVE  CaptureIInv'
  BY <1>9, TicketKeeps, RedeemKeeps, AttachKeeps, ViewerCutKeeps, StreamKeeps
<1>10. ASSUME NEW c \in Capture, NEW how \in BOOLEAN, Stalls(c, how) PROVE CaptureIInv'
  BY <1>10, StallsKeeps
<1> QED BY <1>1, <1>2, <1>3, <1>4, <1>5, <1>6, <1>7, <1>8, <1>9, <1>10 DEF CaptureNext

(* The inductive invariant of the manager: Start is exclusive and keeps    *)
(* room, recordings begin with their header, and the batch that is called  *)
(* the last is that of an ended capture.                                   *)
THEOREM CapturesAlwaysIInv == CaptureSpec => []CaptureIInv
<1>1. CaptureInit => CaptureIInv
  BY CaptureInitKeeps
<1>2. CaptureIInv /\ [CaptureNext]_captureVars => CaptureIInv'
  BY CaptureNextKeeps
<1> QED BY <1>1, <1>2, PTL DEF CaptureSpec

\* What the limits say follows from the invariant.
LEMMA CaptureIInvImplies == ASSUME CaptureIInv PROVE CaptureInv
<1>1. ASSUME NEW u \in User PROVE Cardinality(UserCapture(u)) <= 1
  <2>1. \A c, d \in UserCapture(u) : c = d
    BY CaptureAssumption DEF CaptureIInv, UsersAreDistinct, UserCapture
  <2> QED BY <2>1, AtMostOne
<1>2. LimitsHold
  BY <1>1 DEF CaptureIInv, RoomIsKept, LimitsHold
<1> QED BY <1>2 DEF CaptureIInv, CaptureInv

(* At most Slots captures run and Retained are kept, a user is recorded    *)
(* once, and every recording that can be found begins with its header:     *)
(* Start, StartUser, emit and Write of the manager.                        *)
THEOREM CapturesAlwaysCaptureInv == CaptureSpec => []CaptureInv
<1>1. CaptureIInv => CaptureInv
  BY CaptureIInvImplies
<1> QED BY <1>1, CapturesAlwaysIInv, PTL

(* A viewer whose socket captureStream closed normally has the whole       *)
(* recording, whenever the capture was stopped.                            *)
THEOREM CapturesCloseComplete == CaptureSpec => []ClosedIsComplete
<1>1. CaptureIInv => ClosedIsComplete
  BY DEF CaptureIInv, LastIsLast, ClosedIsComplete
<1> QED BY <1>1, CapturesAlwaysIInv, PTL

(* After Close no capture runs, not even one that was being started.       *)
THEOREM CapturesStopAtClose == CaptureSpec => []ClosingStopsAll
<1>1. CaptureIInv => ClosingStopsAll
  BY DEF CaptureIInv
<1> QED BY <1>1, CapturesAlwaysIInv, PTL

-----------------------------------------------------------------------------
(* The pages: what a step does to the inner captures, and the frames of    *)
(* the steps that change little else.                                      *)

(* The inner captures that run did so before, for the same user.           *)
InnerKept ==
  \A c \in Active' : info'[c].user # NoUser => c \in Active /\ info'[c] = info[c]

\* The locks have the form of a lock, free or held.
LEMMA FreeIsFree ==
  /\ Free \in [op : {"free", "logout", "request", "stop", "revoke", "capture"}, owner : Owner,
               user : User \cup {NoUser}, capture : Capture \cup {NoCapture}]
  /\ Free.op = "free" /\ Free.user = NoUser
<1>1. NoInfo.owner \in Owner
  BY NoInfoType DEF Info
<1> QED BY <1>1 DEF Free

\* What the manager does by itself starts no inner capture, and neither do
\* the steps that only stop captures.
LEMMA StopsKeepInner ==
  ASSUME running' \subseteq running, UNCHANGED <<sessions, info>>
  PROVE  InnerKept
  BY DEF InnerKept, Active

LEMMA StutterKeepsInner == ASSUME UNCHANGED captureVars PROVE InnerKept
  BY StopsKeepInner DEF captureVars, manager

LEMMA StartOuterKeepsInner ==
  ASSUME CaptureIInv, NEW c \in Capture, NEW o \in Owner, StartOuter(c, o)
  PROVE  InnerKept
<1>1. /\ running' = running \cup {c} /\ sessions' = sessions
      /\ info' = [info EXCEPT ![c] = [owner |-> o, user |-> NoUser, address |-> NoAddress]]
      /\ info \in [Capture -> Info] /\ sessions \subseteq Capture
  BY DEF StartOuter, NewSession, CaptureIInv, CaptureTypeOK
<1>2. \A d \in Capture : d # c => info'[d] = info[d]
  BY <1>1
<1>3. info'[c].user = NoUser
  BY <1>1
<1> QED BY <1>1, <1>2, <1>3 DEF InnerKept, Active

LEMMA DiscardKeepsInner ==
  ASSUME CaptureIInv, NEW c \in Capture, Discard(c), c \notin sessions',
         running' \subseteq running, sessions' \subseteq sessions
  PROVE  InnerKept
<1>1. info' = [info EXCEPT ![c] = NoInfo] /\ info \in [Capture -> Info] /\ sessions \subseteq Capture
  BY DEF Discard, CaptureIInv, CaptureTypeOK
<1>2. \A d \in Capture : d # c => info'[d] = info[d]
  BY <1>1
<1> QED BY <1>1, <1>2 DEF InnerKept, Active

LEMMA ManagerKeeps ==
  ASSUME CaptureIInv, NEW c \in Capture,
         TcpdumpReady(c) \/ StartSucceeds(c) \/ StartFails(c) \/ CaptureEnds(c) \/ Forget(c)
  PROVE  CaptureIInv' /\ InnerKept
<1>1. CaptureIInv'
  BY TcpdumpReadyKeeps, StartSucceedsKeeps, StartFailsKeeps, CaptureEndsKeeps, ForgetKeeps
<1> SUFFICES InnerKept
  BY <1>1
<1>2. CASE TcpdumpReady(c) \/ CaptureEnds(c)
  BY <1>2, StopsKeepInner DEF TcpdumpReady, Emit, CaptureEnds, StopAll
<1>3. CASE StartSucceeds(c)
  BY <1>3, CaptureAssumption
  DEF StartSucceeds, InnerKept, Active, CaptureIInv, StartIsExclusive
<1>4. CASE StartFails(c)
  <2>1. managerMu = c /\ Discard(c) /\ sessions' = sessions /\ running' \subseteq running
    BY <1>4 DEF StartFails, StopAll
  <2>2. c \notin sessions'
    BY <2>1 DEF CaptureIInv, StartIsExclusive
  <2> QED BY <2>1, <2>2, DiscardKeepsInner
<1>5. CASE Forget(c)
  <2>1. sessions' = sessions \ {c} /\ running' = running
    BY <1>5 DEF Forget
  <2>2. CASE Discard(c)
    BY <2>1, <2>2, DiscardKeepsInner
  <2>3. CASE info' = info
    BY <2>1, <2>3 DEF InnerKept, Active
  <2> QED BY <1>5, <2>2, <2>3 DEF Forget
<1> QED BY <1>2, <1>3, <1>4, <1>5

\* A step of the logins, of the manager or of a request that holds nothing.
LEMMA WebFrame ==
  ASSUME WebIInv, CaptureIInv', InnerKept,
         UNCHANGED <<loggedOut, users, address, awg, tickets, stale, mutex>>,
         logins' \subseteq Owner, saved' \subseteq Owner, LogoutIsDurable',
         outer' \subseteq Owner, live' \subseteq Owner, qr' \in User \cup {NoUser}
  PROVE  WebIInv'
<1> USE DEF WebIInv
<1>1. WebTypeOK'
  BY DEF WebTypeOK, CaptureIInv
<1>2. InnerEndsWithLogin'
  BY DEF InnerEndsWithLogin, InnerKept
<1>3. CaptureFollowsUser'
  BY DEF CaptureFollowsUser, InnerKept
<1>4. HandlerIsValid' /\ TicketsAreUnique'
  BY DEF HandlerIsValid, TicketsAreUnique
<1>5. AddressesAreUnique'
  BY DEF AddressesAreUnique, Known
<1> QED BY <1>1, <1>2, <1>3, <1>4, <1>5

\* A step of the handler that holds userCaptureMu, or of the one that takes
\* it: it may only end what it is about, and has to carry on with the rest.
LEMMA MutexFrame ==
  ASSUME WebIInv, CaptureIInv', InnerKept,
         UNCHANGED <<logins, saved, loggedOut, store, tickets, stale, outer, live, qr>>,
         mutex' \in [op : {"free", "logout", "request", "stop", "revoke", "capture"},
                     owner : Owner, user : User \cup {NoUser},
                     capture : Capture \cup {NoCapture}],
         HandlerIsValid',
         mutex.op = "logout" => \A c \in Active' : info'[c].owner # mutex.owner,
         mutex.op = "stop" => \A c \in Active' : info'[c].user # mutex.user,
         mutex.op \in {"stop", "revoke"} => mutex'.op = "revoke" /\ mutex'.user = mutex.user
  PROVE  WebIInv'
<1> USE DEF WebIInv, store
<1>1. WebTypeOK' /\ LogoutIsDurable'
  BY DEF WebTypeOK, CaptureIInv, LogoutIsDurable
<1>2. InnerEndsWithLogin'
  BY DEF InnerEndsWithLogin, InnerKept
<1>3. CaptureFollowsUser'
  BY DEF CaptureFollowsUser, InnerKept
<1>4. TicketsAreUnique'
  BY DEF TicketsAreUnique
<1>5. AddressesAreUnique'
  BY DEF AddressesAreUnique, Known
<1> QED BY <1>1, <1>2, <1>3, <1>4, <1>5

\* delete, toggle and protocols change one user, and go on to stop what
\* depended on him.
LEMMA ChangedFrame ==
  ASSUME WebIInv, ~Locked, NEW u \in User, Changed(u),
         users' \in [User -> {"absent", "enabled", "disabled", "deleted"}],
         address' \in [User -> Address \cup {NoAddress}],
         awg' \subseteq {v \in User : address'[v] # NoAddress},
         \A v \in User \ {u} : users'[v] = users[v] /\ address'[v] = address[v]
                                /\ (v \in awg => v \in awg'),
         AddressesAreUnique'
  PROVE  WebIInv'
<1> USE DEF WebIInv
<1>1. /\ mutex.op = "free" /\ mutex.owner \in Owner
      /\ stale' = stale \cup TicketsOf(u)
      /\ mutex' = [op |-> "stop", owner |-> mutex.owner, user |-> u, capture |-> NoCapture]
      /\ UNCHANGED <<captureVars, logins, saved, loggedOut, tickets, outer, live, qr>>
  BY FreeIsFree DEF Changed, Hold, Locked, WebTypeOK
<1>2. /\ mutex'.op = "stop" /\ mutex'.user = u
      /\ mutex' \in [op : {"free", "logout", "request", "stop", "revoke", "capture"},
                     owner : Owner, user : User \cup {NoUser},
                     capture : Capture \cup {NoCapture}]
  BY <1>1
<1>3. CaptureIInv'
  BY <1>1, CaptureStutters
<1>4. Active' = Active /\ info' = info
  BY <1>1 DEF captureVars, manager, Active
<1>5. WebTypeOK' /\ LogoutIsDurable'
  BY <1>1, <1>2, <1>3 DEF WebTypeOK, CaptureIInv, LogoutIsDurable, TicketsOf
<1>6. InnerEndsWithLogin' /\ HandlerIsValid'
  BY <1>1, <1>2, <1>4 DEF InnerEndsWithLogin, HandlerIsValid
<1>7. CaptureFollowsUser'
  <2> SUFFICES ASSUME NEW c \in Active, info[c].user # NoUser
               PROVE  /\ \A v \in User \ {info[c].user} :
                           info[c].address # NoAddress => address'[v] # info[c].address
                      /\ \/ /\ users'[info[c].user] = "enabled"
                            /\ info[c].address # NoAddress =>
                                 /\ info[c].user \in awg'
                                 /\ address'[info[c].user] = info[c].address
                         \/ mutex'.op = "stop" /\ mutex'.user = info[c].user
    BY <1>4 DEF CaptureFollowsUser
  <2>1. /\ users[info[c].user] = "enabled"
        /\ info[c].address # NoAddress =>
             info[c].user \in awg /\ address[info[c].user] = info[c].address
        /\ \A v \in User \ {info[c].user} :
             info[c].address # NoAddress => address[v] # info[c].address
    BY <1>1 DEF CaptureFollowsUser
  <2>2. info[c].user \in User
    BY DEF CaptureIInv, CaptureTypeOK, Info, Active
  <2>3. CASE info[c].user = u
    BY <2>1, <2>3, <1>2
  <2>4. CASE info[c].user # u
    <3>1. /\ users'[info[c].user] = "enabled"
          /\ info[c].address # NoAddress =>
               info[c].user \in awg' /\ address'[info[c].user] = info[c].address
      BY <2>1, <2>2, <2>4
    <3> QED BY <3>1, <2>2 DEF AddressesAreUnique
  <2> QED BY <2>3, <2>4
<1>8. TicketsAreUnique'
  BY <1>1, <1>2 DEF TicketsAreUnique, TicketsOf
<1> QED BY <1>3, <1>5, <1>6, <1>7, <1>8

-----------------------------------------------------------------------------
(* The pages: each handler preserves the invariant.                        *)

\* The logins, and the requests that take no lock.
LEMMA LoginKeeps == ASSUME WebIInv, NEW o \in Owner, Login(o) PROVE WebIInv'
<1> USE DEF WebIInv
<1>1. /\ logins' = logins \cup {o} /\ saved' = logins' /\ loggedOut' = loggedOut \ {o}
      /\ UNCHANGED <<captureVars, users, address, awg, tickets, stale, mutex, outer, live, qr>>
  BY DEF Login, store
<1>2. CaptureIInv'
  BY <1>1, CaptureStutters
<1>3. Active' = Active /\ info' = info
  BY <1>1 DEF captureVars, manager, Active
<1>4. WebTypeOK' /\ LogoutIsDurable'
  BY <1>1, <1>2 DEF WebTypeOK, CaptureIInv, LogoutIsDurable
<1>5. InnerEndsWithLogin' /\ CaptureFollowsUser'
  BY <1>1, <1>3 DEF InnerEndsWithLogin, CaptureFollowsUser
<1>6. HandlerIsValid' /\ AddressesAreUnique' /\ TicketsAreUnique'
  BY <1>1 DEF HandlerIsValid, AddressesAreUnique, Known, TicketsAreUnique
<1> QED BY <1>2, <1>4, <1>5, <1>6

LEMMA LogoutKeeps == ASSUME WebIInv, NEW o \in Owner, Logout(o) PROVE WebIInv'
<1> USE DEF WebIInv
<1>1. /\ mutex.op = "free"
      /\ logins' = logins \ {o} /\ saved' = logins' /\ loggedOut' = loggedOut \cup {o}
      /\ mutex' = [op |-> "logout", owner |-> o, user |-> NoUser, capture |-> NoCapture]
      /\ UNCHANGED <<captureVars, users, address, awg, tickets, stale, outer, live, qr>>
  BY FreeIsFree DEF Logout, Hold, Locked, store
<1>2. CaptureIInv'
  BY <1>1, CaptureStutters
<1>3. Active' = Active /\ info' = info
  BY <1>1 DEF captureVars, manager, Active
<1>4. /\ mutex'.op = "logout" /\ mutex'.owner = o
      /\ mutex' \in [op : {"free", "logout", "request", "stop", "revoke", "capture"},
                     owner : Owner, user : User \cup {NoUser},
                     capture : Capture \cup {NoCapture}]
  BY <1>1
<1>5. WebTypeOK' /\ LogoutIsDurable'
  BY <1>1, <1>2, <1>4 DEF WebTypeOK, CaptureIInv, LogoutIsDurable
<1>6. InnerEndsWithLogin' /\ CaptureFollowsUser'
  BY <1>1, <1>3, <1>4 DEF InnerEndsWithLogin, CaptureFollowsUser
<1>7. HandlerIsValid' /\ AddressesAreUnique' /\ TicketsAreUnique'
  BY <1>1, <1>4 DEF HandlerIsValid, AddressesAreUnique, Known, TicketsAreUnique
<1> QED BY <1>2, <1>5, <1>6, <1>7

LEMMA RequestsKeep ==
  ASSUME WebIInv, NEW o \in Owner,
         \/ Prune(o) \/ LiveStats(o) \/ LiveTick(o) \/ RequestOuter(o)
         \/ \E u \in User : ReadProfile(u)
  PROVE  WebIInv'
<1>1. /\ UNCHANGED <<captureVars, saved, loggedOut, users, address, awg, tickets, stale, mutex>>
      /\ logins' \subseteq logins /\ outer' \subseteq outer \cup Owner
      /\ live' \subseteq live \cup Owner /\ qr' \in User \cup {NoUser}
  BY DEF Prune, LiveStats, LiveTick, RequestOuter, ReadProfile, store, WebIInv, WebTypeOK
<1>2. CaptureIInv' /\ InnerKept
  BY <1>1, CaptureStutters, StutterKeepsInner DEF WebIInv
<1>3. LogoutIsDurable'
  BY <1>1 DEF WebIInv, LogoutIsDurable
<1> QED BY <1>1, <1>2, <1>3, WebFrame DEF WebIInv, WebTypeOK

LEMMA StartRequestedKeeps == ASSUME WebIInv, NEW o \in Owner, StartRequested(o) PROVE WebIInv'
<1>1. /\ UNCHANGED <<logins, saved, loggedOut, users, address, awg, tickets, stale, mutex, live, qr>>
      /\ outer' = {}
  BY DEF StartRequested, store
<1>2. CaptureIInv' /\ InnerKept
  <2>1. CASE UNCHANGED captureVars
    BY <2>1, CaptureStutters, StutterKeepsInner DEF WebIInv
  <2>2. ASSUME NEW c \in Capture, StartOuter(c, o) PROVE CaptureIInv' /\ InnerKept
    BY <2>2, StartOuterKeeps, StartOuterKeepsInner DEF WebIInv
  <2> QED BY <2>1, <2>2 DEF StartRequested
<1>3. LogoutIsDurable'
  BY <1>1 DEF WebIInv, LogoutIsDurable
<1> QED BY <1>1, <1>2, <1>3, WebFrame DEF WebIInv, WebTypeOK

\* The captures, without a change of the pages.
LEMMA CaptureHandlersKeep ==
  ASSUME WebIInv, NEW c \in Capture,
         \/ \E o \in Owner : CaptureLaunch(o, c) \/ CaptureStop(o, c)
         \/ ManagerStep(c)
  PROVE  WebIInv'
<1>1. UNCHANGED webVars
  BY DEF CaptureLaunch, CaptureStop, ManagerStep
<1>2. CaptureIInv' /\ InnerKept
  <2>1. CASE Ticket(c)
    BY <2>1, TicketKeeps, StopsKeepInner DEF Ticket, manager, WebIInv
  <2>2. ASSUME NEW o \in Owner, CaptureStop(o, c) PROVE CaptureIInv' /\ InnerKept
    BY <2>2, StopAllKeeps, StopsKeepInner
    DEF CaptureStop, StopAll, WebIInv, CaptureIInv, CaptureTypeOK
  <2>3. CASE ManagerStep(c)
    BY <2>3, ManagerKeeps DEF ManagerStep, WebIInv
  <2> QED BY <2>1, <2>2, <2>3 DEF CaptureLaunch
<1>3. LogoutIsDurable'
  BY <1>1 DEF webVars, WebIInv, LogoutIsDurable
<1> QED BY <1>1, <1>2, <1>3, WebFrame DEF webVars, store, WebIInv, WebTypeOK

\* The users.
LEMMA AddKeeps ==
  ASSUME WebIInv, NEW a \in Address \cup {NoAddress}, Add(a)
  PROVE  WebIInv'
<1> USE DEF WebIInv
<1> DEFINE u == Another(Absent)
<1>1. u \in Absent
  BY AnotherIsMember DEF Add
<1>2. /\ u \in User /\ users[u] = "absent" /\ mutex.op = "free"
      /\ a \in (Address \ Taken) \cup {NoAddress}
      /\ users' = [users EXCEPT ![u] = "enabled"]
      /\ address' = [address EXCEPT ![u] = a]
      /\ awg' = IF a = NoAddress THEN awg ELSE awg \cup {u}
      /\ UNCHANGED <<captureVars, logins, saved, loggedOut, tickets, stale, mutex,
                     outer, live, qr>>
  BY <1>1, FreeIsFree DEF Add, Absent, Locked
<1> HIDE DEF u
<1>3. /\ users \in [User -> {"absent", "enabled", "disabled", "deleted"}]
      /\ address \in [User -> Address \cup {NoAddress}]
      /\ \A v \in User : v # u => users'[v] = users[v] /\ address'[v] = address[v]
      /\ users'[u] = "enabled" /\ address'[u] = a
      /\ awg \subseteq {v \in User : address[v] # NoAddress} /\ awg \subseteq awg'
  BY <1>2 DEF WebTypeOK
<1>4. CaptureIInv'
  BY <1>2, CaptureStutters
<1>5. Active' = Active /\ info' = info
  BY <1>2 DEF captureVars, manager, Active
<1>6. address[u] = NoAddress /\ u \notin awg
  BY <1>2, <1>3 DEF AddressesAreUnique, Known
<1>7. a # NoAddress => \A v \in User : address[v] # a
  BY <1>2, <1>3 DEF AddressesAreUnique, Known, Taken
<1>8. AddressesAreUnique'
  BY <1>2, <1>3, <1>7 DEF AddressesAreUnique, Known
<1>9. WebTypeOK' /\ LogoutIsDurable'
  <2>1. /\ users' \in [User -> {"absent", "enabled", "disabled", "deleted"}]
        /\ address' \in [User -> Address \cup {NoAddress}]
    BY <1>2, <1>3
  <2>2. awg' \subseteq {v \in User : address'[v] # NoAddress}
    BY <1>2, <1>3, <1>6
  <2>3. LogoutIsDurable'
    BY <1>2 DEF LogoutIsDurable
  <2> QED BY <2>1, <2>2, <2>3, <1>2, <1>4 DEF WebTypeOK, CaptureIInv
<1>10. CaptureFollowsUser'
  <2> SUFFICES ASSUME NEW c \in Active, info[c].user # NoUser
               PROVE  /\ \A v \in User \ {info[c].user} :
                           info[c].address # NoAddress => address'[v] # info[c].address
                      /\ users'[info[c].user] = "enabled"
                      /\ info[c].address # NoAddress =>
                           /\ info[c].user \in awg'
                           /\ address'[info[c].user] = info[c].address
    BY <1>5 DEF CaptureFollowsUser
  <2>1. /\ users[info[c].user] = "enabled"
        /\ info[c].address # NoAddress =>
             info[c].user \in awg /\ address[info[c].user] = info[c].address
        /\ \A v \in User \ {info[c].user} :
             info[c].address # NoAddress => address[v] # info[c].address
    BY <1>2 DEF CaptureFollowsUser
  <2>2. info[c].user \in User /\ info[c].user # u
    BY <1>2, <2>1 DEF CaptureIInv, CaptureTypeOK, Info, Active
  <2>3. /\ users'[info[c].user] = "enabled"
        /\ info[c].address # NoAddress =>
             info[c].user \in awg' /\ address'[info[c].user] = info[c].address
    BY <1>3, <2>1, <2>2
  <2> QED BY <2>2, <2>3, <1>8 DEF AddressesAreUnique
<1>11. InnerEndsWithLogin' /\ HandlerIsValid' /\ TicketsAreUnique'
  BY <1>2, <1>5 DEF InnerEndsWithLogin, HandlerIsValid, TicketsAreUnique
<1> QED BY <1>4, <1>8, <1>9, <1>10, <1>11

LEMMA DeleteKeeps == ASSUME WebIInv, NEW u \in User, Delete(u) PROVE WebIInv'
<1>1. /\ ~Locked /\ users' = [users EXCEPT ![u] = "deleted"]
      /\ address' = [address EXCEPT ![u] = NoAddress] /\ awg' = awg \ {u} /\ Changed(u)
  BY DEF Delete
<1>2. /\ users \in [User -> {"absent", "enabled", "disabled", "deleted"}]
      /\ address \in [User -> Address \cup {NoAddress}]
      /\ awg \subseteq {v \in User : address[v] # NoAddress}
  BY DEF WebIInv, WebTypeOK
<1>3. /\ users' \in [User -> {"absent", "enabled", "disabled", "deleted"}]
      /\ address' \in [User -> Address \cup {NoAddress}]
      /\ \A v \in User \ {u} : users'[v] = users[v] /\ address'[v] = address[v]
                                /\ (v \in awg => v \in awg')
      /\ address'[u] = NoAddress /\ users'[u] = "deleted"
  BY <1>1, <1>2
<1>4. awg' \subseteq {v \in User : address'[v] # NoAddress}
  BY <1>1, <1>2, <1>3
<1>5. AddressesAreUnique'
  BY <1>3 DEF WebIInv, AddressesAreUnique, Known
<1> QED BY <1>1, <1>3, <1>4, <1>5, ChangedFrame

LEMMA ToggleKeeps == ASSUME WebIInv, NEW u \in User, Toggle(u) PROVE WebIInv'
<1>1. /\ ~Locked /\ Known(u)
      /\ users' = [users EXCEPT ![u] = IF users[u] = "enabled" THEN "disabled" ELSE "enabled"]
      /\ address' = address /\ awg' = awg /\ Changed(u)
  BY DEF Toggle
<1>2. /\ users \in [User -> {"absent", "enabled", "disabled", "deleted"}]
      /\ address \in [User -> Address \cup {NoAddress}]
      /\ awg \subseteq {v \in User : address[v] # NoAddress}
  BY DEF WebIInv, WebTypeOK
<1>3. /\ users' \in [User -> {"absent", "enabled", "disabled", "deleted"}]
      /\ \A v \in User \ {u} : users'[v] = users[v]
      /\ users'[u] \in {"enabled", "disabled"}
  BY <1>1, <1>2
<1>4. AddressesAreUnique'
  BY <1>1, <1>3 DEF WebIInv, AddressesAreUnique, Known
<1>5. \A v \in User \ {u} : users'[v] = users[v] /\ address'[v] = address[v]
                             /\ (v \in awg => v \in awg')
  BY <1>1, <1>3
<1>6. /\ address' \in [User -> Address \cup {NoAddress}]
      /\ awg' \subseteq {v \in User : address'[v] # NoAddress}
  BY <1>1, <1>2
<1> QED BY <1>1, <1>3, <1>4, <1>5, <1>6, ChangedFrame

LEMMA ProtocolsKeeps == ASSUME WebIInv, NEW u \in User, Protocols(u) PROVE WebIInv'
<1>1. ~Locked /\ Known(u) /\ users' = users /\ Changed(u)
  BY DEF Protocols
<1>2. /\ users \in [User -> {"absent", "enabled", "disabled", "deleted"}]
      /\ address \in [User -> Address \cup {NoAddress}]
      /\ awg \subseteq {v \in User : address[v] # NoAddress}
      /\ NoAddress \notin Address
  BY CaptureAssumption DEF WebIInv, WebTypeOK
<1>3. CASE u \in awg /\ awg' = awg \ {u} /\ UNCHANGED address
  <2>1. AddressesAreUnique'
    BY <1>1, <1>3 DEF WebIInv, AddressesAreUnique, Known
  <2>2. \A v \in User \ {u} : users'[v] = users[v] /\ address'[v] = address[v]
                               /\ (v \in awg => v \in awg')
    BY <1>1, <1>3
  <2>3. /\ users' \in [User -> {"absent", "enabled", "disabled", "deleted"}]
        /\ address' \in [User -> Address \cup {NoAddress}]
        /\ awg' \subseteq {v \in User : address'[v] # NoAddress}
    BY <1>1, <1>2, <1>3
  <2> QED BY <1>1, <2>1, <2>2, <2>3, ChangedFrame
<1>4. CASE /\ u \notin awg /\ awg' = awg \cup {u}
           /\ \E a \in IF address[u] # NoAddress THEN {address[u]} ELSE Address \ Taken :
                address' = [address EXCEPT ![u] = a]
  <2>1. PICK a \in IF address[u] # NoAddress THEN {address[u]} ELSE Address \ Taken :
             address' = [address EXCEPT ![u] = a]
    BY <1>4
  <2>2. /\ a \in Address /\ address'[u] = a
        /\ \A v \in User \ {u} : address'[v] = address[v]
    BY <2>1, <1>2
  <2>3. \A v \in User \ {u} : address[v] # a
    <3>1. CASE address[u] # NoAddress
      BY <3>1, <2>1 DEF WebIInv, AddressesAreUnique
    <3>2. CASE address[u] = NoAddress
      BY <3>2, <2>1, <1>2 DEF WebIInv, AddressesAreUnique, Taken
    <3> QED BY <3>1, <3>2
  <2>4. AddressesAreUnique'
    BY <1>1, <2>2, <2>3 DEF WebIInv, AddressesAreUnique, Known
  <2>5. \A v \in User \ {u} : users'[v] = users[v] /\ address'[v] = address[v]
                               /\ (v \in awg => v \in awg')
    BY <1>1, <1>4, <2>2
  <2>6. /\ users' \in [User -> {"absent", "enabled", "disabled", "deleted"}]
        /\ address' \in [User -> Address \cup {NoAddress}]
    BY <1>1, <1>2, <2>1, <2>2
  <2>7. awg' \subseteq {v \in User : address'[v] # NoAddress}
    BY <1>2, <1>4, <2>2
  <2> QED BY <1>1, <2>4, <2>5, <2>6, <2>7, ChangedFrame
<1> QED BY <1>3, <1>4 DEF Protocols

\* The profile tickets.
LEMMA RevokeTicketsKeeps == ASSUME WebIInv, RevokeTickets PROVE WebIInv'
<1> USE DEF WebIInv
<1>1. /\ mutex.op = "revoke" /\ mutex' = Free
      /\ tickets' = [t \in Enrollment |->
                       IF tickets[t] = mutex.user THEN NoUser ELSE tickets[t]]
      /\ stale' = stale \ TicketsOf(mutex.user)
      /\ UNCHANGED <<captureVars, logins, saved, loggedOut, users, address, awg, outer, live, qr>>
  BY DEF RevokeTickets, WithoutTickets, store
<1>2. CaptureIInv'
  BY <1>1, CaptureStutters
<1>3. Active' = Active /\ info' = info
  BY <1>1 DEF captureVars, manager, Active
<1>4. WebTypeOK' /\ LogoutIsDurable'
  <2>1. tickets' \in [Enrollment -> User \cup {NoUser}] /\ stale' \subseteq Enrollment
    BY <1>1 DEF WebTypeOK
  <2> QED BY <2>1, <1>1, <1>2, FreeIsFree DEF WebTypeOK, CaptureIInv, LogoutIsDurable
<1>5. InnerEndsWithLogin' /\ CaptureFollowsUser'
  BY <1>1, <1>3 DEF InnerEndsWithLogin, CaptureFollowsUser
<1>6. HandlerIsValid' /\ AddressesAreUnique'
  BY <1>1, FreeIsFree DEF HandlerIsValid, AddressesAreUnique, Known
<1>7. stale' = {}
  BY <1>1 DEF TicketsAreUnique, TicketsOf, WebTypeOK
<1>8. TicketsAreUnique'
  BY <1>1, <1>7 DEF TicketsAreUnique
<1> QED BY <1>2, <1>4, <1>5, <1>6, <1>8

\* A step that changes nothing but the tickets, and the request for one.
LEMMA TicketFrame ==
  ASSUME WebIInv, tickets' \in [Enrollment -> User \cup {NoUser}], stale' \subseteq stale,
         qr' \in User \cup {NoUser},
         UNCHANGED <<captureVars, logins, saved, loggedOut, store, mutex, outer, live>>,
         \A t \in stale' : tickets'[t] = tickets[t],
         \A s, t \in Enrollment : tickets'[s] = tickets'[t] => s = t \/ tickets'[s] = NoUser
  PROVE  WebIInv'
<1> USE DEF WebIInv, store
<1>1. CaptureIInv'
  BY CaptureStutters
<1>2. Active' = Active /\ info' = info
  BY DEF captureVars, manager, Active
<1>3. WebTypeOK' /\ LogoutIsDurable'
  BY <1>1 DEF WebTypeOK, CaptureIInv, LogoutIsDurable
<1>4. InnerEndsWithLogin' /\ CaptureFollowsUser'
  BY <1>2 DEF InnerEndsWithLogin, CaptureFollowsUser
<1>5. HandlerIsValid' /\ AddressesAreUnique' /\ TicketsAreUnique'
  BY DEF HandlerIsValid, AddressesAreUnique, Known, TicketsAreUnique
<1> QED BY <1>1, <1>3, <1>4, <1>5

LEMMA IssueTicketKeeps == ASSUME WebIInv, IssueTicket PROVE WebIInv'
<1> DEFINE t == Another(TicketsOf(NoUser) \cup TicketsOf(qr))
<1>1. t \in TicketsOf(NoUser) \cup TicketsOf(qr)
  BY AnotherIsMember DEF IssueTicket
<1>2. /\ t \in Enrollment /\ qr # NoUser /\ qr' = NoUser
      /\ tickets' = [WithoutTickets(qr) EXCEPT ![t] = qr]
      /\ stale' = stale \ (TicketsOf(qr) \cup {t})
      /\ UNCHANGED <<captureVars, logins, saved, loggedOut, store, mutex, outer, live>>
  BY <1>1 DEF IssueTicket, TicketsOf
<1> HIDE DEF t
<1>3. /\ tickets \in [Enrollment -> User \cup {NoUser}] /\ qr \in User \cup {NoUser}
      /\ stale \subseteq Enrollment
  BY DEF WebIInv, WebTypeOK
<1>4. /\ tickets'[t] = qr
      /\ \A s \in Enrollment \ {t} :
           tickets'[s] = IF tickets[s] = qr THEN NoUser ELSE tickets[s]
  BY <1>2, <1>3 DEF WithoutTickets
<1>5. tickets' \in [Enrollment -> User \cup {NoUser}]
  BY <1>2, <1>3 DEF WithoutTickets
<1>6. \A s \in stale' : tickets'[s] = tickets[s]
  BY <1>2, <1>3, <1>4 DEF TicketsOf
<1>7. \A r, s \in Enrollment : tickets'[r] = tickets'[s] => r = s \/ tickets'[r] = NoUser
  BY <1>2, <1>4 DEF WebIInv, TicketsAreUnique
<1> QED BY <1>2, <1>5, <1>6, <1>7, TicketFrame

LEMMA EnrollKeeps == ASSUME WebIInv, NEW t \in Enrollment, Enroll(t) PROVE WebIInv'
<1>1. /\ tickets' = [tickets EXCEPT ![t] = NoUser] /\ stale' = stale \ {t} /\ qr' = qr
      /\ UNCHANGED <<captureVars, logins, saved, loggedOut, store, mutex, outer, live>>
  BY DEF Enroll
<1>2. /\ tickets \in [Enrollment -> User \cup {NoUser}] /\ qr \in User \cup {NoUser}
      /\ stale \subseteq Enrollment
  BY DEF WebIInv, WebTypeOK
<1>3. tickets'[t] = NoUser /\ \A s \in Enrollment \ {t} : tickets'[s] = tickets[s]
  BY <1>1, <1>2
<1>4. tickets' \in [Enrollment -> User \cup {NoUser}]
  BY <1>1, <1>2
<1>5. \A s \in stale' : tickets'[s] = tickets[s]
  BY <1>1, <1>2, <1>3
<1>6. \A r, s \in Enrollment : tickets'[r] = tickets'[s] => r = s \/ tickets'[r] = NoUser
  BY <1>3 DEF WebIInv, TicketsAreUnique
<1> QED BY <1>1, <1>2, <1>4, <1>5, <1>6, TicketFrame

\* The handlers that hold userCaptureMu.
LEMMA RequestInnerKeeps ==
  ASSUME WebIInv, NEW o \in Owner, NEW u \in User, RequestInner(o, u)
  PROVE  WebIInv'
<1>1. /\ mutex.op = "free" /\ o \in logins
      /\ mutex' = [op |-> "request", owner |-> o, user |-> u, capture |-> NoCapture]
      /\ UNCHANGED <<captureVars, logins, saved, loggedOut, store, tickets, stale, outer, live, qr>>
  BY FreeIsFree DEF RequestInner, Hold, Locked
<1>2. /\ mutex'.op = "request" /\ mutex'.user = u /\ mutex'.owner = o
      /\ mutex' \in [op : {"free", "logout", "request", "stop", "revoke", "capture"},
                     owner : Owner, user : User \cup {NoUser},
                     capture : Capture \cup {NoCapture}]
  BY <1>1
<1>3. CaptureIInv' /\ InnerKept
  BY <1>1, CaptureStutters, StutterKeepsInner DEF WebIInv
<1>4. HandlerIsValid'
  BY <1>1, <1>2 DEF HandlerIsValid, WebIInv, LogoutIsDurable
<1> QED BY <1>1, <1>2, <1>3, <1>4, MutexFrame

\* A handler is done: the one that did not have to stop anything.
LEMMA ReleaseKeeps ==
  ASSUME WebIInv, CaptureIInv', InnerKept, mutex' = Free,
         mutex.op \in {"free", "request", "capture"},
         UNCHANGED <<logins, saved, loggedOut, store, tickets, stale, outer, live, qr>>
  PROVE  WebIInv'
<1>1. HandlerIsValid'
  BY FreeIsFree DEF HandlerIsValid
<1> QED BY <1>1, FreeIsFree, MutexFrame

LEMMA CaptureRefusedKeeps == ASSUME WebIInv, CaptureRefused PROVE WebIInv'
<1>1. /\ mutex.op = "request" /\ mutex' = Free
      /\ UNCHANGED <<captureVars, logins, saved, loggedOut, store, tickets, stale, outer, live, qr>>
  BY DEF CaptureRefused
<1>2. CaptureIInv' /\ InnerKept
  BY <1>1, CaptureStutters, StutterKeepsInner DEF WebIInv
<1> QED BY <1>1, <1>2, ReleaseKeeps

LEMMA CaptureLaunchedKeeps == ASSUME WebIInv, CaptureLaunched PROVE WebIInv'
<1>1. /\ mutex.op = "capture" /\ mutex' = Free
      /\ UNCHANGED <<logins, saved, loggedOut, store, tickets, stale, outer, live, qr>>
  BY DEF CaptureLaunched
<1>2. CaptureIInv' /\ InnerKept
  <2>1. CASE UNCHANGED captureVars
    BY <2>1, CaptureStutters, StutterKeepsInner DEF WebIInv
  <2>2. CASE Ticket(mutex.capture)
    BY <2>2, TicketKeeps, StopsKeepInner DEF Ticket, manager, WebIInv
  <2> QED BY <2>1, <2>2 DEF CaptureLaunched
<1> QED BY <1>1, <1>2, ReleaseKeeps

LEMMA CaptureFailedKeeps == ASSUME WebIInv, CaptureFailed PROVE WebIInv'
<1>1. /\ mutex.op = "capture" /\ mutex' = Free /\ running' \subseteq running
      /\ UNCHANGED <<sessions, info, managerMu, closing, record, pass, viewer>>
      /\ UNCHANGED <<logins, saved, loggedOut, store, tickets, stale, outer, live, qr>>
  BY DEF CaptureFailed, StopAll
<1>2. CaptureIInv' /\ InnerKept
  BY <1>1, StopAllKeeps, StopsKeepInner DEF WebIInv, CaptureIInv, CaptureTypeOK
<1> QED BY <1>1, <1>2, ReleaseKeeps

LEMMA LogoutStopsKeeps == ASSUME WebIInv, LogoutStops PROVE WebIInv'
<1>1. /\ mutex.op = "logout" /\ mutex' = Free /\ StopOwner(mutex.owner)
      /\ UNCHANGED <<logins, saved, loggedOut, store, tickets, stale, outer, live, qr>>
  BY DEF LogoutStops
<1>2. /\ running' = running \ {c \in sessions : info[c].owner = mutex.owner}
      /\ UNCHANGED <<sessions, info>>
  BY <1>1 DEF StopOwner, StopAll
<1>3. CaptureIInv' /\ InnerKept
  BY <1>1, <1>2, StopOwnerKeeps, StopsKeepInner DEF WebIInv
<1>4. \A c \in Active' : info'[c].owner # mutex.owner
  BY <1>2 DEF Active
<1>5. HandlerIsValid'
  BY <1>1, FreeIsFree DEF HandlerIsValid
<1> QED BY <1>1, <1>3, <1>4, <1>5, FreeIsFree, MutexFrame

LEMMA RevokeCapturesKeeps == ASSUME WebIInv, RevokeCaptures PROVE WebIInv'
<1>1. /\ mutex.op = "stop" /\ StopUser(mutex.user)
      /\ mutex' = [op |-> "revoke", owner |-> mutex.owner, user |-> mutex.user,
                   capture |-> NoCapture]
      /\ UNCHANGED <<logins, saved, loggedOut, store, tickets, stale, outer, live, qr>>
  BY DEF RevokeCaptures, Hold
<1>2. /\ running' = running \ {c \in sessions : info[c].user = mutex.user}
      /\ UNCHANGED <<sessions, info>>
  BY <1>1 DEF StopUser, StopAll
<1>3. CaptureIInv' /\ InnerKept
  BY <1>1, <1>2, StopUserKeeps, StopsKeepInner DEF WebIInv
<1>4. \A c \in Active' : info'[c].user # mutex.user
  BY <1>2 DEF Active
<1>5. mutex.owner \in Owner /\ mutex.user \in User
  BY <1>1 DEF WebIInv, WebTypeOK, HandlerIsValid
<1>6. /\ mutex'.op = "revoke" /\ mutex'.user = mutex.user
      /\ mutex' \in [op : {"free", "logout", "request", "stop", "revoke", "capture"},
                     owner : Owner, user : User \cup {NoUser},
                     capture : Capture \cup {NoCapture}]
  BY <1>1, <1>5
<1>7. HandlerIsValid'
  BY <1>5, <1>6 DEF HandlerIsValid
<1> QED BY <1>1, <1>3, <1>4, <1>6, <1>7, MutexFrame

\* The only step that starts an inner capture: its user was found enabled,
\* its address is his, and its login was not ended meanwhile.
LEMMA CaptureUserKeeps == ASSUME WebIInv, NEW c \in Capture, CaptureUser(c) PROVE WebIInv'
<1> USE DEF WebIInv
<1> DEFINE u == mutex.user
           a == IF u \in awg THEN address[u] ELSE NoAddress
<1>1. /\ mutex.op = "request" /\ users[u] = "enabled" /\ StartUser(c, mutex.owner, u, a)
      /\ mutex' = [op |-> "capture", owner |-> mutex.owner, user |-> u, capture |-> c]
      /\ UNCHANGED <<logins, saved, loggedOut, users, address, awg, tickets, stale,
                     outer, live, qr>>
  BY DEF CaptureUser, Hold, store
<1>2. /\ u \in User /\ mutex.owner \in Owner /\ mutex.owner \notin loggedOut
      /\ a \in Address \cup {NoAddress} /\ (a # NoAddress => u \in awg /\ address[u] = a)
  BY <1>1 DEF WebTypeOK, HandlerIsValid
<1> HIDE DEF a
<1>3. CaptureIInv'
  BY <1>1, <1>2, StartUserKeeps
<1>4. /\ info' = [info EXCEPT ![c] = [owner |-> mutex.owner, user |-> u, address |-> a]]
      /\ running' = running \cup {c} /\ sessions' = sessions \cup {c}
      /\ info \in [Capture -> Info] /\ sessions \subseteq Capture
  BY <1>1 DEF StartUser, NewSession, CaptureIInv, CaptureTypeOK
<1>5. info'[c].owner = mutex.owner /\ info'[c].user = u /\ info'[c].address = a
  BY <1>4
<1>6. \A d \in Active' : d # c => d \in Active /\ info'[d] = info[d]
  BY <1>4 DEF Active
<1>7. /\ mutex'.op = "capture" /\ mutex'.user = u /\ mutex'.owner = mutex.owner
      /\ mutex' \in [op : {"free", "logout", "request", "stop", "revoke", "capture"},
                     owner : Owner, user : User \cup {NoUser},
                     capture : Capture \cup {NoCapture}]
  BY <1>1, <1>2
<1>8. WebTypeOK' /\ LogoutIsDurable'
  BY <1>1, <1>3, <1>7 DEF WebTypeOK, CaptureIInv, LogoutIsDurable
<1>9. InnerEndsWithLogin'
  BY <1>1, <1>2, <1>5, <1>6 DEF InnerEndsWithLogin
<1>10. CaptureFollowsUser'
  <2> SUFFICES ASSUME NEW d \in Active', info'[d].user # NoUser
               PROVE  /\ \A v \in User \ {info'[d].user} :
                           info'[d].address # NoAddress => address[v] # info'[d].address
                      /\ users[info'[d].user] = "enabled"
                      /\ info'[d].address # NoAddress =>
                           /\ info'[d].user \in awg
                           /\ address[info'[d].user] = info'[d].address
    BY <1>1 DEF CaptureFollowsUser
  <2>1. CASE d = c
    <3>1. a # NoAddress => \A v \in User \ {u} : address[v] # a
      BY <1>2 DEF AddressesAreUnique
    <3> QED BY <2>1, <3>1, <1>1, <1>2, <1>5
  <2>2. CASE d # c
    BY <2>2, <1>1, <1>6 DEF CaptureFollowsUser
  <2> QED BY <2>1, <2>2
<1>11. HandlerIsValid' /\ AddressesAreUnique' /\ TicketsAreUnique'
  BY <1>1, <1>2, <1>7 DEF HandlerIsValid, AddressesAreUnique, Known, TicketsAreUnique
<1> QED BY <1>3, <1>8, <1>9, <1>10, <1>11

\* The process starts again: only the file and the store are left.
LEMMA RestartKeeps == ASSUME WebIInv, Restart PROVE WebIInv'
<1> USE DEF WebIInv
<1>1. CaptureIInv'
  <2> USE DEF Restart, CaptureIInv
  <2>1. CaptureTypeOK'
    <3>1. info' \in [Capture -> Info]
      BY NoInfoType
    <3>2. viewer' \in [Capture -> Viewer]
      BY NoViewerType
    <3>3. /\ keyLines' \in [Capture -> 0..MaxKeys]
          /\ pass' \in [Capture -> SUBSET {"ticket", "token"}]
      BY CaptureAssumption
    <3>4. /\ blocks' \in [Capture -> Seq({"header", "packet", "secret"})]
          /\ \A c \in Capture : Len(blocks'[c]) <= MaxBlocks
      BY CaptureAssumption
    <3> QED BY <3>1, <3>2, <3>3, <3>4 DEF CaptureTypeOK
  <2>2. HeaderIsFirst' /\ ClosingStopsAll' /\ StartIsExclusive'
    BY DEF HeaderIsFirst, ClosingStopsAll, StartIsExclusive
  <2>3. RoomIsKept'
    BY FS_EmptySet, CaptureAssumption DEF RoomIsKept
  <2>4. UsersAreDistinct' /\ SecretsFollowHeader' /\ LastIsLast'
    BY DEF UsersAreDistinct, Active, SecretsFollowHeader, LastIsLast, NoViewer
  <2> QED BY <2>1, <2>2, <2>3, <2>4
<1>2. /\ logins' \subseteq saved /\ running' = {} /\ mutex' = Free /\ stale' = {}
      /\ tickets' = [t \in Enrollment |-> NoUser] /\ outer' = {} /\ live' = {} /\ qr' = NoUser
      /\ UNCHANGED <<saved, loggedOut, users, address, awg>>
  BY DEF Restart, store
<1>3. Active' = {}
  BY <1>2 DEF Active
<1>4. WebTypeOK' /\ LogoutIsDurable'
  BY <1>1, <1>2, FreeIsFree DEF WebTypeOK, CaptureIInv, LogoutIsDurable
<1>5. InnerEndsWithLogin' /\ CaptureFollowsUser'
  BY <1>3 DEF InnerEndsWithLogin, CaptureFollowsUser
<1>6. HandlerIsValid' /\ AddressesAreUnique' /\ TicketsAreUnique'
  BY <1>2, FreeIsFree DEF HandlerIsValid, AddressesAreUnique, Known, TicketsAreUnique
<1> QED BY <1>1, <1>4, <1>5, <1>6

-----------------------------------------------------------------------------
(* The theorems on the pages.                                              *)

LEMMA WebInitKeeps == ASSUME WebInit PROVE WebIInv
<1> USE DEF WebInit, WebIInv
<1>1. CaptureIInv
  BY CaptureInitKeeps
<1>2. Active = {}
  BY DEF Active, CaptureInit
<1>3. WebTypeOK /\ LogoutIsDurable
  BY <1>1, FreeIsFree DEF WebTypeOK, CaptureIInv, LogoutIsDurable
<1>4. InnerEndsWithLogin /\ CaptureFollowsUser
  BY <1>2 DEF InnerEndsWithLogin, CaptureFollowsUser
<1>5. HandlerIsValid /\ AddressesAreUnique /\ TicketsAreUnique
  BY FreeIsFree DEF HandlerIsValid, AddressesAreUnique, TicketsAreUnique
<1> QED BY <1>1, <1>3, <1>4, <1>5

LEMMA WebStutters == ASSUME WebIInv, UNCHANGED vars PROVE WebIInv'
<1>1. UNCHANGED captureVars /\ UNCHANGED webVars
  BY DEF vars
<1>2. CaptureIInv' /\ InnerKept
  BY <1>1, CaptureStutters, StutterKeepsInner DEF WebIInv
<1>3. LogoutIsDurable'
  BY <1>1 DEF webVars, WebIInv, LogoutIsDurable
<1> QED BY <1>1, <1>2, <1>3, WebFrame DEF webVars, store, WebIInv, WebTypeOK

LEMMA WebNextKeeps == ASSUME WebIInv, [WebNext]_vars PROVE WebIInv'
<1>1. CASE UNCHANGED vars
  BY <1>1, WebStutters
<1>2. ASSUME NEW o \in Owner, Login(o) \/ Logout(o) PROVE WebIInv'
  BY <1>2, LoginKeeps, LogoutKeeps
<1>3. ASSUME NEW o \in Owner, Prune(o) \/ LiveStats(o) \/ LiveTick(o) \/ RequestOuter(o)
      PROVE  WebIInv'
  BY <1>3, RequestsKeep
<1>4. ASSUME NEW o \in Owner, StartRequested(o) PROVE WebIInv'
  BY <1>4, StartRequestedKeeps
<1>5. ASSUME NEW o \in Owner, NEW c \in Capture, CaptureLaunch(o, c) \/ CaptureStop(o, c)
      PROVE  WebIInv'
  BY <1>5, CaptureHandlersKeep
<1>6. ASSUME NEW o \in Owner, NEW u \in User, RequestInner(o, u) PROVE WebIInv'
  BY <1>6, RequestInnerKeeps
<1>7. ASSUME NEW u \in User, Delete(u) \/ Toggle(u) \/ Protocols(u) PROVE WebIInv'
  BY <1>7, DeleteKeeps, ToggleKeeps, ProtocolsKeeps
<1>8. ASSUME NEW u \in User, ReadProfile(u) PROVE WebIInv'
  BY <1>8, CaptureAssumption, RequestsKeep
<1>9. ASSUME NEW a \in Address \cup {NoAddress}, Add(a) PROVE WebIInv'
  BY <1>9, AddKeeps
<1>10. CASE IssueTicket
  BY <1>10, IssueTicketKeeps
<1>11. ASSUME NEW t \in Enrollment, Enroll(t) PROVE WebIInv'
  BY <1>11, EnrollKeeps
<1>12. ASSUME NEW c \in Capture, ManagerStep(c) \/ CaptureUser(c) PROVE WebIInv'
  BY <1>12, CaptureHandlersKeep, CaptureUserKeeps
<1>13. CASE LogoutStops \/ RevokeCaptures \/ RevokeTickets
  BY <1>13, LogoutStopsKeeps, RevokeCapturesKeeps, RevokeTicketsKeeps
<1>14. CASE CaptureRefused \/ CaptureLaunched \/ CaptureFailed
  BY <1>14, CaptureRefusedKeeps, CaptureLaunchedKeeps, CaptureFailedKeeps
<1>15. CASE Restart
  BY <1>15, RestartKeeps
<1> QED BY <1>1, <1>2, <1>3, <1>4, <1>5, <1>6, <1>7, <1>8, <1>9, <1>10, <1>11, <1>12,
           <1>13, <1>14, <1>15 DEF WebNext, Handler

(* The inductive invariant of the pages over that of the manager: a        *)
(* handler is about a login that was not ended and a user, addresses are   *)
(* unique, and what a change makes obsolete is there only while the        *)
(* handler that revokes it holds userCaptureMu.                            *)
THEOREM WebAlwaysIInv == WebSafe => []WebIInv
<1>1. WebInit => WebIInv
  BY WebInitKeeps
<1>2. WebIInv /\ [WebNext]_vars => WebIInv'
  BY WebNextKeeps
<1> QED BY <1>1, <1>2, PTL DEF WebSafe

(* A logout is final, over restarts too, and ends the inner captures of    *)
(* its login: logout and userCapture of the pages.                         *)
THEOREM WebAlwaysWebInv == WebSafe => []WebInv
<1>1. WebIInv => WebInv
  BY DEF WebIInv, WebInv
<1> QED BY <1>1, WebAlwaysIInv, PTL

(* An inner capture records its own user, enabled and at his own address,  *)
(* whatever delete, toggle and protocols do meanwhile.                     *)
THEOREM WebCapturesFollowUsers == WebSafe => []CaptureFollowsUser
<1>1. WebIInv => CaptureFollowsUser
  BY DEF WebIInv
<1> QED BY <1>1, WebAlwaysIInv, PTL

(* A user has at most one profile ticket, and none older than the last     *)
(* change of his access: qr, enroll and revokeTickets.                     *)
THEOREM WebTicketsAreFresh == WebSafe => []TicketsAreFresh
<1>1. ASSUME WebIInv PROVE TicketsAreFresh
  <2>1. ASSUME NEW u \in User PROVE Cardinality(TicketsOf(u)) <= 1
    <3>1. \A s, t \in TicketsOf(u) : s = t
      BY <1>1, CaptureAssumption DEF WebIInv, TicketsAreUnique, TicketsOf
    <3> QED BY <3>1, AtMostOne
  <2> QED BY <1>1, <2>1 DEF WebIInv, TicketsAreUnique, TicketsAreFresh
<1> QED BY <1>1, WebAlwaysIInv, PTL

(* The limits of the manager hold under the pages as well, with their      *)
(* restarts: WebSafe does not take the steps of CaptureSpec alone.         *)
THEOREM WebKeepsCaptureInv == WebSafe => []CaptureInv
<1>1. WebIInv => CaptureInv
  BY CaptureIInvImplies DEF WebIInv
<1> QED BY <1>1, WebAlwaysIInv, PTL

=============================================================================
