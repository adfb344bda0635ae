---------------------------- MODULE DebugCapture ----------------------------
(***************************************************************************)
(* The teaching captures of the server: the manager and its mutex, which   *)
(* Start holds until tcpdump has begun, the bounded recordings, the TLS    *)
(* secrets of the listeners, and the stream to the one viewer.             *)
(*                                                                         *)
(* A capture is identified again once nothing of an earlier one is left.   *)
(***************************************************************************)
EXTENDS Naturals, Sequences, FiniteSets

CONSTANTS
  Capture,
  NoCapture,
  Owner,      \* logins of the administration
  User, NoUser,
  Address, NoAddress,
  Slots,      \* Config.Slots: captures that run at a time
  Retained,   \* captures kept, finished ones included (8)
  Watched,    \* bound: the captures that a viewer may ask for
  MaxBlocks,  \* MaxBytes, with blocks of one size
  MaxKeys     \* the limit of keyLines

ASSUME CaptureAssumption ==
  /\ {Slots, Retained, MaxBlocks, MaxKeys} \subseteq Nat /\ MaxBlocks > 0
  /\ Owner # {}
  /\ NoCapture \notin Capture /\ NoUser \notin User /\ NoAddress \notin Address

VARIABLES
  sessions,   \* m.sessions
  running,    \* the captures with State = "running"
  info,       \* whose they are, and of whom
  managerMu,  \* the capture for which Start holds m.mu
  closing,
  blocks,     \* what was recorded
  keyLines,   \* how many TLS secrets
  unsent,     \* captures with a secret between the two halves of Write
  pass,       \* the launch ticket and the viewer's token, while valid
  viewer      \* captureStream

manager == <<sessions, running, info, managerMu, closing>>
record == <<blocks, keyLines, unsent>>
captureVars == <<manager, record, pass, viewer>>

Info == [owner : Owner, user : User \cup {NoUser}, address : Address \cup {NoAddress}]

NoInfo == CHOOSE i \in Info : i.user = NoUser /\ i.address = NoAddress

(* at: where the stream is; "attached" and "secrets" are the writes that   *)
(* have no timeout. index, keys: the blocks and the keyLines written;      *)
(* until: the end of the batch that LiveBlocks returned, last: whether it  *)
(* was "done"; stalled: the viewer does not read, and its socket is full.  *)
Viewer ==
  [at : {"none", "attached", "round", "secrets", "reading", "writing", "closed", "cut"},
   index : 0..MaxBlocks, keys : 0..MaxKeys, until : 0..MaxBlocks, last : BOOLEAN,
   stalled : BOOLEAN]
NoViewer ==
  [at |-> "none", index |-> 0, keys |-> 0, until |-> 0, last |-> FALSE, stalled |-> FALSE]
Streaming == {"attached", "round", "secrets", "reading", "writing"}

CaptureTypeOK ==
  /\ sessions \subseteq Capture /\ running \subseteq Capture
  /\ info \in [Capture -> Info]
  /\ managerMu \in Capture \cup {NoCapture}
  /\ closing \in BOOLEAN
  /\ blocks \in [Capture -> Seq({"header", "packet", "secret"})]
  /\ \A c \in Capture : Len(blocks[c]) <= MaxBlocks
  /\ keyLines \in [Capture -> 0..MaxKeys]
  /\ unsent \subseteq Capture
  /\ pass \in [Capture -> SUBSET {"ticket", "token"}]
  /\ viewer \in [Capture -> Viewer]

CaptureInit ==
  /\ sessions = {} /\ running = {} /\ managerMu = NoCapture /\ closing = FALSE
  /\ info = [c \in Capture |-> NoInfo]
  /\ blocks = [c \in Capture |-> <<>>] /\ keyLines = [c \in Capture |-> 0]
  /\ unsent = {} /\ pass = [c \in Capture |-> {}]
  /\ viewer = [c \in Capture |-> NoViewer]

-----------------------------------------------------------------------------
(* Session.                                                                *)

(* Slip: a stopped capture goes on recording.                            *)
EmitAlways(c, b) ==
  /\ blocks' = IF Len(blocks[c]) < MaxBlocks
               THEN [blocks EXCEPT ![c] = Append(@, b)] ELSE blocks
  /\ running' = IF Len(blocks[c]) = MaxBlocks THEN running \ {c} ELSE running

(* emit: a stopped capture takes nothing; a full one stops.                *)
Emit(c, b) ==
  LET fits == Len(blocks[c]) < MaxBlocks
  IN /\ blocks' = IF c \in running /\ fits
                  THEN [blocks EXCEPT ![c] = Append(@, b)] ELSE blocks
     /\ running' = IF fits THEN running ELSE running \ {c}

(* Session.Stop of several captures.                                       *)
StopAll(cs) == running' = running \ cs

SetViewer(c, v) == viewer' = [viewer EXCEPT ![c] = v]

(* The lifetime of ten minutes, the end of tcpdump.                        *)
CaptureEnds(c) ==
  /\ c \in running /\ (managerMu = c => blocks[c] # <<>>)
  /\ StopAll({c})
  /\ UNCHANGED <<sessions, info, managerMu, closing, record, pass, viewer>>

-----------------------------------------------------------------------------
(* Manager.                                                                *)

Active == running \cap sessions
HasRoom == Cardinality(Active) < Slots /\ Cardinality(sessions) < Retained

Unused(c) ==
  c \notin sessions /\ c # managerMu /\ c \notin unsent /\ viewer[c].at \notin Streaming

NewSession(c, i, bs) ==
  /\ running' = running \cup {c}
  /\ info' = [info EXCEPT ![c] = i]
  /\ blocks' = [blocks EXCEPT ![c] = bs]
  /\ keyLines' = [keyLines EXCEPT ![c] = 0]
  /\ pass' = [pass EXCEPT ![c] = {}]
  /\ SetViewer(c, NoViewer)
  /\ UNCHANGED unsent

(* Nothing refers to a capture any more: whatever it held is garbage.      *)
Discard(c) ==
  /\ info' = [info EXCEPT ![c] = NoInfo]
  /\ blocks' = [blocks EXCEPT ![c] = <<>>]
  /\ keyLines' = [keyLines EXCEPT ![c] = 0]
  /\ pass' = [pass EXCEPT ![c] = {}]
  /\ SetViewer(c, NoViewer)
  /\ UNCHANGED unsent

(* Start up to the launch of tcpdump. The mutex stays locked.              *)
StartOuter(c, o) ==
  /\ managerMu = NoCapture /\ ~closing /\ HasRoom /\ Unused(c)
  /\ NewSession(c, [owner |-> o, user |-> NoUser, address |-> NoAddress], <<>>)
  /\ managerMu' = c
  /\ UNCHANGED <<sessions, closing>>

(* readPCAP has read the file header, and reports that it is ready.        *)
TcpdumpReady(c) ==
  /\ managerMu = c /\ blocks[c] = <<>>
  /\ Emit(c, "header")
  /\ UNCHANGED <<sessions, info, managerMu, closing, keyLines, unsent, pass, viewer>>

StartSucceeds(c) ==
  /\ managerMu = c /\ blocks[c] # <<>>
  /\ sessions' = sessions \cup {c}
  /\ managerMu' = NoCapture
  /\ UNCHANGED <<running, info, closing, record, pass, viewer>>

(* Slip: the wait for tcpdump has no timeout.                            *)
StartWaitsForTcpdump(c) ==
  /\ managerMu = c /\ blocks[c] # <<>>
  /\ StopAll({c}) /\ Discard(c)
  /\ managerMu' = NoCapture
  /\ UNCHANGED <<sessions, closing>>

(* tcpdump said nothing for four seconds, or something else.               *)
StartFails(c) ==
  /\ managerMu = c
  /\ StopAll({c}) /\ Discard(c)
  /\ managerMu' = NoCapture
  /\ UNCHANGED <<sessions, closing>>

UserCapture(u) == {c \in Active : info[c].user = u}

(* Slip: only the captures of users count.                               *)
StartUserCountingUsers(c, o, u, a) ==
  /\ managerMu = NoCapture /\ ~closing /\ UserCapture(u) = {} /\ Unused(c)
  /\ Cardinality({d \in Active : info[d].user # NoUser}) < Slots
  /\ Cardinality(sessions) < Retained
  /\ NewSession(c, [owner |-> o, user |-> u, address |-> a], <<"header">>)
  /\ sessions' = sessions \cup {c}
  /\ UNCHANGED <<managerMu, closing>>

(* StartUser up to captureAWG, which does not hold the mutex.              *)
StartUser(c, o, u, a) ==
  /\ managerMu = NoCapture /\ ~closing /\ HasRoom /\ UserCapture(u) = {} /\ Unused(c)
  /\ NewSession(c, [owner |-> o, user |-> u, address |-> a], <<"header">>)
  /\ sessions' = sessions \cup {c}
  /\ UNCHANGED <<managerMu, closing>>

(* Five minutes after the lifetime. A slow viewer may still be there.      *)
Forget(c) ==
  /\ managerMu = NoCapture /\ c \in sessions \ running
  /\ sessions' = sessions \ {c}
  /\ IF c \in unsent \/ viewer[c].at \in Streaming
     THEN UNCHANGED <<info, record, pass, viewer>> ELSE Discard(c)
  /\ UNCHANGED <<running, managerMu, closing>>

(* Slip: the end of the server does not wait for a start.                *)
CloseUnlocked ==
  /\ ~closing
  /\ closing' = TRUE
  /\ StopAll(sessions)
  /\ UNCHANGED <<sessions, info, managerMu, record, pass, viewer>>

(* The server stops.                                                       *)
Close ==
  /\ managerMu = NoCapture /\ ~closing
  /\ closing' = TRUE
  /\ StopAll(sessions)
  /\ UNCHANGED <<sessions, info, managerMu, record, pass, viewer>>

StopOwner(o) ==
  LET cs == {c \in sessions : info[c].owner = o}
  IN /\ managerMu = NoCapture
     /\ StopAll(cs)
     /\ pass' = [c \in Capture |-> IF c \in cs THEN {} ELSE pass[c]]
     /\ UNCHANGED <<sessions, info, managerMu, closing, record, viewer>>

StopUser(u) ==
  /\ managerMu = NoCapture
  /\ StopAll({c \in sessions : info[c].user = u})
  /\ UNCHANGED <<sessions, info, managerMu, closing, record, pass, viewer>>

-----------------------------------------------------------------------------
(* What is recorded.                                                       *)

(* A packet of tcpdump, after isExcluded with the mutex, or of a user's    *)
(* flow (capturedConn.record).                                             *)
Packet(c) ==
  /\ c \in Active /\ (info[c].user = NoUser => managerMu = NoCapture)
  /\ Emit(c, "packet")
  /\ UNCHANGED <<sessions, info, managerMu, closing, keyLines, unsent, pass, viewer>>

(* serverKeys.Write selects the captures of its port; Session.Write keeps  *)
(* the secret and, without the lock, records it.                           *)
Secret(c) ==
  /\ managerMu = NoCapture /\ c \in Active \ unsent /\ info[c].user = NoUser
  /\ keyLines[c] < MaxKeys
  /\ keyLines' = [keyLines EXCEPT ![c] = @ + 1]
  /\ unsent' = unsent \cup {c}
  /\ UNCHANGED <<manager, blocks, pass, viewer>>

SecretRecorded(c) ==
  /\ c \in unsent
  /\ unsent' = unsent \ {c}
  /\ Emit(c, "secret")
  /\ UNCHANGED <<sessions, info, managerMu, closing, keyLines, pass, viewer>>

-----------------------------------------------------------------------------
(* The viewer. A launch ticket that expires is one that nobody redeems.    *)

Ticket(c) ==
  /\ c \in running /\ viewer[c].at = "none"
  /\ pass' = [pass EXCEPT ![c] = @ \cup {"ticket"}]
  /\ UNCHANGED <<manager, record, viewer>>

Redeem(c) ==
  /\ c \in Watched /\ managerMu = NoCapture /\ c \in Active /\ "ticket" \in pass[c]
  /\ pass' = [pass EXCEPT ![c] = (@ \ {"ticket"}) \cup {"token"}]
  /\ UNCHANGED <<manager, record, viewer>>

Attach(c) ==
  /\ managerMu = NoCapture /\ c \in Active
  /\ "token" \in pass[c] /\ viewer[c].at = "none"
  /\ pass' = [pass EXCEPT ![c] = @ \ {"token"}]
  /\ SetViewer(c, [NoViewer EXCEPT !.at = "attached"])
  /\ UNCHANGED <<manager, record>>

(* The viewer stops reading, or reads again.                               *)
Stalls(c, how) ==
  /\ viewer[c].at \in Streaming /\ viewer[c].stalled # how
  /\ SetViewer(c, [viewer[c] EXCEPT !.stalled = how])
  /\ UNCHANGED <<manager, record, pass>>

(* The peer is not known, the handshake fails, a write or a ping fails, or *)
(* the viewer goes: its capture is stopped.                                *)
ViewerCut(c) ==
  /\ viewer[c].at \in Streaming
  /\ SetViewer(c, [NoViewer EXCEPT !.at = "cut"])
  /\ StopAll({c})
  /\ UNCHANGED <<sessions, info, managerMu, closing, record, pass>>

(* The section header goes first.                                          *)
SendHeader(c) ==
  /\ viewer[c].at = "attached" /\ ~viewer[c].stalled
  /\ SetViewer(c, [viewer[c] EXCEPT !.at = "round", !.index = 1])
  /\ UNCHANGED <<manager, record, pass>>

(* A round begins with the secrets that are new in keyLines.               *)
ReadKeys(c) ==
  /\ viewer[c].at = "round"
  /\ SetViewer(c, [viewer[c] EXCEPT !.at = IF keyLines[c] > viewer[c].keys THEN "secrets" ELSE "reading",
                                    !.keys = keyLines[c]])
  /\ UNCHANGED <<manager, record, pass>>

SendSecrets(c) ==
  /\ viewer[c].at = "secrets" /\ ~viewer[c].stalled
  /\ SetViewer(c, [viewer[c] EXCEPT !.at = "reading"])
  /\ UNCHANGED <<manager, record, pass>>

(* Slip: the last two seconds are held back from an ended capture, too.  *)
LiveBlocksDelayed(c, end) ==
  /\ viewer[c].at = "reading" /\ end \in viewer[c].index..Len(blocks[c])
  /\ SetViewer(c, [viewer[c] EXCEPT !.at = "writing", !.until = end,
                                    !.last = c \notin running /\ end = Len(blocks[c])])
  /\ UNCHANGED <<manager, record, pass>>

(* While the capture runs, the blocks of the last two seconds wait.        *)
LiveBlocks(c, end) ==
  /\ viewer[c].at = "reading" /\ end \in viewer[c].index..Len(blocks[c])
  /\ c \notin running => end = Len(blocks[c])
  /\ SetViewer(c, [viewer[c] EXCEPT !.at = "writing", !.until = end,
                                    !.last = c \notin running /\ end = Len(blocks[c])])
  /\ UNCHANGED <<manager, record, pass>>

(* The write of a block waits for the viewer.                              *)
BlockWaits(c) ==
  viewer[c].at = "writing" /\ viewer[c].stalled /\ viewer[c].index < viewer[c].until

(* The batch is written; after the last one the socket is closed normally, *)
(* and the closing handshake has a timeout of its own.                     *)
SendBlocks(c) ==
  LET v == viewer[c]
  IN /\ v.at = "writing" /\ ~BlockWaits(c)
     /\ SetViewer(c, [v EXCEPT !.at = IF v.last THEN "closed" ELSE "round", !.index = v.until,
                              !.until = 0, !.last = FALSE])
     /\ UNCHANGED <<manager, record, pass>>

(* Ten seconds later the write gives up.                                   *)
BlockTimesOut(c) == BlockWaits(c) /\ ViewerCut(c)

Stream(c) ==
  \/ SendHeader(c) \/ ReadKeys(c) \/ SendSecrets(c) \/ SendBlocks(c) \/ BlockTimesOut(c)
  \/ \E end \in 0..MaxBlocks : LiveBlocks(c, end)

CaptureNext ==
  \/ \E c \in Capture, o \in Owner :
       \/ StartOuter(c, o)
       \/ \E u \in User, a \in Address \cup {NoAddress} : StartUser(c, o, u, a)
  \/ \E o \in Owner : StopOwner(o)
  \/ \E u \in User : StopUser(u)
  \/ Close
  \/ \E c \in Capture :
       \/ TcpdumpReady(c) \/ StartSucceeds(c) \/ StartFails(c)
       \/ CaptureEnds(c) \/ Forget(c)
       \/ Packet(c) \/ Secret(c) \/ SecretRecorded(c)
       \/ Ticket(c) \/ Redeem(c) \/ Attach(c) \/ ViewerCut(c) \/ Stream(c)
       \/ \E how \in BOOLEAN : Stalls(c, how)

(* Start waits for tcpdump at most four seconds; a capture has a lifetime; *)
(* the goroutines of the server run. A write that has no timeout returns   *)
(* only if the viewer reads: no fairness for a viewer that does not.       *)
CaptureFairness ==
  \A c \in Capture :
    /\ WF_captureVars(StartSucceeds(c) \/ StartFails(c))
    /\ WF_captureVars(CaptureEnds(c))
    /\ WF_captureVars(SecretRecorded(c))
    /\ WF_captureVars(Stream(c))

CaptureSpec == CaptureInit /\ [][CaptureNext]_captureVars /\ CaptureFairness

-----------------------------------------------------------------------------
(* Properties.                                                             *)

(* At most Slots captures run, those of users and those of the listeners   *)
(* together and the one being started included; at most Retained are kept; *)
(* a user is recorded by one capture at a time, which record() relies on.  *)
LimitsHold ==
  /\ Cardinality(running) <= Slots
  /\ Cardinality(sessions) <= Retained
  /\ \A u \in User : Cardinality(UserCapture(u)) <= 1

(* Every capture that can be found begins with its section header, which   *)
(* the stream and the download send before all else: no secret or packet   *)
(* overtakes it, although other goroutines record them.                    *)
HeaderIsFirst ==
  /\ \A c \in sessions : blocks[c] # <<>>
  /\ \A c \in Capture, i \in 1..MaxBlocks :
       i \in DOMAIN blocks[c] => (blocks[c][i] = "header" <=> i = 1)

(* The limits of the manager and the shape of a recording hold, while      *)
(* captures of both kinds start, record, end and are forgotten.            *)
CaptureInv == CaptureTypeOK /\ LimitsHold /\ HeaderIsFirst

(* A viewer whose socket was closed normally has the whole recording, also *)
(* if it was stopped between two steps of the stream.                      *)
ClosedIsComplete ==
  \A c \in Capture : viewer[c].at = "closed" => viewer[c].index = Len(blocks[c])

(* No capture runs in a server that is stopping, not even one that was     *)
(* being started.                                                          *)
ClosingStopsAll == closing => running = {}

(* The writes without a timeout: the header and the secrets of a round.    *)
HeldUp(c) == viewer[c].stalled /\ viewer[c].at \in {"attached", "secrets"}

(* No viewer that reads is left hanging, nor one that stops reading during *)
(* a batch: its capture ends by itself, and the stream then writes what is *)
(* left and closes, or gives up. Only the writes without a timeout wait    *)
(* for their viewer, for as long as it likes.                              *)
ViewersEnd == \A c \in Capture : []<>(viewer[c].at \notin Streaming \/ HeldUp(c))
=============================================================================
