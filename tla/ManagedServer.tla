---------------------------- MODULE ManagedServer ----------------------------
(***************************************************************************)
(* The admin/gateway process and the AWG worker process side by side.  All *)
(* they share is the file identities.json.                                 *)
(***************************************************************************)
EXTENDS IdentityStore

CONSTANT NoPeer

VARIABLES stage, desired, peers, route

Worker == INSTANCE AwgWorker

workerVars == <<stage, desired, peers, route>>
allVars == <<vars, workerVars>>

ASSUME NoPeerAssumption == NoPeer \notin Ids

FleetInit == Init /\ Worker!Init

WorkerStep == Worker!Work /\ UNCHANGED vars
WorkerExit == Worker!Exit /\ UNCHANGED vars

FleetNext ==
  \/ Next /\ UNCHANGED workerVars
  \/ WorkerStep
  \/ WorkerExit

\* The ticker of Run fires every second.
FleetSpec == FleetInit /\ [][FleetNext]_allVars /\ WF_allVars(WorkerStep)

-----------------------------------------------------------------------------

\* Apply never meets a duplicate address, whatever sequence of creations,
\* deletions and protocol changes wrote the file: the check that would stop
\* the worker for good never fires.
WorkerNeverStops == ~Worker!Duplicate

\* The device routes the address of every configured peer to that peer, at
\* every IpcSet: an address that was freed by a deletion and given to a new
\* user is never taken from a peer that is still configured.
PeerOwnsItsAddress ==
  \A u \in Ids : peers[u] # NoAddress => route[peers[u]] = u

\* Nothing else is routed: an address whose peer was revoked leads nowhere.
RouteHasPeer ==
  \A a \in Pool : route[a] # NoPeer => peers[route[a]] = a

\* What the worker may rely on although it never takes Store.mu: the address it
\* read for an id is still that id's, or the id is gone for good.
ReadAddressIsCurrent ==
  \A u \in Ids : \A a \in {peers[u], desired[u]} \ {NoAddress} :
    u \in issued /\ (Known(u) => users[u].awg = a)

\* The device agrees with the file it was last brought to, as far as Apply
\* has come: nobody is moved, and nobody is added before the revoked are gone.
ApplyOrder ==
  /\ \A u, v \in Ids : u # v /\ desired[u] = desired[v] => desired[u] = NoAddress
  /\ \A u \in Ids : NoAddress \notin {peers[u], desired[u]} => peers[u] = desired[u]
  /\ stage = "applying" =>
       \A u \in Ids : peers[u] # NoAddress => desired[u] # NoAddress

\* The inductive invariant of ManagedServerProofs.
FleetInv ==
  /\ StoreInv
  /\ Worker!TypeOK
  /\ PeerOwnsItsAddress
  /\ RouteHasPeer
  /\ ReadAddressIsCurrent
  /\ ApplyOrder

\* As long as an identity exists its address does not change, so the worker
\* never moves a live peer.
AddressIsStable ==
  [][\A u \in Ids : Known(u) /\ users[u].awg # NoAddress /\ users'[u] # NoUser
                      => users'[u].awg = users[u].awg]_allVars

\* A peer that may not use AWG any more leaves the device, although nobody
\* tells the worker.
RevokedPeerRemoved ==
  \A u \in Ids : ~Worker!Enabled(u) ~> (peers[u] = NoAddress \/ Worker!Enabled(u))

\* Unless it keeps failing, the worker configures every peer of the file.
EntitledPeerConfigured ==
  \/ []<><<WorkerExit>>_allVars
  \/ \A u \in Ids :
       Worker!Enabled(u) ~> (~Worker!Enabled(u) \/ peers[u] = disk[u].awg)
=============================================================================
