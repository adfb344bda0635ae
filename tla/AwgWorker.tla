------------------------------ MODULE AwgWorker ------------------------------
(***************************************************************************)
(* The AmneziaWG worker (internal/awgserver/worker.go, run by              *)
(* cmd/awg-server): a process of its own, with no lock in common with the  *)
(* admin server.  Once a second it reads identities.json, which the store  *)
(* replaces atomically, and brings the device to what it read, one IpcSet  *)
(* at a time, while the file goes on changing.                             *)
(*                                                                         *)
(* The model starts after ConfigureAWG has stored the server identity;     *)
(* nothing in the code replaces it after that.                             *)
(***************************************************************************)
EXTENDS Naturals

CONSTANTS
  Ids,         \* one AWG key pair per identity: NewPeer draws fresh keys
  Pool,        \* client addresses
  NoAddress,   \* no peer, or a user without one
  NoUser,      \* an id that is not in the file
  NoPeer       \* an address the device routes to nobody

VARIABLES
  disk,        \* the users of identities.json, written by the store
  expired,     \* ids whose Expires has passed
  stage,       \* where Tick is: "idle", "revoking" or "applying"
  desired,     \* the peers the last read file asks for
  peers,       \* Worker.peers: the address the worker configured for an id
  route        \* the device's allowed-IP table: which peer owns an address

workerVars == <<stage, desired, peers, route>>

TypeOK ==
  /\ stage \in {"idle", "revoking", "applying"}
  /\ desired \in [Ids -> Pool \cup {NoAddress}]
  /\ peers \in [Ids -> Pool \cup {NoAddress}]
  /\ route \in [Pool -> Ids \cup {NoPeer}]

Unconfigured ==
  /\ stage = "idle"
  /\ desired = [u \in Ids |-> NoAddress]
  /\ peers = [u \in Ids |-> NoAddress]
  /\ route = [a \in Pool |-> NoPeer]

Init == Unconfigured

\* awgserver.User.Enabled
Enabled(u) ==
  /\ disk[u] # NoUser
  /\ ~disk[u].disabled
  /\ u \notin expired
  /\ "awg" \in disk[u].protocols
  /\ disk[u].awg # NoAddress

Wanted == [u \in Ids |-> IF Enabled(u) THEN disk[u].awg ELSE NoAddress]

\* Apply refuses a file in which two enabled users have one address.
Duplicate ==
  \E u, v \in Ids : u # v /\ Wanted[u] = Wanted[v] /\ Wanted[u] # NoAddress

\* Tick reads the file and Apply computes the desired set from it.
Tick ==
  /\ stage = "idle"
  /\ ~Duplicate
  /\ desired' = Wanted
  /\ stage' = "revoking"
  /\ UNCHANGED <<peers, route>>

\* Slip: users that are no longer in the file are not looked at.
ToRevokeInFile ==
  {u \in Ids : disk[u] # NoUser /\ peers[u] # NoAddress /\ desired[u] = NoAddress}

ToRevoke == {u \in Ids : peers[u] # NoAddress /\ desired[u] = NoAddress}

\* IpcSet "remove=true": the device forgets the peer and its allowed IPs.
RevokePeer(u) ==
  /\ stage = "revoking"
  /\ u \in ToRevoke
  /\ peers' = [peers EXCEPT ![u] = NoAddress]
  /\ route' = [a \in Pool |-> IF route[a] = u THEN NoPeer ELSE route[a]]
  /\ UNCHANGED <<stage, desired>>

\* Slip: new peers are set before all revoked ones are removed.
RevokingSkipped ==
  /\ stage = "revoking"
  /\ stage' = "applying"
  /\ UNCHANGED <<desired, peers, route>>

RevokingDone ==
  /\ stage = "revoking"
  /\ ToRevoke = {}
  /\ stage' = "applying"
  /\ UNCHANGED <<desired, peers, route>>

\* Slip: only peers that are configured already are brought up to date.
ToUpdate ==
  {u \in Ids : /\ NoAddress \notin {desired[u], peers[u]}
               /\ peers[u] # desired[u]}

ToApply == {u \in Ids : desired[u] # NoAddress /\ peers[u] # desired[u]}

\* IpcSet with replace_allowed_ips: the peer gives up its other addresses and
\* takes this one from whoever had it.
ApplyPeer(u) ==
  /\ stage = "applying"
  /\ u \in ToApply
  /\ peers' = [peers EXCEPT ![u] = desired[u]]
  /\ route' = [a \in Pool |-> IF a = desired[u] THEN u
                              ELSE IF route[a] = u THEN NoPeer ELSE route[a]]
  /\ UNCHANGED <<stage, desired>>

ApplyingDone ==
  /\ stage = "applying"
  /\ ToApply = {}
  /\ stage' = "idle"
  /\ UNCHANGED <<desired, peers, route>>

\* Any error ends Run and the process, and with it the device; so does a
\* crash.  systemd starts the worker again with an empty device.
Exit ==
  /\ stage' = "idle"
  /\ desired' = [u \in Ids |-> NoAddress]
  /\ peers' = [u \in Ids |-> NoAddress]
  /\ route' = [a \in Pool |-> NoPeer]

Work ==
  \/ Tick
  \/ \E u \in Ids : RevokePeer(u) \/ ApplyPeer(u)
  \/ RevokingDone
  \/ ApplyingDone
=============================================================================
