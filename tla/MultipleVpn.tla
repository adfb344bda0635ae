----------------------------- MODULE MultipleVpn -----------------------------
(***************************************************************************)
(* MultipleVpnController.kt over MultiRouter, with the start and the end   *)
(* of the VpnSession.kt it makes for each profile.  The controller runs on *)
(* Android's main thread; each session has a worker thread of its own that *)
(* connects, attaches the Gateway to the router and detaches it, and posts *)
(* its failures back to the main thread.                                   *)
(*                                                                         *)
(* A generation number is taken for the session that was started with it;  *)
(* the numbers a pause takes belong to no session.  A session attaches at  *)
(* most one Gateway: once alive it migrates or reconnects that one.        *)
(***************************************************************************)
EXTENDS MultiRouter

VARIABLES
  current,     \* sessions and generations: the session a profile has now
  paused,      \* profiles the user has stopped
  starting,    \* profiles whose session was asked to start
  down,        \* MultipleVpnController.closed
  session      \* the VpnSession that owns each gateway

vpnVars == <<routerVars, current, paused, starting, down, session>>
controllerVars == <<current, paused, starting, down>>

(***************************************************************************)
(* at: where the worker is.  "attaching" is past the generation check and  *)
(* before setGateway; in "replacing" and "detaching" it waits in stop for  *)
(* the flows of the handler "waits".  failed: operation_failed was posted. *)
(***************************************************************************)
Session ==
  [at : {"none", "idle", "connecting", "attaching", "replacing", "detaching", "gone"},
   profile : Profiles \cup {NoGateway}, waits : Handlers \cup {NoGateway},
   task : BOOLEAN, alive : BOOLEAN, closed : BOOLEAN, failed : BOOLEAN]

Unused ==
  [at |-> "none", profile |-> NoGateway, waits |-> NoGateway,
   task |-> FALSE, alive |-> FALSE, closed |-> FALSE, failed |-> FALSE]

Started(p) == [Unused EXCEPT !.at = "idle", !.profile = p]

VpnTypeOK ==
  /\ RouterTypeOK
  /\ current \in [Profiles -> Gateways \cup {NoGateway}]
  /\ paused \subseteq Profiles
  /\ starting \subseteq Profiles
  /\ down \in BOOLEAN
  /\ session \in [Gateways -> Session]

\* The constructor starts a session for every profile.
VpnInit ==
  /\ RouterInit
  /\ current \in [Profiles -> Gateways]
  /\ \A p, q \in Profiles : p # q => current[p] # current[q]
  /\ paused = {}
  /\ starting = {}
  /\ down = FALSE
  /\ session = [s \in Gateways |->
                  IF \E p \in Profiles : current[p] = s
                  THEN Started(CHOOSE p \in Profiles : current[p] = s)
                  ELSE Unused]

SetSession(s, state) == session' = [session EXCEPT ![s] = state]

-----------------------------------------------------------------------------
(* The main thread.                                                        *)

\* A network became available, or the 5 s loop found a profile to start.
Request(p) ==
  /\ ~down
  /\ p \notin paused \cup starting
  /\ starting' = starting \cup {p}
  /\ SetSession(current[p], [session[current[p]] EXCEPT !.task = TRUE])
  /\ UNCHANGED <<routerVars, current, paused, down>>

\* move: every running profile is asked to start or to change its network.
Move ==
  /\ ~down
  /\ session' = [s \in Gateways |->
                   IF \E p \in Profiles \ paused : current[p] = s
                   THEN [session[s] EXCEPT !.task = TRUE] ELSE session[s]]
  /\ UNCHANGED <<routerVars, controllerVars>>

\* Slip: the pause relies on the generation alone to keep the session out.
PauseByGeneration(p) ==
  /\ ~down
  /\ p \notin paused
  /\ paused' = paused \cup {p}
  /\ RemoveGateway(p) \/ (profiles[p] = NoGateway /\ UNCHANGED routerVars)
  /\ current' = [current EXCEPT ![p] = NoGateway]
  /\ starting' = starting \ {p}
  /\ SetSession(current[p], [session[current[p]] EXCEPT !.closed = TRUE])
  /\ UNCHANGED down

\* toggle of a running profile.
Pause(p) ==
  /\ ~down
  /\ p \notin paused
  /\ paused' = paused \cup {p}
  /\ DisableProfile(p)
  /\ current' = [current EXCEPT ![p] = NoGateway]
  /\ starting' = starting \ {p}
  /\ SetSession(current[p], [session[current[p]] EXCEPT !.closed = TRUE])
  /\ UNCHANGED down

\* toggle of a stopped profile: a session that was never used before.
Resume(p, s) ==
  /\ ~down
  /\ p \in paused
  /\ session[s].at = "none"
  /\ paused' = paused \ {p}
  /\ EnableProfile(p)
  /\ starting' = starting \ {p}
  /\ current' = [current EXCEPT ![p] = s]
  /\ SetSession(s, Started(p))
  /\ UNCHANGED down

\* close: the posted messages are dropped; the router is closed by a thread.
Shutdown ==
  /\ ~down
  /\ down' = TRUE
  /\ session' = [s \in Gateways |->
                   [session[s] EXCEPT !.failed = FALSE,
                      !.closed = @ \/ \E p \in Profiles : current[p] = s]]
  /\ UNCHANGED <<routerVars, current, paused, starting>>

CloseRouter ==
  /\ down
  /\ Close
  /\ UNCHANGED <<controllerVars, session>>

\* Slip: a failed start is reported and not tried again.
FailureOnlyShown(s) ==
  /\ ~down
  /\ session[s].failed
  /\ SetSession(s, [session[s] EXCEPT !.failed = FALSE])
  /\ UNCHANGED <<routerVars, current, paused, starting, down>>

\* The event "operation_failed" arrives: the 5 s loop may start the profile
\* again, unless the event is from a session that was replaced.
HandleFailure(s) ==
  /\ ~down
  /\ session[s].failed
  /\ SetSession(s, [session[s] EXCEPT !.failed = FALSE])
  /\ starting' = {p \in starting : current[p] # s}
  /\ UNCHANGED <<routerVars, current, paused, down>>

-----------------------------------------------------------------------------
(* The worker thread of a session.                                         *)

Fail(s) ==
  SetSession(s, [session[s] EXCEPT !.at = "idle",
                                   !.failed = @ \/ (~session[s].closed /\ ~down)])

\* startOrMigrate of a session that is not connected: what is left of an
\* earlier attempt was never attached, so stopInternal changes no route.
BeginStart(s) ==
  /\ session[s].at = "idle" /\ session[s].task
  /\ ~session[s].closed /\ ~session[s].alive
  /\ SetSession(s, [session[s] EXCEPT !.task = FALSE, !.at = "connecting"])
  /\ UNCHANGED <<routerVars, controllerVars>>

\* startOrMigrate of a connected session: the Gateway stays where it is.
MigrateOrFail(s) ==
  /\ session[s].at = "idle" /\ session[s].task
  /\ ~session[s].closed /\ session[s].alive
  /\ \E bad \in BOOLEAN :
       SetSession(s, [session[s] EXCEPT !.task = FALSE, !.failed = @ \/ (bad /\ ~down)])
  /\ UNCHANGED <<routerVars, controllerVars>>

\* No network, an unresolved name, a failed handshake.
StartFails(s) ==
  /\ session[s].at = "connecting"
  /\ Fail(s)
  /\ UNCHANGED <<routerVars, controllerVars>>

\* Gateway.start returned; "attached" looks at the generation.
StartSucceeds(s) ==
  /\ session[s].at = "connecting"
  /\ IF ~down /\ current[session[s].profile] = s
     THEN SetSession(s, [session[s] EXCEPT !.at = "attaching"])
     ELSE Fail(s)
  /\ UNCHANGED <<routerVars, controllerVars>>

Attach(s) ==
  /\ session[s].at = "attaching"
  /\ SetGateway(session[s].profile, s)
  /\ SetSession(s, [session[s] EXCEPT !.at = "replacing",
                                      !.waits = profiles[session[s].profile]])
  /\ UNCHANGED controllerVars

AttachRefused(s) ==
  /\ session[s].at = "attaching"
  /\ closed \/ session[s].profile \in disabled
  /\ Fail(s)
  /\ UNCHANGED <<routerVars, controllerVars>>

\* setGateway has stopped the handler it replaced.
Attached(s) ==
  /\ session[s].at = "replacing"
  /\ session[s].waits # NoGateway => life[session[s].waits] = "drained"
  /\ SetSession(s, [session[s] EXCEPT !.at = "idle", !.waits = NoGateway, !.alive = TRUE])
  /\ UNCHANGED <<routerVars, controllerVars>>

\* Slip: close stops the gateway of a connected session only.
CloseSessionIfAlive(s) ==
  /\ session[s].at = "idle" /\ session[s].closed /\ session[s].alive
  /\ SetSession(s, [session[s] EXCEPT !.at = "detaching", !.alive = FALSE, !.task = FALSE])
  /\ \/ DetachGateway(session[s].profile, s)
     \/ profiles[session[s].profile] # s /\ UNCHANGED routerVars
  /\ UNCHANGED controllerVars

\* Slip: the gateway is stopped and left in the router.
CloseSessionKeepsRoute(s) ==
  /\ session[s].at = "idle" /\ session[s].closed
  /\ SetSession(s, [session[s] EXCEPT !.at = "gone", !.alive = FALSE, !.task = FALSE])
  /\ UNCHANGED <<routerVars, controllerVars>>

\* stopInternal, the last task of a closed session: it takes its own Gateway
\* out of the router, if it is there, and waits for the flows.
CloseSession(s) ==
  /\ session[s].at = "idle" /\ session[s].closed
  /\ SetSession(s, [session[s] EXCEPT !.at = "detaching", !.alive = FALSE, !.task = FALSE,
       !.waits = IF profiles[session[s].profile] = s THEN s ELSE NoGateway])
  /\ \/ DetachGateway(session[s].profile, s)
     \/ profiles[session[s].profile] # s /\ UNCHANGED routerVars
  /\ UNCHANGED controllerVars

\* Gateway.stop, and the worker ends.
Detached(s) ==
  /\ session[s].at = "detaching"
  /\ session[s].waits # NoGateway => life[session[s].waits] = "drained"
  /\ SetSession(s, [session[s] EXCEPT !.at = "gone", !.waits = NoGateway])
  /\ UNCHANGED <<routerVars, controllerVars>>

-----------------------------------------------------------------------------

Work(s) ==
  \/ BeginStart(s) \/ MigrateOrFail(s)
  \/ StartFails(s) \/ StartSucceeds(s)
  \/ Attach(s) \/ AttachRefused(s) \/ Attached(s)
  \/ CloseSession(s) \/ Detached(s)

Main ==
  \/ \E p \in Profiles : Request(p) \/ Pause(p)
  \/ \E p \in Profiles, s \in Gateways : Resume(p, s)
  \/ \E s \in Gateways : HandleFailure(s)
  \/ Move
  \/ Shutdown
  \/ CloseRouter

Traffic ==
  /\ Stops \/ \E f \in Flows : FlowStep(f)
  /\ UNCHANGED <<controllerVars, session>>

VpnNext == Main \/ (\E s \in Gateways : Work(s)) \/ Traffic

(***************************************************************************)
(* Threads run and the 5 s timer fires.  The user owes nothing; a network  *)
(* is there, and a start that is tried again and again is not refused for  *)
(* ever.                                                                   *)
(* In the router stop goes on, a dial ends by its deadline, and a relay    *)
(* whose context was cancelled ends; nothing makes a live relay end.       *)
(***************************************************************************)
VpnFairness ==
  /\ \A s \in Gateways : /\ WF_vpnVars(Work(s))
                         /\ SF_vpnVars(StartSucceeds(s))
                         /\ WF_vpnVars(HandleFailure(s))
  /\ \A p \in Profiles : WF_vpnVars(Request(p))
  /\ WF_vpnVars(CloseRouter)
  /\ \A h \in Handlers : WF_vpnVars((StopBegins(h) \/ StopEnds(h)) /\ Traffic)
  /\ \A f \in Flows :
       WF_vpnVars(/\ \/ Handle(f) \/ Refuse(f) \/ DialSucceeds(f) \/ DialFails(f)
                     \/ flow[f].via \in Handlers /\ Cancelled(flow[f].via) /\ RelayEnds(f)
                  /\ Traffic)

VpnSafe == VpnInit /\ [][VpnNext]_vpnVars
VpnSpec == VpnSafe /\ VpnFairness

-----------------------------------------------------------------------------

\* A profile the user has stopped has no route, even when its session was past
\* the generation check when the pause came and attaches afterwards.
PausedIsUnrouted ==
  \A p \in paused : profiles[p] = NoGateway /\ (~closed => p \in disabled)

\* A Gateway that was stopped is not in the router, however its attachment and
\* the shutdown were interleaved: no flow is sent into a dead transport.
GoneIsUnrouted ==
  \A s \in Gateways : session[s].at = "gone" =>
    /\ life[s] # "open"
    /\ \A p \in Profiles : profiles[p] # s

\* A running profile has a session, and a gateway is attached to the profile
\* of the session that made it.
SessionsHaveProfiles ==
  /\ \A p \in Profiles : p \in paused <=> current[p] = NoGateway
  /\ \A s \in Gateways :
       /\ session[s].at # "none" => session[s].profile \in Profiles
       /\ session[s].at = "none" => life[s] = "new"
       /\ owner[s] # NoGateway => owner[s] = session[s].profile

\* A session that connects has never been attached, and one that is being
\* closed has left the router: a Gateway is attached once.
AttachedOnce ==
  \A s \in Gateways :
    /\ session[s].at \in {"connecting", "attaching"} =>
         ~session[s].alive /\ life[s] = "new"
    /\ session[s].at = "idle" /\ ~session[s].alive => life[s] = "new"
    /\ session[s].at \in {"detaching", "gone"} => life[s] # "open"

\* The inductive invariant of MultipleVpnProofs.
VpnInv ==
  /\ VpnTypeOK
  /\ RouterInv
  /\ PausedIsUnrouted
  /\ GoneIsUnrouted
  /\ SessionsHaveProfiles
  /\ AttachedOnce

\* Once nothing of an earlier session is left, a connected session that is
\* the profile's own is the one its flows are routed to.
AliveIsRouted ==
  \A p \in Profiles \ paused :
    LET mine == current[p]
        others == {s \in Gateways \ {mine} : session[s].profile = p}
    IN  /\ ~down
        /\ session[mine].alive
        /\ \A s \in others : session[s].at = "gone"
        => profiles[p] = mine

\* The worker of a closed session gets to the end: it does not wait for ever
\* for a flow, for the router or for another session, and neither does anybody
\* else who waits in stop.
ClosedSessionsEnd ==
  /\ \A s \in Gateways : []<>(session[s].closed => session[s].at = "gone")
  /\ StoppedHandlersDrain

\* A profile that keeps running is connected in the end: after each failure
\* the 5 s loop starts it again. (Its route may be missing all the same:
\* AliveIsRouted.)
RunningIsConnected ==
  \A p \in Profiles :
    []<>(down \/ p \in paused \/ profiles[p] # NoGateway \/ session[current[p]].alive)
=============================================================================
