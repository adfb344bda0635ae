----------------------------- MODULE MultiRouter -----------------------------
(***************************************************************************)
(* mobile/multiple.go with the flow half of mobile/gateway_tun.go: one TUN *)
(* shared by several VPN profiles.  A profile that has a connected Gateway *)
(* has a tunHandler in MultiRouter.profiles; each flow of the TUN picks a  *)
(* handler under MultiRouter.mu, and uses it after the lock is released.   *)
(* Meanwhile the handler may be replaced, paused or stopped.               *)
(*                                                                         *)
(* A Gateway is attached at most once (VpnSession makes a new one for each *)
(* start), so a gateway also names its handler.  The handler of direct     *)
(* sockets exists from the start.                                          *)
(***************************************************************************)
EXTENDS RoutePolicy, FiniteSets

CONSTANTS
  Policies,    \* the rules and DNS profile a router can be created with
  Gateways,    \* the connections that get attached, one handler each
  Flows,       \* the TCP and UDP flows the network stack reports
  MaxFlows,    \* gateway.MaxFlows, the slots of a handler
  NoGateway    \* a profile that has no connection

ASSUME RouterAssumption ==
  /\ MaxFlows \in Nat \ {0}
  /\ Direct \notin Gateways
  /\ NoGateway \notin Profiles \cup Gateways \cup {Direct}
  /\ \A p \in Policies :
       /\ p.rules \in Seq(Rule)
       /\ Valid(p.rules)
       /\ \E i \in DOMAIN p.rules : p.dns = p.rules[i].id

VARIABLES
  policy,      \* policy and dnsProfile, immutable after NewMultiRouter
  profiles,    \* MultiRouter.profiles
  disabled,    \* MultiRouter.disabled
  closed,      \* MultiRouter.closed
  owner,       \* the profile a gateway was attached to
  life,        \* a handler's life, see Lives
  flow         \* where each flow is

routerVars == <<policy, profiles, disabled, closed, owner, life, flow>>

Handlers == Gateways \cup {Direct}

(***************************************************************************)
(* A handler is "new" before SetGateway makes it, "open" while it is in    *)
(* the map, "unlinked" once removed, "cancelled" when its context was      *)
(* cancelled under the lock, "closed" when stop has set h.closed and       *)
(* cancelled it, and "drained" when stop has waited for its flows.         *)
(***************************************************************************)
Lives == {"new", "open", "unlinked", "cancelled", "closed", "drained"}

Cancelled(h) == life[h] \in {"cancelled", "closed", "drained"}
Closed(h) == life[h] \in {"closed", "drained"}

Idle == [phase |-> "idle", via |-> NoGateway, dst |-> Unknown, uid |-> Unknown,
         dns |-> FALSE]

FlowState ==
  {Idle} \cup [phase : {"selected", "dialing", "relaying"}, via : Handlers,
               dst : Nets, uid : Uids, dns : BOOLEAN]

\* A flow that counts in the handler's WaitGroup and holds one of its slots.
Running(f, h) == flow[f].via = h /\ flow[f].phase \in {"dialing", "relaying"}
SlotsOf(h) == {f \in Flows : Running(f, h)}

RouterTypeOK ==
  /\ policy \in Policies
  /\ profiles \in [Profiles \cup {Direct} -> Handlers \cup {NoGateway}]
  /\ disabled \subseteq Profiles
  /\ closed \in BOOLEAN
  /\ owner \in [Handlers -> Profiles \cup {Direct, NoGateway}]
  /\ life \in [Handlers -> Lives]
  /\ flow \in [Flows -> FlowState]

RouterInit ==
  /\ policy \in Policies
  /\ profiles = [p \in Profiles \cup {Direct} |-> IF p = Direct THEN Direct ELSE NoGateway]
  /\ disabled = {}
  /\ closed = FALSE
  /\ owner = [h \in Handlers |-> IF h = Direct THEN Direct ELSE NoGateway]
  /\ life = [h \in Handlers |-> IF h = Direct THEN "open" ELSE "new"]
  /\ flow = [f \in Flows |-> Idle]

-----------------------------------------------------------------------------
(* The owner of the profiles: each operation is one critical section of    *)
(* MultiRouter.mu; what stop does afterwards are steps of their own.       *)

Ruled(p) == \E i \in DOMAIN policy.rules : policy.rules[i].id = p

SetGateway(p, g) ==
  /\ ~closed
  /\ p \notin disabled
  /\ Ruled(p)
  /\ life[g] = "new"
  /\ profiles' = [profiles EXCEPT ![p] = g]
  /\ owner' = [owner EXCEPT ![g] = p]
  /\ life' = [h \in Handlers |-> IF h = g THEN "open"
                                 ELSE IF h = profiles[p] THEN "unlinked" ELSE life[h]]
  /\ UNCHANGED <<policy, disabled, closed, flow>>

EnableProfile(p) ==
  /\ ~closed
  /\ disabled' = disabled \ {p}
  /\ UNCHANGED <<policy, profiles, closed, owner, life, flow>>

DisableProfile(p) ==
  /\ ~closed
  /\ disabled' = disabled \cup {p}
  /\ profiles' = [profiles EXCEPT ![p] = NoGateway]
  /\ life' = [h \in Handlers |-> IF h = profiles[p] THEN "cancelled" ELSE life[h]]
  /\ UNCHANGED <<policy, closed, owner, flow>>

\* removeGateway, once the handler is known to be the profile's own.
Unlink(p) ==
  /\ profiles' = [profiles EXCEPT ![p] = NoGateway]
  /\ life' = [h \in Handlers |-> IF h = profiles[p] THEN "unlinked" ELSE life[h]]
  /\ UNCHANGED <<policy, disabled, closed, owner, flow>>

RemoveGateway(p) == profiles[p] # NoGateway /\ Unlink(p)

DetachGateway(p, g) == profiles[p] = g /\ Unlink(p)

Close ==
  /\ ~closed
  /\ closed' = TRUE
  /\ profiles' = [p \in Profiles \cup {Direct} |-> NoGateway]
  /\ life' = [h \in Handlers |-> IF life[h] = "open" THEN "unlinked" ELSE life[h]]
  /\ UNCHANGED <<policy, disabled, owner, flow>>

\* multiProfile.stop: h.closed and the context, then the wait for the flows.
StopBegins(h) ==
  /\ life[h] \in {"unlinked", "cancelled"}
  /\ life' = [life EXCEPT ![h] = "closed"]
  /\ UNCHANGED <<policy, profiles, disabled, closed, owner, flow>>

StopEnds(h) ==
  /\ life[h] = "closed"
  /\ SlotsOf(h) = {}
  /\ life' = [life EXCEPT ![h] = "drained"]
  /\ UNCHANGED <<policy, profiles, disabled, closed, owner, flow>>

-----------------------------------------------------------------------------
(* The flows.  A refused flow is closed and leaves no trace.               *)

\* selectFlow with a lookup that answers seen: DNS goes to its own profile,
\* and a profile that is missing or stopped is never replaced by another.
Exit(dst, seen, dns) == IF dns THEN policy.dns ELSE Choose(policy.rules, dst, seen)

Ready(p) ==
  /\ p # Blocked
  /\ ~closed
  /\ p \notin disabled
  /\ profiles[p] # NoGateway
  /\ ~Cancelled(profiles[p])

SetFlow(f, state) ==
  /\ flow' = [flow EXCEPT ![f] = state]
  /\ UNCHANGED <<policy, profiles, disabled, closed, owner, life>>

SelectFlow(f, dst, uid, seen, dns) ==
  LET p == Exit(dst, seen, dns)
  IN  /\ flow[f] = Idle
      /\ Ready(p)
      /\ SetFlow(f, [phase |-> "selected", via |-> profiles[p],
                     dst |-> dst, uid |-> uid, dns |-> dns])

\* Slip: the flow joins the WaitGroup without looking at h.closed.
HandleUnchecked(f) ==
  /\ flow[f].phase = "selected"
  /\ Cardinality(SlotsOf(flow[f].via)) < MaxFlows
  /\ SetFlow(f, [flow[f] EXCEPT !.phase = "dialing"])

\* HandleTCP and HandleUDP under h.mu: a slot and a place in the WaitGroup.
Handle(f) ==
  /\ flow[f].phase = "selected"
  /\ ~Closed(flow[f].via)
  /\ Cardinality(SlotsOf(flow[f].via)) < MaxFlows
  /\ SetFlow(f, [flow[f] EXCEPT !.phase = "dialing"])

\* The handler is closed, has no slot left, or its transport cannot carry UDP:
\* the flow is closed.
Refuse(f) == flow[f].phase = "selected" /\ SetFlow(f, Idle)

\* The dial may succeed although its context was cancelled: the request over
\* the new stream looks at its deadline only.
DialSucceeds(f) ==
  /\ flow[f].phase = "dialing"
  /\ SetFlow(f, [flow[f] EXCEPT !.phase = "relaying"])

DialFails(f) == flow[f].phase = "dialing" /\ SetFlow(f, Idle)

\* Either side closes, or the AfterFunc of the handler's context closes both.
RelayEnds(f) == flow[f].phase = "relaying" /\ SetFlow(f, Idle)

-----------------------------------------------------------------------------

Owners ==
  \/ \E p \in Profiles : \/ EnableProfile(p)
                         \/ DisableProfile(p)
                         \/ RemoveGateway(p)
  \/ \E p \in Profiles, g \in Gateways : SetGateway(p, g) \/ DetachGateway(p, g)
  \/ Close

Stops == \E h \in Handlers : StopBegins(h) \/ StopEnds(h)

FlowStep(f) ==
  \/ \E dst \in Nets, uid \in Uids, dns \in BOOLEAN :
       \E seen \in {uid, Unknown} : SelectFlow(f, dst, uid, seen, dns)
  \/ Handle(f) \/ Refuse(f)
  \/ DialSucceeds(f) \/ DialFails(f) \/ RelayEnds(f)

RouterNext == Owners \/ Stops \/ \E f \in Flows : FlowStep(f)

RouterSafe == RouterInit /\ [][RouterNext]_routerVars

-----------------------------------------------------------------------------

\* A flow that was let through runs over the connection of the profile that
\* the documented rules give it, DNS over the DNS profile's: whatever was
\* paused, replaced or not connected meanwhile, and whether or not the owner
\* lookup failed, it never leaves through another profile or directly.
FlowsFollowPolicy ==
  \A f \in Flows : flow[f].phase # "idle" =>
    LET exit == owner[flow[f].via]
    IN  IF flow[f].dns THEN exit = policy.dns
        ELSE RightExit(policy.rules, flow[f].dst, flow[f].uid, exit)

\* When stop returns no goroutine of the handler is left, although the flow
\* looked the handler up before it was unlinked: its place in the WaitGroup
\* cannot come after the wait.
DrainedIsIdle == \A h \in Handlers : life[h] = "drained" => SlotsOf(h) = {}

\* Every handler that nobody has told to stop is the one in the map, so no
\* replaced connection keeps carrying flows out of reach of a later pause.
OpenIsMapped ==
  \A h \in Handlers : life[h] = "open" <=> owner[h] # NoGateway /\ profiles[owner[h]] = h

\* A stopped profile has no connection to route to, nor has a closed router.
PausedHasNoRoute ==
  /\ \A p \in disabled : profiles[p] = NoGateway
  /\ closed => \A p \in DOMAIN profiles : profiles[p] = NoGateway

\* A handler that flows use or that was stopped belongs to a profile for good.
HandlersHaveOwners ==
  /\ owner[Direct] = Direct
  /\ \A p \in Profiles \cup {Direct} :
       profiles[p] # NoGateway => owner[profiles[p]] = p
  /\ \A h \in Gateways : owner[h] \in Profiles \/ (owner[h] = NoGateway /\ life[h] = "new")
  /\ \A h \in Handlers : life[h] = "new" => owner[h] = NoGateway
  /\ \A f \in Flows : flow[f].phase # "idle" => life[flow[f].via] # "new"

\* The inductive invariant of MultiRouterProofs.
RouterInv ==
  /\ RouterTypeOK
  /\ FlowsFollowPolicy
  /\ DrainedIsIdle
  /\ OpenIsMapped
  /\ PausedHasNoRoute
  /\ HandlersHaveOwners

\* The flows of a connection that was paused, replaced or detached all end,
\* and whoever waits in stop gets through.
StoppedHandlersDrain ==
  \A h \in Handlers : []<>(life[h] \notin {"unlinked", "cancelled", "closed"})
=============================================================================
