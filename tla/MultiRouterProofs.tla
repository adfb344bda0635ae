-------------------------- MODULE MultiRouterProofs --------------------------
(***************************************************************************)
(* The router is fail-closed and its handlers are accounted for, for every *)
(* set of rules, profiles, connections and flows and for every caller.     *)
(***************************************************************************)
EXTENDS MultiRouter, NaturalsInduction, WellFoundedInduction, TLAPS

\* If some rule decides then one decides first, so the loop of Choose returns
\* at the rule that FirstDeciding names.
LEMMA FirstExists ==
  ASSUME NEW rules \in Seq(Rule), NEW dst, NEW uid,
         \E i \in DOMAIN rules : Decides(rules[i], dst, uid)
  PROVE  LET k == FirstDeciding(rules, dst, uid)
         IN  /\ k \in DOMAIN rules
             /\ Decides(rules[k], dst, uid)
             /\ \A j \in 1 .. k - 1 : ~Decides(rules[j], dst, uid)
<1> DEFINE T == {i \in DOMAIN rules : Decides(rules[i], dst, uid)}
<1>1. T \subseteq Nat /\ T # {} /\ DOMAIN rules = 1 .. Len(rules) /\ Len(rules) \in Nat
  OBVIOUS
<1>2. IsWellFoundedOn(OpToRel(<, Nat), Nat)
  BY NatLessThanWellFounded
<1>3. \E x \in T : \A y \in T : ~ (<<y, x>> \in OpToRel(<, Nat))
  <2> HIDE DEF T
  <2> QED BY <1>1, <1>2, WFMin
<1>4. PICK x \in T : \A y \in T : ~ (<<y, x>> \in OpToRel(<, Nat))
  BY <1>3
<1>5. \A y \in T : ~ (y < x)
  BY <1>1, <1>4 DEF OpToRel
<1>6. \A j \in 1 .. x - 1 : ~Decides(rules[j], dst, uid)
  BY <1>1, <1>5
<1> QED BY <1>6 DEF FirstDeciding

\* A rule that decides, with the owner known where the rule asks for it, is a
\* rule that matches; a rule that does not decide does not match.
LEMMA DecidesIsMatches ==
  ASSUME NEW rule \in Rule, NEW dst, NEW uid \in Uids, NEW seen \in {uid, Unknown}
  PROVE  /\ ~Decides(rule, dst, seen) => ~Matches(rule, dst, uid)
         /\ Decides(rule, dst, seen) /\ ~(NeedsUid(rule) /\ seen = Unknown)
              => Matches(rule, dst, uid)
<1>1. rule.mode \in Modes /\ uid # Unknown
  BY RouteAssumption DEF Rule
<1>2. CASE rule.mode = "all"
  BY <1>1, <1>2 DEF Decides, Matches
<1>3. CASE rule.mode = "subnets"
  BY <1>1, <1>3 DEF Decides, Matches, NeedsUid
<1>4. CASE rule.mode = "apps"
  BY <1>1, <1>4 DEF Decides, Matches, NeedsUid
<1>5. CASE rule.mode = "exclude"
  BY <1>1, <1>5 DEF Decides, Matches, NeedsUid
<1> QED BY <1>1, <1>2, <1>3, <1>4, <1>5 DEF Modes

\* Whatever the owner lookup answers, its own UID or nothing, Choose refuses
\* the flow or gives it the exit of the first rule that really matches.
THEOREM UnknownOwnerNeverBypasses ==
  ASSUME NEW rules \in Seq(Rule), NEW dst \in Nets, NEW uid \in Uids,
         NEW seen \in {uid, Unknown}, Choose(rules, dst, seen) # Blocked
  PROVE  RightExit(rules, dst, uid, Choose(rules, dst, seen))
<1>1. \A i \in DOMAIN rules : rules[i] \in Rule
  OBVIOUS
<1>2. CASE \A i \in DOMAIN rules : ~Decides(rules[i], dst, seen)
  <2>1. Choose(rules, dst, seen) = Direct
    BY <1>2 DEF Choose
  <2>2. \A i \in DOMAIN rules : ~Matches(rules[i], dst, uid)
    BY <1>1, <1>2, DecidesIsMatches
  <2> QED BY <2>1, <2>2 DEF RightExit
<1>3. CASE \E i \in DOMAIN rules : Decides(rules[i], dst, seen)
  <2> DEFINE k == FirstDeciding(rules, dst, seen)
  <2>1. /\ k \in DOMAIN rules
        /\ Decides(rules[k], dst, seen)
        /\ \A j \in 1 .. k - 1 : ~Decides(rules[j], dst, seen)
    BY <1>3, FirstExists
  <2>2. /\ ~(NeedsUid(rules[k]) /\ seen = Unknown)
        /\ Choose(rules, dst, seen) = rules[k].id
    BY <1>3 DEF Choose
  <2> HIDE DEF k
  <2>3. Matches(rules[k], dst, uid)
    BY <1>1, <2>1, <2>2, DecidesIsMatches
  <2>4. \A j \in 1 .. k - 1 : j \in DOMAIN rules
    BY <2>1
  <2>5. \A j \in 1 .. k - 1 : ~Matches(rules[j], dst, uid)
    BY <1>1, <2>1, <2>4, DecidesIsMatches
  <2> QED BY <2>1, <2>2, <2>3, <2>5 DEF RightExit
<1> QED BY <1>2, <1>3

-----------------------------------------------------------------------------
\* A new router has the invariant.
LEMMA RouterInitInv == RouterInit => RouterInv
<1> SUFFICES ASSUME RouterInit PROVE RouterInv
  OBVIOUS
<1>1. \A f \in Flows : flow[f].phase = "idle" /\ flow[f].via = NoGateway
  BY DEF RouterInit, Idle
<1>2. RouterTypeOK
  BY DEF RouterInit, RouterTypeOK, Handlers, Lives, FlowState
<1>3. FlowsFollowPolicy
  BY <1>1 DEF FlowsFollowPolicy
<1>4. DrainedIsIdle
  BY DEF RouterInit, DrainedIsIdle
<1>5. OpenIsMapped
  BY RouterAssumption DEF RouterInit, OpenIsMapped, Handlers
<1>6. PausedHasNoRoute
  BY DEF RouterInit, PausedHasNoRoute
<1>7. HandlersHaveOwners
  BY <1>1, RouterAssumption, RouteAssumption DEF RouterInit, HandlersHaveOwners, Handlers
<1> QED BY <1>2, <1>3, <1>4, <1>5, <1>6, <1>7 DEF RouterInv

\* A flow that is not idle has a handler that was attached, and its request.
LEMMA FlowFacts ==
  ASSUME RouterInv, NEW f \in Flows, flow[f].phase # "idle"
  PROVE  /\ flow[f] \in [phase : {"selected", "dialing", "relaying"}, via : Handlers,
                         dst : Nets, uid : Uids, dns : BOOLEAN]
         /\ flow[f].via \in Handlers
         /\ life[flow[f].via] # "new"
<1>1. flow[f] \in FlowState /\ flow[f] # Idle
  BY DEF RouterInv, RouterTypeOK, Idle
<1> QED BY <1>1 DEF FlowState, RouterInv, HandlersHaveOwners

\* What an operation of the profiles' owner leaves alone: the flows keep their
\* exits as long as no attached handler changes hands.
LEMMA ExitsKept ==
  ASSUME RouterInv, UNCHANGED <<policy, flow>>,
         \A h \in Handlers : life[h] # "new" => owner'[h] = owner[h]
  PROVE  FlowsFollowPolicy'
<1> SUFFICES ASSUME NEW f \in Flows, flow[f].phase # "idle"
             PROVE  LET exit == owner'[flow[f].via]
                    IN  IF flow[f].dns THEN exit = policy.dns
                        ELSE RightExit(policy.rules, flow[f].dst, flow[f].uid, exit)
  BY DEF FlowsFollowPolicy
<1>1. owner'[flow[f].via] = owner[flow[f].via]
  BY FlowFacts
<1> QED BY <1>1 DEF RouterInv, FlowsFollowPolicy

\* SetGateway puts a handler nobody has used in place of the profile's own.
LEMMA SetGatewayInv ==
  ASSUME RouterInv, NEW p \in Profiles, NEW g \in Gateways, SetGateway(p, g)
  PROVE  RouterInv'
<1> USE RouterAssumption, RouteAssumption
<1>1. /\ ~closed /\ p \notin disabled /\ life[g] = "new"
      /\ profiles' = [profiles EXCEPT ![p] = g]
      /\ owner' = [owner EXCEPT ![g] = p]
      /\ life' = [h \in Handlers |-> IF h = g THEN "open"
                                     ELSE IF h = profiles[p] THEN "unlinked" ELSE life[h]]
      /\ policy' = policy /\ disabled' = disabled /\ closed' = closed /\ flow' = flow
  BY DEF SetGateway
<1>2. g \in Handlers /\ g # NoGateway /\ g # Direct
  BY DEF Handlers
<1>t. RouterTypeOK
  BY DEF RouterInv
<1>3. RouterTypeOK'
  BY <1>1, <1>2, <1>t DEF RouterTypeOK, Lives
<1>4. \A h \in Handlers : life[h] # "new" => owner'[h] = owner[h]
  BY <1>1, <1>t DEF RouterTypeOK
<1>5. FlowsFollowPolicy'
  BY <1>1, <1>4, ExitsKept
<1>6. \A h \in Handlers : life'[h] = "drained" => life[h] = "drained"
  BY <1>1
<1>7. DrainedIsIdle'
  BY <1>1, <1>6 DEF RouterInv, DrainedIsIdle, SlotsOf, Running
<1>8. OpenIsMapped'
  BY <1>1, <1>2, <1>t DEF RouterInv, RouterTypeOK, OpenIsMapped, HandlersHaveOwners, Handlers
<1>9. PausedHasNoRoute'
  BY <1>1, <1>t DEF RouterInv, RouterTypeOK, PausedHasNoRoute
<1>10. HandlersHaveOwners'
  <2>1. /\ owner'[Direct] = Direct
        /\ \A q \in Profiles \cup {Direct} :
             profiles'[q] # NoGateway => owner'[profiles'[q]] = q
    BY <1>1, <1>2, <1>t DEF RouterInv, RouterTypeOK, HandlersHaveOwners, Handlers
  <2>2. /\ \A h \in Gateways :
             owner'[h] \in Profiles \/ (owner'[h] = NoGateway /\ life'[h] = "new")
        /\ \A h \in Handlers : life'[h] = "new" => owner'[h] = NoGateway
    BY <1>1, <1>2, <1>t DEF RouterInv, RouterTypeOK, HandlersHaveOwners, Handlers
  <2>3. \A h \in Handlers : life[h] # "new" => life'[h] # "new"
    BY <1>1
  <2>4. \A f \in Flows : flow'[f].phase # "idle" => life'[flow'[f].via] # "new"
    BY <1>1, <2>3, FlowFacts
  <2> QED BY <2>1, <2>2, <2>4 DEF HandlersHaveOwners
<1> QED BY <1>3, <1>5, <1>7, <1>8, <1>9, <1>10 DEF RouterInv

\* Pausing and detaching take a profile's handler out of the map.
LEMMA UnlinkInv ==
  ASSUME RouterInv, NEW p \in Profiles, NEW to \in {"cancelled", "unlinked"},
         profiles' = [profiles EXCEPT ![p] = NoGateway],
         life' = [h \in Handlers |-> IF h = profiles[p] THEN to ELSE life[h]],
         disabled' \subseteq disabled \cup {p},
         UNCHANGED <<policy, closed, owner, flow>>
  PROVE  RouterInv'
<1> USE RouterAssumption, RouteAssumption
<1>t. RouterTypeOK
  BY DEF RouterInv
<1>1. RouterTypeOK'
  BY <1>t DEF RouterTypeOK, Lives
<1>2. FlowsFollowPolicy'
  BY ExitsKept
<1>3. \A h \in Handlers : life'[h] = "drained" => life[h] = "drained"
  OBVIOUS
<1>4. DrainedIsIdle'
  BY <1>3 DEF RouterInv, DrainedIsIdle, SlotsOf, Running
<1>5. OpenIsMapped'
  BY <1>t DEF RouterInv, RouterTypeOK, OpenIsMapped, HandlersHaveOwners, Handlers
<1>6. PausedHasNoRoute'
  BY <1>t DEF RouterInv, RouterTypeOK, PausedHasNoRoute
<1>7. \A h \in Handlers : life'[h] = "new" <=> life[h] = "new"
  BY <1>t DEF RouterInv, RouterTypeOK, HandlersHaveOwners, Handlers
<1>8. \A f \in Flows : flow'[f].phase # "idle" => life'[flow'[f].via] # "new"
  BY <1>7, FlowFacts
<1>9. HandlersHaveOwners'
  BY <1>t, <1>7, <1>8 DEF RouterInv, RouterTypeOK, HandlersHaveOwners, Handlers
<1> QED BY <1>1, <1>2, <1>4, <1>5, <1>6, <1>9 DEF RouterInv

\* The other operations of the owner, and stop.
LEMMA OwnersInv == RouterInv /\ Owners => RouterInv'
<1> SUFFICES ASSUME RouterInv, Owners PROVE RouterInv'
  OBVIOUS
<1> USE RouterAssumption, RouteAssumption
<1>t. RouterTypeOK
  BY DEF RouterInv
<1>1. ASSUME NEW p \in Profiles, NEW g \in Gateways, SetGateway(p, g) PROVE RouterInv'
  BY <1>1, SetGatewayInv
<1>2. ASSUME NEW p \in Profiles, EnableProfile(p) PROVE RouterInv'
  <2>1. /\ disabled' \subseteq disabled
        /\ UNCHANGED <<policy, profiles, closed, owner, life, flow>>
    BY <1>2 DEF EnableProfile
  <2>2. RouterTypeOK'
    BY <1>t, <2>1 DEF RouterTypeOK
  <2>3. FlowsFollowPolicy'
    BY <2>1, ExitsKept
  <2>4. DrainedIsIdle' /\ OpenIsMapped' /\ HandlersHaveOwners'
    BY <2>1 DEF RouterInv, DrainedIsIdle, SlotsOf, Running, OpenIsMapped, HandlersHaveOwners
  <2>5. PausedHasNoRoute'
    BY <2>1 DEF RouterInv, PausedHasNoRoute
  <2> QED BY <2>2, <2>3, <2>4, <2>5 DEF RouterInv
<1>3. ASSUME NEW p \in Profiles, DisableProfile(p) PROVE RouterInv'
  BY <1>3, UnlinkInv DEF DisableProfile
<1>4. ASSUME NEW p \in Profiles, Unlink(p) PROVE RouterInv'
  BY <1>4, UnlinkInv DEF Unlink
<1>5. CASE Close
  <2>1. /\ closed' = TRUE
        /\ profiles' = [q \in Profiles \cup {Direct} |-> NoGateway]
        /\ life' = [h \in Handlers |-> IF life[h] = "open" THEN "unlinked" ELSE life[h]]
        /\ UNCHANGED <<policy, disabled, owner, flow>>
    BY <1>5 DEF Close
  <2>2. RouterTypeOK'
    BY <1>t, <2>1 DEF RouterTypeOK, Lives
  <2>3. FlowsFollowPolicy'
    BY <2>1, ExitsKept
  <2>4. \A h \in Handlers : /\ life'[h] = "drained" => life[h] = "drained"
                            /\ life'[h] # "open"
                            /\ life'[h] = "new" <=> life[h] = "new"
    BY <2>1
  <2>5. DrainedIsIdle'
    BY <2>1, <2>4 DEF RouterInv, DrainedIsIdle, SlotsOf, Running
  <2>6. OpenIsMapped'
    BY <1>t, <2>1, <2>4 DEF RouterTypeOK, OpenIsMapped, Handlers
  <2>7. PausedHasNoRoute'
    BY <1>t, <2>1 DEF RouterTypeOK, PausedHasNoRoute
  <2>8. \A f \in Flows : flow'[f].phase # "idle" => life'[flow'[f].via] # "new"
    BY <2>1, <2>4, FlowFacts
  <2>9. HandlersHaveOwners'
    BY <2>1, <2>4, <2>8 DEF RouterInv, HandlersHaveOwners, Handlers
  <2> QED BY <2>2, <2>3, <2>5, <2>6, <2>7, <2>9 DEF RouterInv
<1> QED
  BY <1>1, <1>2, <1>3, <1>4, <1>5 DEF Owners, RemoveGateway, DetachGateway

\* stop moves a handler on only when no flow of its is left behind.
LEMMA StopsInv == RouterInv /\ Stops => RouterInv'
<1> SUFFICES ASSUME RouterInv, NEW h \in Handlers, StopBegins(h) \/ StopEnds(h)
             PROVE  RouterInv'
  BY DEF Stops
<1> USE RouterAssumption
<1>t. RouterTypeOK
  BY DEF RouterInv
<1>1. PICK to \in {"closed", "drained"} :
        /\ life[h] \in {"unlinked", "cancelled", "closed"}
        /\ to = "drained" => SlotsOf(h) = {}
        /\ life' = [life EXCEPT ![h] = to]
        /\ UNCHANGED <<policy, profiles, disabled, closed, owner, flow>>
  BY DEF StopBegins, StopEnds
<1>2. RouterTypeOK'
  BY <1>t, <1>1 DEF RouterTypeOK, Lives
<1>3. FlowsFollowPolicy' /\ PausedHasNoRoute'
  BY <1>1, ExitsKept DEF RouterInv, PausedHasNoRoute
<1>4. \A k \in Handlers : /\ life'[k] = "new" <=> life[k] = "new"
                          /\ life'[k] = "open" <=> life[k] = "open"
                          /\ life'[k] = "drained" => life[k] = "drained" \/ SlotsOf(k) = {}
  BY <1>t, <1>1 DEF RouterTypeOK
<1>5. \A k \in Handlers : SlotsOf(k)' = SlotsOf(k)
  BY <1>1 DEF SlotsOf, Running
<1>6. DrainedIsIdle'
  BY <1>4, <1>5 DEF RouterInv, DrainedIsIdle
<1>7. OpenIsMapped'
  BY <1>1, <1>4 DEF RouterInv, OpenIsMapped
<1>8. \A f \in Flows : flow'[f].phase # "idle" => life'[flow'[f].via] # "new"
  BY <1>1, <1>4, FlowFacts
<1>9. HandlersHaveOwners'
  BY <1>1, <1>4, <1>8 DEF RouterInv, HandlersHaveOwners, Handlers
<1> QED BY <1>2, <1>3, <1>6, <1>7, <1>9 DEF RouterInv

\* A step of a flow changes that flow only; what is left to show of it is that
\* its new state is a good one.
LEMMA FlowInv ==
  ASSUME RouterInv, NEW f \in Flows, NEW state \in FlowState, SetFlow(f, state),
         state.phase # "idle" =>
           /\ life[state.via] # "new"
           /\ IF state.dns THEN owner[state.via] = policy.dns
              ELSE RightExit(policy.rules, state.dst, state.uid, owner[state.via])
           /\ state.phase # "selected" => life[state.via] # "drained"
  PROVE  RouterInv'
<1>t. RouterTypeOK
  BY DEF RouterInv
<1>1. /\ flow' = [flow EXCEPT ![f] = state]
      /\ UNCHANGED <<policy, profiles, disabled, closed, owner, life>>
  BY DEF SetFlow
<1>2. flow'[f] = state /\ \A e \in Flows \ {f} : flow'[e] = flow[e]
  BY <1>t, <1>1 DEF RouterTypeOK
<1>3. RouterTypeOK'
  BY <1>t, <1>1 DEF RouterTypeOK
<1>4. FlowsFollowPolicy'
  BY <1>1, <1>2 DEF RouterInv, FlowsFollowPolicy
<1>5. state = Idle \/ state.phase \in {"selected", "dialing", "relaying"}
  BY DEF FlowState
<1>6. DrainedIsIdle'
  <2> SUFFICES ASSUME NEW h \in Handlers, life[h] = "drained", NEW e \in Flows,
                      flow'[e].via = h, flow'[e].phase \in {"dialing", "relaying"}
               PROVE  FALSE
    BY <1>1 DEF DrainedIsIdle, SlotsOf, Running
  <2>1. CASE e = f
    BY <1>2, <1>5, <2>1
  <2>2. CASE e # f
    BY <1>2, <2>2 DEF RouterInv, DrainedIsIdle, SlotsOf, Running
  <2> QED BY <2>1, <2>2
<1>7. OpenIsMapped' /\ PausedHasNoRoute'
  BY <1>1 DEF RouterInv, OpenIsMapped, PausedHasNoRoute
<1>8. \A e \in Flows : flow'[e].phase # "idle" => life'[flow'[e].via] # "new"
  BY <1>1, <1>2 DEF RouterInv, HandlersHaveOwners
<1>9. HandlersHaveOwners'
  BY <1>1, <1>8 DEF RouterInv, HandlersHaveOwners
<1> QED BY <1>3, <1>4, <1>6, <1>7, <1>9 DEF RouterInv

\* selectFlow takes the handler of the profile the rules give the flow.
LEMMA SelectInv ==
  ASSUME RouterInv, NEW f \in Flows, NEW dst \in Nets, NEW uid \in Uids,
         NEW dns \in BOOLEAN, NEW seen \in {uid, Unknown},
         SelectFlow(f, dst, uid, seen, dns)
  PROVE  RouterInv'
<1> USE RouterAssumption, RouteAssumption
<1>t. RouterTypeOK
  BY DEF RouterInv
<1> DEFINE p == Exit(dst, seen, dns)
           state == [phase |-> "selected", via |-> profiles[p],
                     dst |-> dst, uid |-> uid, dns |-> dns]
<1>1. Ready(p) /\ SetFlow(f, state)
  BY DEF SelectFlow
<1>2. policy.rules \in Seq(Rule) /\ policy.dns \in Profiles
  <2>1. policy.rules \in Seq(Rule)
    BY <1>t DEF RouterTypeOK
  <2>2. PICK i \in DOMAIN policy.rules : policy.dns = policy.rules[i].id
    BY <1>t DEF RouterTypeOK
  <2>3. policy.rules[i] \in Rule
    BY <2>1
  <2> QED BY <2>1, <2>2, <2>3 DEF Rule
<1>3. IF dns THEN p = policy.dns ELSE RightExit(policy.rules, dst, uid, p)
  <2>1. CASE dns
    BY <2>1 DEF Exit
  <2>2. CASE ~dns
    <3>1. p = Choose(policy.rules, dst, seen) /\ p # Blocked
      BY <1>1, <2>2 DEF Exit, Ready
    <3> HIDE DEF p
    <3>2. RightExit(policy.rules, dst, uid, p)
      BY <1>2, <3>1, UnknownOwnerNeverBypasses
    <3> QED BY <2>2, <3>2
  <2> QED BY <2>1, <2>2
<1>4. p \in Profiles \cup {Direct}
  <2>1. CASE dns
    BY <1>2, <1>3, <2>1
  <2>2. CASE ~dns
    <3> HIDE DEF p
    <3>1. p = Direct \/ \E i \in DOMAIN policy.rules : p = policy.rules[i].id
      BY <1>3, <2>2 DEF RightExit
    <3>2. \A i \in DOMAIN policy.rules : policy.rules[i] \in Rule
      BY <1>2
    <3>3. \A i \in DOMAIN policy.rules : policy.rules[i].id \in Profiles
      BY <3>2 DEF Rule
    <3> QED BY <3>1, <3>3
  <2> QED BY <2>1, <2>2
<1> HIDE DEF p
<1>5. profiles[p] \in Handlers /\ profiles[p] # NoGateway
  BY <1>1, <1>4, <1>t DEF Ready, RouterTypeOK
<1>6. owner[profiles[p]] = p /\ life[profiles[p]] = "open"
  BY <1>4, <1>5, <1>t DEF RouterInv, HandlersHaveOwners, OpenIsMapped, RouterTypeOK
<1>7. state \in FlowState
  BY <1>5 DEF FlowState
<1>8. state.phase = "selected" /\ state.via = profiles[p] /\ state.dst = dst
      /\ state.uid = uid /\ state.dns = dns
  OBVIOUS
<1> HIDE DEF state
<1> QED BY <1>1, <1>3, <1>6, <1>7, <1>8, FlowInv

\* The later steps of a flow keep its handler; the place in the WaitGroup is
\* taken only while the handler is not closed.
LEMMA FlowStepInv == ASSUME RouterInv, NEW f \in Flows, FlowStep(f) PROVE RouterInv'
<1>t. RouterTypeOK
  BY DEF RouterInv
<1>1. ASSUME SetFlow(f, Idle) PROVE RouterInv'
  <2>1. Idle \in FlowState /\ Idle.phase = "idle"
    BY DEF FlowState, Idle
  <2> QED BY <1>1, <2>1, FlowInv
<1>2. ASSUME NEW ph \in {"dialing", "relaying"}, flow[f].phase # "idle",
             life[flow[f].via] # "drained", SetFlow(f, [flow[f] EXCEPT !.phase = ph])
      PROVE  RouterInv'
  <2> DEFINE state == [flow[f] EXCEPT !.phase = ph]
  <2>1. flow[f] \in [phase : {"selected", "dialing", "relaying"}, via : Handlers,
                     dst : Nets, uid : Uids, dns : BOOLEAN]
    BY <1>2, FlowFacts
  <2>2. /\ state \in [phase : {"selected", "dialing", "relaying"}, via : Handlers,
                      dst : Nets, uid : Uids, dns : BOOLEAN]
        /\ state.phase = ph /\ state.via = flow[f].via /\ state.dst = flow[f].dst
        /\ state.uid = flow[f].uid /\ state.dns = flow[f].dns
    BY <2>1
  <2>3. state \in FlowState
    BY <2>2 DEF FlowState
  <2>4. SetFlow(f, state)
    BY <1>2
  <2> HIDE DEF state
  <2>5. /\ life[state.via] # "new"
        /\ IF state.dns THEN owner[state.via] = policy.dns
           ELSE RightExit(policy.rules, state.dst, state.uid, owner[state.via])
    BY <1>2, <2>2, FlowFacts DEF RouterInv, FlowsFollowPolicy
  <2> QED BY <1>2, <2>2, <2>3, <2>4, <2>5, FlowInv
<1>3. ASSUME NEW dst \in Nets, NEW uid \in Uids, NEW dns \in BOOLEAN,
             NEW seen \in {uid, Unknown}, SelectFlow(f, dst, uid, seen, dns)
      PROVE  RouterInv'
  BY <1>3, SelectInv
<1>4. CASE Handle(f)
  BY <1>2, <1>4 DEF Handle, Closed
<1>5. CASE DialSucceeds(f)
  <2>1. flow[f].phase = "dialing"
    BY <1>5 DEF DialSucceeds
  <2>2. life[flow[f].via] # "drained"
    BY <2>1, FlowFacts DEF RouterInv, DrainedIsIdle, SlotsOf, Running
  <2> QED BY <1>2, <1>5, <2>1, <2>2 DEF DialSucceeds
<1>6. CASE Refuse(f) \/ DialFails(f) \/ RelayEnds(f)
  BY <1>1, <1>6 DEF Refuse, DialFails, RelayEnds
<1> QED BY <1>3, <1>4, <1>5, <1>6 DEF FlowStep

\* RouterInv is inductive.
LEMMA RouterStepInv == RouterInv /\ [RouterNext]_routerVars => RouterInv'
<1> SUFFICES ASSUME RouterInv, [RouterNext]_routerVars PROVE RouterInv'
  OBVIOUS
<1>1. CASE UNCHANGED routerVars
  BY <1>1 DEF routerVars, RouterInv, RouterTypeOK, FlowsFollowPolicy, DrainedIsIdle,
     SlotsOf, Running, OpenIsMapped, PausedHasNoRoute, HandlersHaveOwners
<1> QED BY <1>1, OwnersInv, StopsInv, FlowStepInv DEF RouterNext

\* The inductive invariant holds for every caller of the router.
THEOREM RouterInvariant == RouterSafe => []RouterInv
<1> QED BY RouterInitInv, RouterStepInv, PTL DEF RouterSafe

\* No flow leaves through a profile, or directly, that the documented rules do
\* not give it, whatever is paused, replaced or disconnected meanwhile.
THEOREM RoutingIsFailClosed == RouterSafe => []FlowsFollowPolicy
<1>1. RouterInv => FlowsFollowPolicy
  BY DEF RouterInv
<1> QED BY <1>1, RouterInvariant, PTL

\* stop returns only when every flow goroutine of the handler has ended, and a
\* handler nobody has stopped is always the one in the map.
THEOREM HandlersAreAccountedFor == RouterSafe => [](DrainedIsIdle /\ OpenIsMapped)
<1>1. RouterInv => DrainedIsIdle /\ OpenIsMapped
  BY DEF RouterInv
<1> QED BY <1>1, RouterInvariant, PTL

\* A paused profile has no connection that a flow could be given.
THEOREM PauseTakesTheRoute == RouterSafe => []PausedHasNoRoute
<1>1. RouterInv => PausedHasNoRoute
  BY DEF RouterInv
<1> QED BY <1>1, RouterInvariant, PTL
=============================================================================
