-------------------------- MODULE MultipleVpnProofs --------------------------
(***************************************************************************)
(* The controller uses the router as MultiRouter allows, and neither a     *)
(* paused profile nor a stopped Gateway is ever routed to, for every       *)
(* number of profiles, sessions and flows.                                 *)
(***************************************************************************)
EXTENDS MultipleVpn, MultiRouterProofs

PausedIsDisabled == closed \/ paused \subseteq disabled

\* What GoneIsUnrouted and PausedIsUnrouted need beyond the bookkeeping is in
\* the router's own invariant.
LEMMA VpnInvFrom ==
  VpnTypeOK /\ RouterInv /\ SessionsHaveProfiles /\ AttachedOnce /\ PausedIsDisabled
    => VpnInv
<1> SUFFICES ASSUME VpnTypeOK, RouterInv, SessionsHaveProfiles, AttachedOnce,
                    PausedIsDisabled
             PROVE  VpnInv
  OBVIOUS
<1> USE RouterAssumption, RouteAssumption
<1>1. PausedIsUnrouted
  BY DEF PausedIsDisabled, PausedIsUnrouted, RouterInv, PausedHasNoRoute, VpnTypeOK, RouterTypeOK
<1>2. \A s \in Gateways, p \in Profiles : profiles[p] = s => life[s] = "open"
  BY DEF RouterInv, OpenIsMapped, HandlersHaveOwners, Handlers
<1>3. GoneIsUnrouted
  BY <1>2 DEF GoneIsUnrouted, AttachedOnce
<1> QED BY <1>1, <1>3 DEF VpnInv

\* The constructor establishes the invariant.
LEMMA VpnInitInv == VpnInit => VpnInv
<1> SUFFICES ASSUME VpnInit PROVE VpnInv
  OBVIOUS
<1> USE RouterAssumption, RouteAssumption
<1>1. RouterInv
  BY RouterInitInv DEF VpnInit
<1>2. \A p \in Profiles : Started(p) \in Session /\ Started(p).at = "idle"
                          /\ Started(p).profile = p /\ Started(p).alive = FALSE
  BY DEF Started, Unused, Session
<1>3. Unused \in Session /\ Unused.at = "none"
  BY DEF Unused, Session
<1>4. \A s \in Gateways :
        \/ session[s] = Unused
        \/ \E p \in Profiles : session[s] = Started(p)
  BY DEF VpnInit
<1>5. session \in [Gateways -> Session]
  <2>1. session = [s \in Gateways |-> session[s]]
    BY DEF VpnInit
  <2> QED BY <1>2, <1>3, <1>4, <2>1
<1>6. \A s \in Gateways : life[s] = "new" /\ owner[s] = NoGateway
  BY DEF VpnInit, RouterInit, Handlers
<1>7. VpnTypeOK
  BY <1>1, <1>5 DEF VpnInit, VpnTypeOK, RouterInv
<1>8. SessionsHaveProfiles
  <2>1. \A p \in Profiles : p \notin paused /\ current[p] # NoGateway
    BY DEF VpnInit
  <2>2. \A s \in Gateways :
          /\ session[s].at # "none" => session[s].profile \in Profiles
          /\ owner[s] = NoGateway /\ life[s] = "new"
    BY <1>2, <1>3, <1>4, <1>6
  <2> QED BY <2>1, <2>2 DEF SessionsHaveProfiles
<1>9. AttachedOnce
  BY <1>2, <1>3, <1>4, <1>6 DEF AttachedOnce
<1> QED BY <1>1, <1>7, <1>8, <1>9, VpnInvFrom DEF VpnInit, PausedIsDisabled

\* Steps that change nothing of a session but its queue, its messages and its
\* closed flag.
LEMMA FlagsStep ==
  ASSUME VpnInv, RouterInv', VpnTypeOK',
         \A s \in Gateways : /\ session'[s].at = session[s].at
                             /\ session'[s].profile = session[s].profile
                             /\ session'[s].alive = session[s].alive
                             /\ owner'[s] = owner[s]
                             /\ life'[s] = "new" <=> life[s] = "new"
                             /\ life'[s] = "open" => life[s] = "open",
         \A p \in Profiles : p \in paused' <=> current'[p] = NoGateway,
         PausedIsDisabled'
  PROVE  VpnInv'
<1>1. SessionsHaveProfiles'
  BY DEF VpnInv, SessionsHaveProfiles
<1>2. AttachedOnce'
  BY DEF VpnInv, AttachedOnce
<1> QED BY <1>1, <1>2, VpnInvFrom, PTL

\* Steps of one session's worker, with what they do to the router.
LEMMA WorkerStep ==
  ASSUME VpnInv, RouterInv', NEW s \in Gateways, NEW state \in Session,
         SetSession(s, state), UNCHANGED controllerVars, UNCHANGED <<disabled, closed>>,
         session[s].at # "none",
         \A t \in Gateways \ {s} : /\ owner'[t] = owner[t]
                                   /\ life'[t] = "new" <=> life[t] = "new"
                                   /\ life'[t] = "open" => life[t] = "open",
         state.at # "none" /\ state.profile = session[s].profile,
         owner'[s] # NoGateway => owner'[s] = state.profile,
         state.at \in {"connecting", "attaching"} => ~state.alive /\ life'[s] = "new",
         state.at = "idle" /\ ~state.alive => life'[s] = "new",
         state.at \in {"detaching", "gone"} => life'[s] # "open"
  PROVE  VpnInv'
<1>1. session' = [session EXCEPT ![s] = state] /\ session \in [Gateways -> Session]
  BY DEF SetSession, VpnInv, VpnTypeOK
<1>2. session'[s] = state /\ \A t \in Gateways \ {s} : session'[t] = session[t]
  BY <1>1
<1>3. VpnTypeOK'
  <2>1. session' \in [Gateways -> Session]
    BY <1>1
  <2>2. RouterTypeOK'
    BY DEF RouterInv
  <2> QED BY <2>1, <2>2 DEF VpnInv, VpnTypeOK, controllerVars
<1>4. \A t \in Gateways :
        /\ session'[t].at # "none" => session'[t].profile \in Profiles
        /\ session'[t].at = "none" => life'[t] = "new"
        /\ owner'[t] # NoGateway => owner'[t] = session'[t].profile
  BY <1>2 DEF VpnInv, SessionsHaveProfiles
<1>5. SessionsHaveProfiles'
  BY <1>4 DEF VpnInv, SessionsHaveProfiles, controllerVars
<1>6. AttachedOnce'
  BY <1>2 DEF VpnInv, AttachedOnce
<1>7. PausedIsDisabled'
  BY DEF VpnInv, VpnTypeOK, PausedIsUnrouted, PausedIsDisabled, controllerVars
<1> QED BY <1>3, <1>5, <1>6, <1>7, VpnInvFrom, PTL

\* A step that leaves the router alone keeps its invariant.
LEMMA RouterKept == RouterInv /\ UNCHANGED routerVars => RouterInv'
BY RouterStepInv

\* The steps of the main thread.
LEMMA MainInv == VpnInv /\ Main => VpnInv' /\ [RouterNext]_routerVars
<1> SUFFICES ASSUME VpnInv, Main PROVE VpnInv' /\ [RouterNext]_routerVars
  OBVIOUS
<1> USE RouterAssumption, RouteAssumption
<1>t. /\ RouterInv /\ VpnTypeOK /\ session \in [Gateways -> Session]
      /\ RouterTypeOK /\ SessionsHaveProfiles
  BY DEF VpnInv, VpnTypeOK
<1>c. \A p \in Profiles \ paused : current[p] \in Gateways
  BY <1>t DEF VpnTypeOK, SessionsHaveProfiles
<1>d. PausedIsDisabled
  BY DEF VpnInv, VpnTypeOK, PausedIsUnrouted, PausedIsDisabled
<1>r. ASSUME UNCHANGED routerVars PROVE RouterInv' /\ RouterTypeOK'
  BY <1>t, <1>r, RouterKept DEF RouterInv
<1>1. ASSUME NEW p \in Profiles, Request(p) PROVE VpnInv' /\ [RouterNext]_routerVars
  <2> DEFINE state == [session[current[p]] EXCEPT !.task = TRUE]
  <2>1. /\ p \notin paused /\ starting' = starting \cup {p}
        /\ session' = [session EXCEPT ![current[p]] = state]
        /\ UNCHANGED routerVars /\ UNCHANGED <<current, paused, down>>
    BY <1>1 DEF Request, SetSession
  <2>2. session[current[p]] \in Session
    BY <1>t, <1>c, <2>1
  <2>3. /\ state \in Session /\ state.at = session[current[p]].at
        /\ state.profile = session[current[p]].profile
        /\ state.alive = session[current[p]].alive
    BY <2>2 DEF Session
  <2> HIDE DEF state
  <2>4. /\ session' \in [Gateways -> Session]
        /\ \A s \in Gateways : /\ session'[s].at = session[s].at
                               /\ session'[s].profile = session[s].profile
                               /\ session'[s].alive = session[s].alive
    BY <1>t, <1>c, <2>1, <2>3
  <2>5. VpnTypeOK' /\ RouterInv'
    BY <1>t, <1>r, <2>1, <2>4 DEF VpnTypeOK
  <2>6. PausedIsDisabled'
    BY <1>d, <2>1 DEF PausedIsDisabled, routerVars
  <2>7. VpnInv'
    BY <1>t, <2>1, <2>4, <2>5, <2>6, FlagsStep DEF routerVars, SessionsHaveProfiles
  <2> QED BY <2>1, <2>7
<1>2. ASSUME NEW p \in Profiles, Pause(p) PROVE VpnInv' /\ [RouterNext]_routerVars
  <2> DEFINE state == [session[current[p]] EXCEPT !.closed = TRUE]
  <2>1. /\ p \notin paused /\ paused' = paused \cup {p} /\ starting' = starting \ {p}
        /\ current' = [current EXCEPT ![p] = NoGateway]
        /\ session' = [session EXCEPT ![current[p]] = state]
        /\ UNCHANGED down
    BY <1>2 DEF Pause, SetSession
  <2>2. DisableProfile(p)
    BY <1>2 DEF Pause
  <2>3. RouterNext
    BY <2>2 DEF RouterNext, Owners
  <2>4. RouterInv' /\ RouterTypeOK'
    BY <1>t, <2>3, RouterStepInv DEF RouterInv
  <2>5. session[current[p]] \in Session
    BY <1>t, <1>c, <2>1
  <2>6. /\ state \in Session /\ state.at = session[current[p]].at
        /\ state.profile = session[current[p]].profile
        /\ state.alive = session[current[p]].alive
    BY <2>5 DEF Session
  <2> HIDE DEF state
  <2>7. /\ session' \in [Gateways -> Session]
        /\ \A s \in Gateways : /\ session'[s].at = session[s].at
                               /\ session'[s].profile = session[s].profile
                               /\ session'[s].alive = session[s].alive
    BY <1>t, <1>c, <2>1, <2>6
  <2>8. /\ disabled' = disabled \cup {p} /\ closed' = closed /\ owner' = owner
        /\ life' = [h \in Handlers |-> IF h = profiles[p] THEN "cancelled" ELSE life[h]]
    BY <2>2 DEF DisableProfile
  <2>9. \A s \in Gateways : /\ life'[s] = "new" <=> life[s] = "new"
                            /\ life'[s] = "open" => life[s] = "open"
    BY <1>t, <2>8 DEF RouterInv, RouterTypeOK, HandlersHaveOwners, Handlers
  <2>10. VpnTypeOK'
    BY <1>t, <2>1, <2>4, <2>7 DEF VpnTypeOK
  <2>11. PausedIsDisabled'
    BY <1>d, <2>1, <2>8 DEF PausedIsDisabled
  <2>12. \A q \in Profiles : q \in paused' <=> current'[q] = NoGateway
    BY <1>t, <2>1 DEF SessionsHaveProfiles, VpnTypeOK
  <2>13. VpnInv'
    BY <2>4, <2>7, <2>8, <2>9, <2>10, <2>11, <2>12, FlagsStep
  <2> QED BY <2>3, <2>13
<1>3. ASSUME NEW p \in Profiles, NEW s \in Gateways, Resume(p, s)
      PROVE  VpnInv' /\ [RouterNext]_routerVars
  <2>1. /\ p \in paused /\ paused' = paused \ {p} /\ starting' = starting \ {p}
        /\ session[s].at = "none"
        /\ current' = [current EXCEPT ![p] = s]
        /\ session' = [session EXCEPT ![s] = Started(p)]
        /\ UNCHANGED down
    BY <1>3 DEF Resume, SetSession
  <2>2. EnableProfile(p)
    BY <1>3 DEF Resume
  <2>3. RouterNext
    BY <2>2 DEF RouterNext, Owners
  <2>4. RouterInv' /\ RouterTypeOK'
    BY <1>t, <2>3, RouterStepInv DEF RouterInv
  <2>5. /\ Started(p) \in Session /\ Started(p).at = "idle"
        /\ Started(p).profile = p /\ Started(p).alive = FALSE
    BY DEF Started, Unused, Session
  <2>6. /\ session' \in [Gateways -> Session] /\ session'[s] = Started(p)
        /\ \A t \in Gateways \ {s} : session'[t] = session[t]
    BY <1>t, <2>1, <2>5
  <2>7. /\ disabled' = disabled \ {p} /\ UNCHANGED <<closed, owner, life>>
    BY <2>2 DEF EnableProfile
  <2>8. life[s] = "new" /\ owner[s] = NoGateway
    BY <1>t, <2>1 DEF SessionsHaveProfiles, RouterInv, HandlersHaveOwners, Handlers
  <2>9. VpnTypeOK'
    BY <1>t, <2>1, <2>4, <2>6 DEF VpnTypeOK
  <2>10. PausedIsDisabled'
    BY <1>d, <2>1, <2>7 DEF PausedIsDisabled
  <2>11. \A q \in Profiles : q \in paused' <=> current'[q] = NoGateway
    BY <1>t, <2>1 DEF SessionsHaveProfiles, VpnTypeOK
  <2>12. SessionsHaveProfiles'
    <3>1. \A t \in Gateways :
            /\ session'[t].at # "none" => session'[t].profile \in Profiles
            /\ session'[t].at = "none" => life'[t] = "new"
            /\ owner'[t] # NoGateway => owner'[t] = session'[t].profile
      BY <1>t, <2>5, <2>6, <2>7, <2>8 DEF SessionsHaveProfiles
    <3> QED BY <2>11, <3>1 DEF SessionsHaveProfiles
  <2>13. AttachedOnce'
    BY <2>5, <2>6, <2>7, <2>8 DEF VpnInv, AttachedOnce
  <2>14. VpnInv'
    BY <2>4, <2>9, <2>10, <2>12, <2>13, VpnInvFrom, PTL
  <2> QED BY <2>3, <2>14
<1>4. ASSUME NEW s \in Gateways, HandleFailure(s)
      PROVE  VpnInv' /\ [RouterNext]_routerVars
  <2> DEFINE state == [session[s] EXCEPT !.failed = FALSE]
  <2>1. /\ starting' \subseteq starting
        /\ session' = [session EXCEPT ![s] = state]
        /\ UNCHANGED routerVars /\ UNCHANGED <<current, paused, down>>
    BY <1>4 DEF HandleFailure, SetSession
  <2>2. session[s] \in Session
    BY <1>t
  <2>3. /\ state \in Session /\ state.at = session[s].at
        /\ state.profile = session[s].profile
        /\ state.alive = session[s].alive
    BY <2>2 DEF Session
  <2> HIDE DEF state
  <2>4. /\ session' \in [Gateways -> Session]
        /\ \A t \in Gateways : /\ session'[t].at = session[t].at
                               /\ session'[t].profile = session[t].profile
                               /\ session'[t].alive = session[t].alive
    BY <1>t, <2>1, <2>3
  <2>5. VpnTypeOK' /\ RouterInv'
    BY <1>t, <1>r, <2>1, <2>4 DEF VpnTypeOK
  <2>6. PausedIsDisabled'
    BY <1>d, <2>1 DEF PausedIsDisabled, routerVars
  <2>7. VpnInv'
    BY <1>t, <2>1, <2>4, <2>5, <2>6, FlagsStep DEF routerVars, SessionsHaveProfiles
  <2> QED BY <2>1, <2>7
<1>5. CASE Move \/ Shutdown
  <2>1. /\ UNCHANGED routerVars /\ UNCHANGED <<current, paused, starting>>
        /\ down' \in BOOLEAN
    BY <1>5, <1>t DEF Move, Shutdown, controllerVars, VpnTypeOK
  <2>2. \A s \in Gateways : session[s] \in Session
    BY <1>t
  <2>3. ASSUME NEW r \in Session, NEW b \in BOOLEAN
        PROVE  LET x == [r EXCEPT !.task = TRUE]
                   y == [r EXCEPT !.failed = FALSE, !.closed = @ \/ b]
               IN  /\ x \in Session /\ x.at = r.at /\ x.profile = r.profile
                   /\ x.alive = r.alive
                   /\ y \in Session /\ y.at = r.at /\ y.profile = r.profile
                   /\ y.alive = r.alive
    BY DEF Session
  <2>4. /\ session' \in [Gateways -> Session]
        /\ \A s \in Gateways : /\ session'[s].at = session[s].at
                               /\ session'[s].profile = session[s].profile
                               /\ session'[s].alive = session[s].alive
    <3>1. CASE Move
      BY <2>2, <2>3, <3>1 DEF Move
    <3>2. CASE Shutdown
      BY <2>2, <2>3, <3>2 DEF Shutdown
    <3> QED BY <1>5, <3>1, <3>2
  <2>5. VpnTypeOK' /\ RouterInv'
    BY <1>t, <1>r, <2>1, <2>4 DEF VpnTypeOK
  <2>6. PausedIsDisabled'
    BY <1>d, <2>1 DEF PausedIsDisabled, routerVars
  <2>7. VpnInv'
    BY <1>t, <2>1, <2>4, <2>5, <2>6, FlagsStep DEF routerVars, SessionsHaveProfiles
  <2> QED BY <2>1, <2>7
<1>6. CASE CloseRouter
  <2>1. /\ Close /\ UNCHANGED session /\ UNCHANGED <<current, paused, starting, down>>
    BY <1>6 DEF CloseRouter, controllerVars
  <2>2. RouterNext
    BY <2>1 DEF RouterNext, Owners
  <2>3. RouterInv' /\ RouterTypeOK'
    BY <1>t, <2>2, RouterStepInv DEF RouterInv
  <2>4. /\ closed' /\ owner' = owner
        /\ \A s \in Gateways : /\ life'[s] = "new" <=> life[s] = "new"
                               /\ life'[s] = "open" => life[s] = "open"
    BY <2>1 DEF Close, Handlers
  <2>5. VpnTypeOK' /\ PausedIsDisabled'
    BY <1>t, <2>1, <2>3, <2>4 DEF VpnTypeOK, PausedIsDisabled
  <2>6. VpnInv'
    BY <1>t, <2>1, <2>3, <2>4, <2>5, FlagsStep DEF SessionsHaveProfiles
  <2> QED BY <2>2, <2>6
<1> QED BY <1>1, <1>2, <1>3, <1>4, <1>5, <1>6 DEF Main

\* The steps of a worker that leave the router alone.
LEMMA QuietStep ==
  ASSUME VpnInv, NEW s \in Gateways, NEW state \in Session, SetSession(s, state),
         UNCHANGED routerVars, UNCHANGED controllerVars, session[s].at # "none",
         state.at # "none" /\ state.profile = session[s].profile,
         state.at \in {"connecting", "attaching"} => ~state.alive /\ life[s] = "new",
         state.at = "idle" /\ ~state.alive => life[s] = "new",
         state.at \in {"detaching", "gone"} => life[s] # "open"
  PROVE  VpnInv'
<1>1. RouterInv'
  BY RouterKept DEF VpnInv
<1>2. UNCHANGED <<disabled, closed, owner, life>>
  BY DEF routerVars
<1>3. owner[s] # NoGateway => owner[s] = state.profile
  BY DEF VpnInv, SessionsHaveProfiles
<1> QED BY <1>1, <1>2, <1>3, WorkerStep

\* The steps of a session's worker.
LEMMA WorkInv ==
  ASSUME VpnInv, NEW s \in Gateways, Work(s)
  PROVE  VpnInv' /\ [RouterNext]_routerVars
<1> USE RouterAssumption, RouteAssumption
<1> DEFINE r == session[s]
<1>t. r \in Session /\ RouterInv /\ RouterTypeOK
  BY DEF VpnInv, VpnTypeOK
<1>n. r.at # "none" => r.profile \in Profiles
  BY DEF VpnInv, SessionsHaveProfiles
<1>o. /\ r.at \in {"connecting", "attaching"} => ~r.alive /\ life[s] = "new"
      /\ r.at = "idle" /\ ~r.alive => life[s] = "new"
      /\ r.at \in {"detaching", "gone"} => life[s] # "open"
  BY DEF VpnInv, AttachedOnce
<1>f. ASSUME Fail(s), UNCHANGED routerVars, UNCHANGED controllerVars,
             r.at \in {"connecting", "attaching"}
      PROVE  VpnInv'
  <2> DEFINE state == [r EXCEPT !.at = "idle", !.failed = @ \/ (~r.closed /\ ~down)]
  <2>1. SetSession(s, state)
    BY <1>f DEF Fail
  <2>2. /\ state \in Session /\ state.at = "idle" /\ state.profile = r.profile
        /\ state.alive = r.alive
    BY <1>t DEF Session
  <2> HIDE DEF state
  <2>3. r.at # "none" /\ life[s] = "new"
    BY <1>f, <1>o
  <2> QED BY <1>f, <2>1, <2>2, <2>3, QuietStep
<1>1. CASE BeginStart(s)
  <2> DEFINE state == [r EXCEPT !.task = FALSE, !.at = "connecting"]
  <2>1. /\ SetSession(s, state) /\ r.at = "idle" /\ ~r.alive
        /\ UNCHANGED routerVars /\ UNCHANGED controllerVars
    BY <1>1 DEF BeginStart
  <2>2. /\ state \in Session /\ state.at = "connecting" /\ state.profile = r.profile
        /\ state.alive = r.alive
    BY <1>t DEF Session
  <2> HIDE DEF state
  <2> QED BY <1>o, <2>1, <2>2, QuietStep
<1>2. CASE MigrateOrFail(s)
  <2>1. PICK bad \in BOOLEAN :
          SetSession(s, [r EXCEPT !.task = FALSE, !.failed = @ \/ (bad /\ ~down)])
    BY <1>2 DEF MigrateOrFail
  <2> DEFINE state == [r EXCEPT !.task = FALSE, !.failed = @ \/ (bad /\ ~down)]
  <2>2. r.at = "idle" /\ r.alive /\ UNCHANGED routerVars /\ UNCHANGED controllerVars
    BY <1>2 DEF MigrateOrFail
  <2>3. /\ state \in Session /\ state.at = r.at /\ state.profile = r.profile
        /\ state.alive = r.alive
    BY <1>t DEF Session
  <2>4. SetSession(s, state)
    BY <2>1
  <2> HIDE DEF state
  <2> QED BY <2>2, <2>3, <2>4, QuietStep
<1>3. CASE StartFails(s)
  BY <1>f, <1>3 DEF StartFails
<1>4. CASE StartSucceeds(s)
  <2>1. /\ r.at = "connecting"
        /\ UNCHANGED routerVars /\ UNCHANGED controllerVars
        /\ SetSession(s, [r EXCEPT !.at = "attaching"]) \/ Fail(s)
    BY <1>4 DEF StartSucceeds
  <2>2. CASE Fail(s)
    BY <1>f, <2>1, <2>2
  <2>3. CASE SetSession(s, [r EXCEPT !.at = "attaching"])
    <3> DEFINE state == [r EXCEPT !.at = "attaching"]
    <3>1. /\ state \in Session /\ state.at = "attaching" /\ state.profile = r.profile
          /\ state.alive = r.alive
      BY <1>t DEF Session
    <3>2. SetSession(s, state)
      BY <2>3
    <3> HIDE DEF state
    <3> QED BY <1>o, <2>1, <3>1, <3>2, QuietStep
  <2> QED BY <2>1, <2>2, <2>3
<1>5. CASE Attach(s)
  <2> DEFINE state == [r EXCEPT !.at = "replacing", !.waits = profiles[r.profile]]
  <2>1. /\ r.at = "attaching" /\ SetSession(s, state) /\ UNCHANGED controllerVars
        /\ SetGateway(r.profile, s)
    BY <1>5 DEF Attach
  <2>2. r.profile \in Profiles
    BY <1>n, <2>1
  <2>3. RouterNext
    BY <2>1, <2>2 DEF RouterNext, Owners
  <2>4. RouterInv'
    BY <1>t, <2>3, RouterStepInv
  <2>5. profiles[r.profile] \in Handlers \cup {NoGateway}
    BY <1>t, <2>2 DEF RouterTypeOK
  <2>6. /\ state \in Session /\ state.at = "replacing" /\ state.profile = r.profile
    BY <1>t, <2>5 DEF Session
  <2>7. /\ UNCHANGED <<disabled, closed>>
        /\ owner' = [owner EXCEPT ![s] = r.profile]
        /\ life' = [h \in Handlers |-> IF h = s THEN "open"
                      ELSE IF h = profiles[r.profile] THEN "unlinked" ELSE life[h]]
    BY <2>1 DEF SetGateway
  <2>8. \A t \in Gateways \ {s} : /\ owner'[t] = owner[t]
                                  /\ life'[t] = "new" <=> life[t] = "new"
                                  /\ life'[t] = "open" => life[t] = "open"
    BY <1>t, <2>2, <2>7 DEF RouterInv, RouterTypeOK, HandlersHaveOwners, Handlers
  <2>9. owner'[s] = r.profile
    BY <1>t, <2>7 DEF RouterTypeOK, Handlers
  <2> HIDE DEF state
  <2>10. VpnInv'
    BY <2>1, <2>4, <2>6, <2>7, <2>8, <2>9, WorkerStep
  <2> QED BY <2>3, <2>10
<1>6. CASE AttachRefused(s)
  BY <1>f, <1>6 DEF AttachRefused
<1>7. CASE Attached(s)
  <2> DEFINE state == [r EXCEPT !.at = "idle", !.waits = NoGateway, !.alive = TRUE]
  <2>1. /\ SetSession(s, state) /\ r.at = "replacing"
        /\ UNCHANGED routerVars /\ UNCHANGED controllerVars
    BY <1>7 DEF Attached
  <2>2. /\ state \in Session /\ state.at = "idle" /\ state.profile = r.profile
        /\ state.alive = TRUE
    BY <1>t DEF Session
  <2> HIDE DEF state
  <2> QED BY <2>1, <2>2, QuietStep
<1>8. CASE CloseSession(s)
  <2> DEFINE state == [r EXCEPT !.at = "detaching", !.alive = FALSE, !.task = FALSE,
                         !.waits = IF profiles[r.profile] = s THEN s ELSE NoGateway]
  <2>1. /\ r.at = "idle" /\ SetSession(s, state) /\ UNCHANGED controllerVars
        /\ \/ DetachGateway(r.profile, s)
           \/ profiles[r.profile] # s /\ UNCHANGED routerVars
    BY <1>8 DEF CloseSession
  <2>2. r.profile \in Profiles
    BY <1>n, <2>1
  <2>3. state \in Session /\ state.at = "detaching" /\ state.profile = r.profile
    BY <1>t DEF Session, Handlers
  <2> HIDE DEF state
  <2>4. CASE DetachGateway(r.profile, s)
    <3>1. RouterNext
      BY <2>2, <2>4 DEF RouterNext, Owners
    <3>2. RouterInv'
      BY <1>t, <3>1, RouterStepInv
    <3>3. /\ UNCHANGED <<disabled, closed, owner>> /\ profiles[r.profile] = s
          /\ life' = [h \in Handlers |-> IF h = profiles[r.profile] THEN "unlinked"
                                         ELSE life[h]]
      BY <2>4 DEF DetachGateway, Unlink
    <3>4. /\ life'[s] = "unlinked"
          /\ \A t \in Gateways \ {s} : /\ owner'[t] = owner[t]
                                       /\ life'[t] = life[t]
      BY <3>3 DEF Handlers
    <3>5. owner'[s] # NoGateway => owner'[s] = r.profile
      BY <3>3 DEF VpnInv, SessionsHaveProfiles
    <3>6. VpnInv'
      BY <2>1, <2>3, <3>2, <3>3, <3>4, <3>5, WorkerStep
    <3> QED BY <3>1, <3>6
  <2>5. CASE profiles[r.profile] # s /\ UNCHANGED routerVars
    <3>1. life[s] # "open"
      BY <2>5, <1>t DEF RouterInv, OpenIsMapped, Handlers, VpnInv, SessionsHaveProfiles
    <3>2. VpnInv'
      BY <2>1, <2>3, <2>5, <3>1, QuietStep
    <3> QED BY <2>5, <3>2
  <2> QED BY <2>1, <2>4, <2>5
<1>9. CASE Detached(s)
  <2> DEFINE state == [r EXCEPT !.at = "gone", !.waits = NoGateway]
  <2>1. /\ SetSession(s, state) /\ r.at = "detaching"
        /\ UNCHANGED routerVars /\ UNCHANGED controllerVars
    BY <1>9 DEF Detached
  <2>2. state \in Session /\ state.at = "gone" /\ state.profile = r.profile
    BY <1>t DEF Session
  <2> HIDE DEF state
  <2> QED BY <1>o, <2>1, <2>2, QuietStep
<1>10. Work(s) => \/ BeginStart(s) \/ MigrateOrFail(s) \/ StartFails(s)
                  \/ StartSucceeds(s) \/ AttachRefused(s) \/ Attached(s) \/ Detached(s)
                  \/ Attach(s) \/ CloseSession(s)
  BY DEF Work
<1>11. BeginStart(s) \/ MigrateOrFail(s) \/ StartFails(s) \/ StartSucceeds(s)
         \/ AttachRefused(s) \/ Attached(s) \/ Detached(s) => UNCHANGED routerVars
  BY DEF BeginStart, MigrateOrFail, StartFails, StartSucceeds, AttachRefused,
         Attached, Detached
<1> QED
  BY <1>1, <1>2, <1>3, <1>4, <1>5, <1>6, <1>7, <1>8, <1>9, <1>10, <1>11

\* The flows and the stop goroutines leave controller and sessions alone.
LEMMA TrafficInv == VpnInv /\ Traffic => VpnInv' /\ [RouterNext]_routerVars
<1> SUFFICES ASSUME VpnInv, Traffic PROVE VpnInv' /\ [RouterNext]_routerVars
  OBVIOUS
<1>t. RouterInv /\ RouterTypeOK
  BY DEF VpnInv, VpnTypeOK
<1>1. /\ Stops \/ \E f \in Flows : FlowStep(f)
      /\ UNCHANGED session /\ UNCHANGED <<current, paused, starting, down>>
  BY DEF Traffic, controllerVars
<1>2. RouterNext
  BY <1>1 DEF RouterNext
<1>3. RouterInv' /\ RouterTypeOK'
  BY <1>t, <1>2, RouterStepInv DEF RouterInv
<1>4. /\ UNCHANGED <<disabled, closed, owner>>
      /\ \A s \in Gateways : /\ life'[s] = "new" <=> life[s] = "new"
                             /\ life'[s] = "open" => life[s] = "open"
  <2>1. CASE Stops
    <3>1. PICK h \in Handlers : StopBegins(h) \/ StopEnds(h)
      BY <2>1 DEF Stops
    <3>2. PICK to \in {"closed", "drained"} :
            /\ life[h] \in {"unlinked", "cancelled", "closed"}
            /\ life' = [life EXCEPT ![h] = to]
            /\ UNCHANGED <<disabled, closed, owner>>
      BY <3>1 DEF StopBegins, StopEnds
    <3> QED BY <1>t, <3>2 DEF RouterTypeOK, Handlers
  <2>2. CASE \E f \in Flows : FlowStep(f)
    BY <2>2 DEF FlowStep, SelectFlow, Handle, Refuse, DialSucceeds, DialFails,
       RelayEnds, SetFlow
  <2> QED BY <1>1, <2>1, <2>2
<1>5. VpnTypeOK'
  BY <1>1, <1>3 DEF VpnInv, VpnTypeOK
<1>6. PausedIsDisabled'
  BY <1>1, <1>4 DEF VpnInv, VpnTypeOK, PausedIsUnrouted, PausedIsDisabled
<1>7. \A p \in Profiles : p \in paused' <=> current'[p] = NoGateway
  BY <1>1 DEF VpnInv, SessionsHaveProfiles
<1>8. VpnInv'
  BY <1>1, <1>3, <1>4, <1>5, <1>6, <1>7, FlagsStep
<1> QED BY <1>2, <1>8

\* VpnInv is inductive, and every step is a step of the router or none to it.
LEMMA VpnStepInv ==
  VpnInv /\ [VpnNext]_vpnVars => VpnInv' /\ [RouterNext]_routerVars
<1> SUFFICES ASSUME VpnInv, [VpnNext]_vpnVars
             PROVE  VpnInv' /\ [RouterNext]_routerVars
  OBVIOUS
<1>1. CASE UNCHANGED vpnVars
  <2>1. /\ UNCHANGED routerVars /\ UNCHANGED session
        /\ UNCHANGED <<current, paused, starting, down>>
    BY <1>1 DEF vpnVars
  <2>2. RouterInv'
    BY <2>1, RouterKept DEF VpnInv
  <2>3. VpnTypeOK'
    BY <2>1, <2>2 DEF VpnInv, VpnTypeOK, RouterInv
  <2>4. PausedIsDisabled'
    BY <2>1 DEF VpnInv, VpnTypeOK, PausedIsUnrouted, PausedIsDisabled, routerVars
  <2>5. VpnInv'
    BY <2>1, <2>2, <2>3, <2>4, FlagsStep DEF VpnInv, SessionsHaveProfiles, routerVars
  <2> QED BY <2>1, <2>5
<1> QED BY <1>1, MainInv, WorkInv, TrafficInv DEF VpnNext

\* The inductive invariant of controller, sessions and router together.
THEOREM VpnInvariant == VpnSafe => []VpnInv
<1> QED BY VpnInitInv, VpnStepInv, PTL DEF VpnSafe

\* The controller and its sessions use the router as its specification allows,
\* so what is proved of the router for every caller holds of the application.
THEOREM ControllerImplementsRouter == VpnSafe => RouterSafe
<1>1. VpnInit => RouterInit
  BY DEF VpnInit
<1> QED BY <1>1, VpnInvariant, VpnStepInv, PTL DEF VpnSafe, RouterSafe

\* A profile the user stopped has no route until it is resumed, even if its
\* session passes the generation check before the pause and attaches after it.
THEOREM PauseHolds == VpnSafe => []PausedIsUnrouted
<1>1. VpnInv => PausedIsUnrouted
  BY DEF VpnInv
<1> QED BY <1>1, VpnInvariant, PTL

\* No flow is routed to a Gateway that was stopped.
THEOREM StoppedGatewaysAreUnrouted == VpnSafe => []GoneIsUnrouted
<1>1. VpnInv => GoneIsUnrouted
  BY DEF VpnInv
<1> QED BY <1>1, VpnInvariant, PTL
=============================================================================
