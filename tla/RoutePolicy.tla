----------------------------- MODULE RoutePolicy -----------------------------
(***************************************************************************)
(* internal/routing/policy.go: the ordered rules that give every new flow  *)
(* of the shared TUN a profile.  A flow is known by its destination and by *)
(* the Android UID that owns the socket, which the lookup may fail to find.*)
(***************************************************************************)
EXTENDS Integers, Sequences

CONSTANTS
  Profiles,    \* the ids a rule may have
  Nets,        \* destinations, up to what the subnets of the rules tell apart
  Uids,        \* application UIDs
  Unknown,     \* the answer -1 of a failed lookup
  Direct,      \* the profile "direct"
  Blocked      \* the profile "": the flow is refused

ASSUME RouteAssumption ==
  /\ Unknown \notin Uids
  /\ Direct \notin Profiles
  /\ Blocked \notin Profiles
  /\ Direct # Blocked

Modes == {"all", "subnets", "apps", "exclude"}

Rule == [id : Profiles, mode : Modes, uids : SUBSET Uids, subnets : SUBSET Nets]

\* What Parse accepts: one rule per profile, and no empty list where the mode
\* needs one.
Valid(rules) ==
  /\ rules # <<>>
  /\ \A i, j \in DOMAIN rules : i # j => rules[i].id # rules[j].id
  /\ \A i \in DOMAIN rules :
       /\ rules[i].mode = "apps" => rules[i].uids # {}
       /\ rules[i].mode = "subnets" => rules[i].subnets # {}

NeedsUid(rule) == rule.mode \in {"apps", "exclude"}

\* Whether the loop of Choose returns at this rule.
Decides(rule, dst, uid) ==
  \/ rule.mode = "all"
  \/ rule.mode = "subnets" /\ dst \in rule.subnets
  \/ NeedsUid(rule) /\ uid = Unknown
  \/ rule.mode = "apps" /\ uid \in rule.uids
  \/ rule.mode = "exclude" /\ uid \notin rule.uids

FirstDeciding(rules, dst, uid) ==
  CHOOSE i \in DOMAIN rules :
    /\ Decides(rules[i], dst, uid)
    /\ \A j \in 1 .. i - 1 : ~Decides(rules[j], dst, uid)

\* Slip: an application rule is passed over when the owner is unknown.
ChooseSkippingUnknown(rules, dst, uid) ==
  LET known == SelectSeq(rules, LAMBDA r : ~(NeedsUid(r) /\ uid = Unknown))
  IN  IF \A i \in DOMAIN known : ~Decides(known[i], dst, uid)
      THEN Direct
      ELSE known[FirstDeciding(known, dst, uid)].id

Choose(rules, dst, uid) ==
  IF \A i \in DOMAIN rules : ~Decides(rules[i], dst, uid)
  THEN Direct
  ELSE LET rule == rules[FirstDeciding(rules, dst, uid)]
       IN  IF NeedsUid(rule) /\ uid = Unknown THEN Blocked ELSE rule.id

-----------------------------------------------------------------------------
(***************************************************************************)
(* What the documentation promises of a flow whose owner is really uid.    *)
(***************************************************************************)

Matches(rule, dst, uid) ==
  CASE rule.mode = "all"     -> TRUE
    [] rule.mode = "subnets" -> dst \in rule.subnets
    [] rule.mode = "apps"    -> uid \in rule.uids
    [] rule.mode = "exclude" -> uid \notin rule.uids

\* The exit of a flow is the profile of the first matching rule, or direct
\* when no rule matches.
RightExit(rules, dst, uid, exit) ==
  \/ exit = Direct /\ \A i \in DOMAIN rules : ~Matches(rules[i], dst, uid)
  \/ \E i \in DOMAIN rules :
       /\ exit = rules[i].id
       /\ Matches(rules[i], dst, uid)
       /\ \A j \in 1 .. i - 1 : ~Matches(rules[j], dst, uid)
=============================================================================
