---------------------------- MODULE MCMultiRouter ----------------------------
(* A rule list of two profiles for the router. *)
EXTENDS MultiRouter, TLC

Plain(p, m) == [id |-> p, mode |-> m, uids |-> {}, subnets |-> {}]

RulesOf(p) ==
  {Plain(p, "all")}
    \cup {[Plain(p, "exclude") EXCEPT !.uids = us] : us \in SUBSET Uids}
    \cup {[Plain(p, "apps") EXCEPT !.uids = us] : us \in SUBSET Uids \ {{}}}
    \cup {[Plain(p, "subnets") EXCEPT !.subnets = ns] : ns \in SUBSET Nets \ {{}}}

Lists ==
  {<<r>> : r \in UNION {RulesOf(p) : p \in Profiles}}
    \cup UNION {RulesOf(p) \X RulesOf(q) : <<p, q>> \in {x \in Profiles \X Profiles : x[1] # x[2]}}

\* Every rule list for at most two profiles.
AllPolicies ==
  {x \in [rules : Lists, dns : Profiles] :
     \E i \in DOMAIN x.rules : x.dns = x.rules[i].id}

\* A home network above a profile for one of the applications.
HomeAndApps ==
  {x \in AllPolicies :
     /\ Len(x.rules) = 2
     /\ x.rules[1].mode = "subnets" /\ Cardinality(x.rules[1].subnets) = 1
     /\ x.rules[2].mode = "apps" /\ Cardinality(x.rules[2].uids) = 1}

OnePolicy == {CHOOSE x \in HomeAndApps : TRUE}

Symmetry == Permutations(Gateways) \cup Permutations(Flows)
=============================================================================
