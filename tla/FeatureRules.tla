---------------------------- MODULE FeatureRules ----------------------------
(***************************************************************************)
(* internal/controller/feature/rules_convert.go and rules_drift.go: the     *)
(* rules of a feature, from the spec to the request and back into the drift *)
(* check.  Texts, ids and decimals are small sets; ParseFloat is the number *)
(* of a decimal string, Nil when it is not one.                             *)
(***************************************************************************)
EXTENDS StringLists

CONSTANTS RuleTypes, RuleIds, Texts, Coverages, ParseFloat,
          EnvironmentLists, GroupLists, VariationLists,
          AssignedId    \* stands for the ids GrowthBook gives to new rules

(* v1alpha1.FeatureRule: what users declare.                                 *)
DeclaredRules ==
  [type            : RuleTypes,
   id              : Opt(RuleIds),
   description     : Opt(Texts),
   enabled         : Opt(BOOLEAN),
   condition       : Opt(Texts),
   savedGroups     : Opt(GroupLists),
   allEnvironments : Opt(BOOLEAN),
   environments    : Opt(EnvironmentLists),
   value           : Opt(Texts),
   coverage        : Opt(Coverages),
   hashAttribute   : Opt(Texts),
   experimentId    : Opt(Texts),
   variations      : Opt(VariationLists)]

(* growthbook.FeatureRule: what travels; missing texts are "", missing lists *)
(* empty.                                                                   *)
WireRules ==
  [type            : RuleTypes,
   id              : RuleIds \cup {AssignedId, ""},
   description     : Texts \cup {""},
   enabled         : Opt(BOOLEAN),
   condition       : Texts \cup {""},
   savedGroups     : GroupLists \cup {<<>>},
   allEnvironments : BOOLEAN,
   environments    : EnvironmentLists \cup {<<>>},
   value           : Texts \cup {""},
   coverage        : Opt({ParseFloat[c] : c \in Coverages} \ {Nil}),
   hashAttribute   : Texts \cup {""},
   experimentId    : Texts \cup {""},
   variations      : VariationLists \cup {<<>>}]
-----------------------------------------------------------------------------
derefString(s) == IF s = Nil THEN "" ELSE s

derefBool(b) == b = TRUE

enabledOrTrue(b) == b # FALSE

parseCoverage(c) == IF c = Nil THEN Nil ELSE ParseFloat[c]

ruleRequest(r) ==
  [f \in DOMAIN r |->
     CASE f \in {"type", "enabled"}       -> r[f]
       [] f = "allEnvironments"           -> derefBool(r[f])
       [] f = "coverage"                  -> parseCoverage(r[f])
       [] f \in {"savedGroups", "environments", "variations"} -> Elements(r[f])
       [] OTHER                           -> derefString(r[f])]

(* No request is built when a coverage is not a decimal.                     *)
rulesFail(rules) ==
  rules # Nil /\ \E i \in DOMAIN rules :
                   rules[i].coverage # Nil /\ ParseFloat[rules[i].coverage] = Nil

(* Mutated: a nil list is sent as an empty one.                              *)
EmptyForNil(rules) == [i \in DOMAIN Elements(rules) |-> ruleRequest(rules[i])]

(* A nil list is left out of the request; an empty one is sent.              *)
rulesRequest(rules) ==
  IF rules = Nil THEN Nil ELSE [i \in DOMAIN rules |-> ruleRequest(rules[i])]

(* What GrowthBook keeps of the rules of a request.                          *)
StoredRules(rules) ==
  [i \in DOMAIN rules |->
     [rules[i] EXCEPT !.id = IF @ = "" THEN AssignedId ELSE @,
                      !.enabled = enabledOrTrue(@)]]
-----------------------------------------------------------------------------
environmentsRuleUpToDate(w, g) ==
  /\ derefBool(w.allEnvironments) = g.allEnvironments
  /\ g.allEnvironments \/ sameSet(Elements(w.environments), g.environments)

savedGroupsUpToDate(w, g) ==
  /\ Len(w) = Len(g)
  /\ \A i \in DOMAIN w : w[i].match = g[i].match /\ sameSet(w[i].ids, g[i].ids)

coverageUpToDate(w, g) ==
  IF w = Nil THEN g = Nil ELSE g # Nil /\ ParseFloat[w] = g

(* The observed list is read into a map: of two entries for one variation    *)
(* the last counts.                                                         *)
LastValue(g, id) ==
  g[CHOOSE i \in DOMAIN g :
      g[i].variationId = id /\ \A j \in DOMAIN g : g[j].variationId = id => j <= i].value

(* Mutated: variations are compared by position.                             *)
SamePositions(w, g) ==
  /\ Len(w) = Len(g)
  /\ \A i \in DOMAIN w : w[i].variationId = g[i].variationId /\ w[i].value = g[i].value

variationsUpToDate(w, g) ==
  /\ Len(w) = Len(g)
  /\ \A i \in DOMAIN w :
       /\ \E j \in DOMAIN g : g[j].variationId = w[i].variationId
       /\ LastValue(g, w[i].variationId) = w[i].value

ruleValueUpToDate(w, g) ==
  /\ \A f \in {"value", "hashAttribute", "experimentId"} : derefString(w[f]) = g[f]
  /\ coverageUpToDate(w.coverage, g.coverage)
  /\ variationsUpToDate(Elements(w.variations), g.variations)

ruleUpToDate(w, g) ==
  /\ w.type = g.type
  /\ w.id \in {Nil, g.id}
  /\ enabledOrTrue(w.enabled) = enabledOrTrue(g.enabled)
  /\ derefString(w.condition) = g.condition
  /\ savedGroupsUpToDate(Elements(w.savedGroups), g.savedGroups)
  /\ environmentsRuleUpToDate(w, g)
  /\ ruleValueUpToDate(w, g)

rulesUpToDate(want, got) ==
  want = Nil \/ (Len(want) = Len(got)
                 /\ \A i \in DOMAIN want : ruleUpToDate(want[i], got[i]))
=============================================================================
