----------------------------- MODULE RuleDrift -----------------------------
(***************************************************************************)
(* The drift check of feature rules against what it should find: a list of  *)
(* declared rules, the list GrowthBook holds, people who change the latter, *)
(* and the provider, which replaces it whenever rulesUpToDate says so.      *)
(***************************************************************************)
EXTENDS FeatureRules

CONSTANTS WantedLists,  \* the rule lists users may declare
          RuleEdits,    \* field -> what people may set it to in GrowthBook
          MaxRules, MaxEdits

(* Users declare rules (a nil list is not managed) whose coverage is a        *)
(* decimal: no request is made of another one, and GrowthBook holds nothing   *)
(* to compare it with.                                                      *)
DeclarationsOK ==
  /\ WantedLists \subseteq Seq(DeclaredRules) /\ Nil \notin WantedLists
  /\ \A c \in Coverages : ParseFloat[c] # Nil

BareRule(type) ==
  [type |-> type, id |-> "", description |-> "", enabled |-> Nil, condition |-> "",
   savedGroups |-> <<>>, allEnvironments |-> FALSE, environments |-> <<>>,
   value |-> "", coverage |-> Nil, hashAttribute |-> "", experimentId |-> "",
   variations |-> <<>>]

(* An edited rule is a rule.                                                *)
EditsOK ==
  \A type \in RuleTypes, f \in DOMAIN RuleEdits :
    /\ f \in DOMAIN BareRule(type)
    /\ \A v \in RuleEdits[f] : [BareRule(type) EXCEPT ![f] = v] \in WireRules

ListsOK ==
  /\ EnvironmentLists \subseteq Seq(STRING)
  /\ GroupLists \subseteq Seq([match : STRING, ids : Seq(STRING)])
  /\ VariationLists \subseteq Seq([variationId : STRING, value : STRING])

Distinct(list) == \A i, j \in DOMAIN list : list[i] = list[j] => i = j

DistinctIds(variations) ==
  \A i, j \in DOMAIN variations :
    variations[i].variationId = variations[j].variationId => i = j

(* No rule names an environment, a group or a variation twice.  The API does *)
(* not enforce it: two copies of an id where GrowthBook keeps one are drift   *)
(* for good, and a declared variation that is repeated hides another one.    *)
NoRepeats ==
  /\ \A list \in EnvironmentLists : Distinct(list)
  /\ \A list \in GroupLists : \A i \in DOMAIN list : Distinct(list[i].ids)
  /\ \A list \in VariationLists : DistinctIds(list)

RuleInputs == DeclarationsOK /\ EditsOK /\ ListsOK /\ NoRepeats

VARIABLES want, got, edits

ruleVars == <<want, got, edits>>

RuleInit ==
  /\ want \in WantedLists
  /\ got = StoredRules(rulesRequest(want))
  /\ edits = 0

EditBy(rules) ==
  edits < MaxEdits /\ edits' = edits + 1 /\ got' = rules /\ UNCHANGED want

ChangeField ==
  \E i \in DOMAIN got, f \in DOMAIN RuleEdits : \E v \in RuleEdits[f] :
    EditBy([got EXCEPT ![i][f] = v])

Swap ==
  \E i, j \in DOMAIN got : i < j /\ EditBy([got EXCEPT ![i] = got[j], ![j] = got[i]])

Remove ==
  \E i \in DOMAIN got : EditBy(SubSeq(got, 1, i - 1) \o SubSeq(got, i + 1, Len(got)))

Add ==
  \E i \in DOMAIN got : Len(got) < MaxRules /\ EditBy(Append(got, got[i]))

Reconcile ==
  /\ ~rulesUpToDate(want, got)
  /\ got' = StoredRules(rulesRequest(want))
  /\ UNCHANGED <<want, edits>>

RuleNext == ChangeField \/ Swap \/ Remove \/ Add \/ Reconcile

RuleSpec == RuleInit /\ [][RuleNext]_ruleVars
-----------------------------------------------------------------------------
(* Properties.                                                              *)

Set(list) == {list[i] : i \in DOMAIN list}

(* What a rule does: whom it applies to, where, and what they get.  The      *)
(* description and an id that GrowthBook chose are not part of it.           *)
Meaning(r, id) ==
  [id         |-> id,
   type       |-> r.type,
   on         |-> r.enabled # FALSE,
   audience   |-> <<r.condition, [i \in DOMAIN r.savedGroups |->
                     <<r.savedGroups[i].match, Set(r.savedGroups[i].ids)>>]>>,
   scope      |-> <<r.allEnvironments, IF r.allEnvironments THEN {} ELSE Set(r.environments)>>,
   serves     |-> <<r.value, r.hashAttribute, r.coverage>>,
   experiment |-> <<r.experimentId, Set(r.variations)>>]

SameRule(i) ==
  LET id == IF want[i].id = Nil THEN Nil ELSE got[i].id IN
  Meaning(ruleRequest(want[i]), want[i].id) = Meaning(got[i], id)

(* The drift check finds exactly the lists that do not mean what is          *)
(* declared: no edit of a rule, its place or its number goes unseen, and no  *)
(* other spelling of the same rules (order of ids, of environments, of       *)
(* variations, "0.50" for 0.5, an unset switch) counts as one.               *)
DriftExact ==
  rulesUpToDate(want, got) <=>
    Len(want) = Len(got) /\ \A i \in DOMAIN want : SameRule(i)

(* "A reorder, an added or removed rule, or a changed field on any rule      *)
(* counts as drift" (rules_drift.go:29): a description somebody declared is   *)
(* such a field.                                                            *)
ChangedDescriptionDrifts ==
  rulesUpToDate(want, got) =>
    \A i \in DOMAIN want : want[i].description \in {Nil, got[i].description}
=============================================================================
