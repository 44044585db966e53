---------------------------- MODULE MCRuleDrift ----------------------------
(***************************************************************************)
(* Constants for TLC: runs of RuleDrift.                                     *)
(***************************************************************************)
EXTENDS RuleDrift, TLC

MCTexts      == {"", "x", "y"}
MCCoverages  == {"0.5", "0.50", "1"}
MCParseFloat == [c \in MCCoverages |-> IF c = "1" THEN 100 ELSE 50]

Group(match, ids)  == [match |-> match, ids |-> ids]
Variation(id, val) == [variationId |-> id, value |-> val]

MCEnvironmentLists == {<<>>, <<"dev", "prod">>, <<"prod", "dev">>, <<"dev">>}
MCGroupLists ==
  {<<>>, <<Group("any", <<"a", "b">>)>>, <<Group("any", <<"b", "a">>)>>,
   <<Group("all", <<"a", "b">>)>>, <<Group("any", <<"a", "c">>)>>}
MCVariationLists ==
  {<<>>, <<Variation("v0", "x"), Variation("v1", "y")>>,
   <<Variation("v1", "y"), Variation("v0", "x")>>,
   <<Variation("v0", "y"), Variation("v1", "x")>>}

(* One rule of each kind, each with some fields set and others left out.     *)
Bare(type) ==
  [type |-> type, id |-> Nil, description |-> Nil, enabled |-> Nil,
   condition |-> Nil, savedGroups |-> Nil, allEnvironments |-> Nil,
   environments |-> Nil, value |-> Nil, coverage |-> Nil, hashAttribute |-> Nil,
   experimentId |-> Nil, variations |-> Nil]

Force ==
  [Bare("force") EXCEPT !.value = "x", !.environments = <<"dev", "prod">>,
                        !.description = "x"]
Rollout ==
  [Bare("rollout") EXCEPT !.value = "x", !.coverage = "0.50", !.hashAttribute = "y",
                          !.allEnvironments = TRUE, !.environments = <<"dev">>,
                          !.savedGroups = <<Group("any", <<"a", "b">>)>>]
Experiment ==
  [Bare("experiment-ref") EXCEPT !.id = "mine", !.enabled = FALSE, !.experimentId = "x",
      !.variations = <<Variation("v0", "x"), Variation("v1", "y")>>, !.condition = ""]

Drafts == {Force, Rollout, Experiment, Bare("force")}
MCWantedLists ==
  {<<>>} \cup {<<r>> : r \in Drafts} \cup {<<r, s>> : r, s \in Drafts}

MCRuleEdits ==
  [type |-> {"force"}, id |-> {"theirs"}, enabled |-> BOOLEAN, condition |-> {"y"},
   allEnvironments |-> BOOLEAN, value |-> {"y"}, hashAttribute |-> {""},
   experimentId |-> {"y"}, coverage |-> {100, Nil}, description |-> {"y"},
   savedGroups |-> MCGroupLists, environments |-> MCEnvironmentLists,
   variations |-> MCVariationLists]

ASSUME RuleInputsAssumption == RuleInputs
=============================================================================
