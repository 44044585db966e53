SPECIFICATION RuleSpec
CONSTANTS
  Nil = Nil
  RuleTypes = {"force", "rollout", "experiment-ref"}
  RuleIds = {"mine", "theirs"}
  AssignedId = "assigned"
  Texts <- MCTexts
  Coverages <- MCCoverages
  ParseFloat <- MCParseFloat
  EnvironmentLists <- MCEnvironmentLists
  GroupLists <- MCGroupLists
  VariationLists <- MCVariationLists
  WantedLists <- MCWantedLists
  RuleEdits <- MCRuleEdits
  MaxRules = 3
  MaxEdits = 2
INVARIANTS ChangedDescriptionDrifts
CHECK_DEADLOCK FALSE
