SPECIFICATION FairSpec
CONSTANTS
  Nil = Nil
  NoObject = NoObject
  Absent = Absent
  Name = "flag"
  Policies = {"Create", "Update", "Delete", "LateInitialize"}
  MaxChaos = 1
  RuleTypes = {"force", "rollout"}
  RuleIds = {"mine"}
  AssignedId = "assigned"
  Texts <- MCTexts
  Coverages <- MCCoverages
  ParseFloat <- MCParseFloat
  EnvironmentLists = {}
  GroupLists = {}
  VariationLists = {}
  ValueTypes = {"string"}
  Values = {"", "v1", "v2"}
  Descriptions = {"", "d"}
  Projects = {"p"}
  TagLists <- MCTagLists
  Owners = {"o"}
  Envs = {"dev", "prod"}
  MustArchive = FALSE
  Found <- MCFound
  Specs <- EmptyRulesSpecs
  Edits <- Nothing
  OutOfBand <- Nothing
  Faults <- FewFaults
PROPERTIES EmptyRulesAuthoritative
CHECK_DEADLOCK FALSE
