SPECIFICATION FairSpec
CONSTANTS
  Nil = Nil
  NoObject = NoObject
  Absent = Absent
  Name = "flag"
  Policies = {"Create", "Update", "Delete", "LateInitialize"}
  MaxChaos = 3
  RuleTypes = {"force", "rollout"}
  RuleIds = {"mine"}
  AssignedId = "assigned"
  Texts <- MCTexts
  Coverages <- MCCoverages
  ParseFloat <- MCParseFloat
  EnvironmentLists = {}
  GroupLists = {}
  VariationLists = {}
  ValueTypes = {"string"}
  Values = {"", "v1", "v2"}
  Descriptions = {"", "d"}
  Projects = {"p"}
  TagLists <- MCTagLists
  Owners = {"o"}
  Envs = {"dev", "prod"}
  MustArchive = TRUE
  Found <- MCFound
  Specs <- MCSpecs
  Edits <- MCEdits
  OutOfBand <- MCOutOfBand
  Faults <- MCFaults
INVARIANTS TypeOK
PROPERTIES Implements UndeclaredKept Converges DeletionCompletes
CHECK_DEADLOCK FALSE
