SPECIFICATION MCSpec
CONSTANTS
  Nil = Nil
  Absent = Absent
  Invalid = Invalid
  Error = Error
  DefaultAPIURL = "cloud"
  ClusterNamespace = ClusterNamespace
  MRs = {"m1", "m2"}
  Namespace <- MCNamespace
  Configs <- MCConfigs
  Refs <- MCRefs
  Payloads <- MCPayloads
  MaxChaos = 2
INVARIANTS TypeOK InUseStays
PROPERTIES ConfigDeletionCompletes DeletionCompletes Accounted
CHECK_DEADLOCK FALSE
