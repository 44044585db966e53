SPECIFICATION FairSpec
CONSTANTS
  Nil = Nil
  NoObject = NoObject
  Absent = Absent
  Name = "env"
  Policies = {"Create", "Update", "Delete", "LateInitialize"}
  MaxChaos = 3
  Descriptions <- MCDescriptions
  ProjectLists <- MCProjectLists
  Parents <- MCParents
  Specs <- MCSpecs
  Edits <- MCEdits
  OutOfBand <- MCOutOfBand
  Faults <- MCFaults
INVARIANTS TypeOK InitOnlyNeverAdopted
PROPERTIES Implements CreateOnlyNeverSent RequestsSettle Converges DeletionCompletes
CHECK_DEADLOCK FALSE
