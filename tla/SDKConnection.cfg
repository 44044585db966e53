SPECIFICATION FairSpec
CONSTANTS
  Nil = Nil
  NoObject = NoObject
  Unborn = Unborn
  Gone = Gone
  Policies = {"Create", "Update", "Delete", "LateInitialize"}
  MaxChaos = 2
  Names = {"n"}
  Languages = {"go", "react"}
  Environments = {"prod"}
  ProjectLists <- MCProjectLists
  ProxyHosts <- MCProxyHosts
  Ids = {i0, i1, i2, i3}
  Imported = {i0}
  Specs <- MCSpecs
  Edits <- MCEdits
  OutOfBand <- MCOutOfBand
  Faults <- MCFaults
INVARIANTS TypeOK KeyOfNamed
PROPERTIES Implements UnsetLeftAlone Converges DeletionCompletes
CHECK_DEADLOCK FALSE
