SPECIFICATION FairSpec
CONSTANTS
  Nil = Nil
  NoObject = NoObject
  Unborn = Unborn
  Gone = Gone
  Policies = {"Create", "Update", "Delete", "LateInitialize"}
  MaxChaos = 1
  Names = {"n"}
  Languages = {"go", "react"}
  Environments = {"prod"}
  ProjectLists <- MCProjectLists
  ProxyHosts <- MCProxyHosts
  Ids = {i1, i2}
  Imported = {}
  Specs <- EncryptedSpecs
  Edits <- Nothing
  OutOfBand <- Nothing
  Faults <- FewFaults
PROPERTIES EncryptionKeyPublished
CHECK_DEADLOCK FALSE
