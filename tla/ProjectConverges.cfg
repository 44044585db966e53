SPECIFICATION FairSpec
CONSTANTS
  Nil = Nil
  NoObject = NoObject
  Unborn = Unborn
  Gone = Gone
  Policies = {"Create", "Update", "Delete", "LateInitialize"}
  MaxChaos = 2
  Names <- MCNames
  Descriptions <- MCDescriptions
  PublicIds <- MCPublicIds
  Engines <- MCEngines
  Decimals <- MCDecimals
  ParseFloat <- MCParseFloat
  Ids = {i1, i2, i3}
  Imported = {}
  Specs <- ConvergesSpecs
  Edits <- LifecycleEdits
  OutOfBand <- ConvergesOutOfBand
  Faults <- AllFaults
PROPERTIES RequestsSettle Converges DeletionCompletes
CHECK_DEADLOCK FALSE
