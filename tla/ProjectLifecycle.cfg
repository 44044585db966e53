SPECIFICATION Spec
CONSTANTS
  Nil = Nil
  NoObject = NoObject
  Unborn = Unborn
  Gone = Gone
  Policies = {"Create", "Update", "Delete", "LateInitialize"}
  MaxChaos = 3
  Names <- MCNames
  Descriptions <- MCDescriptions
  PublicIds <- MCPublicIds
  Engines <- MCEngines
  Decimals <- MCDecimals
  ParseFloat <- MCParseFloat
  Ids = {i0, i1, i2, i3}
  Imported = {i0}
  Specs <- LifecycleSpecs
  Edits <- LifecycleEdits
  OutOfBand <- LifecycleOutOfBand
  Faults <- AllFaults
SYMMETRY IdSymmetry
INVARIANTS TypeOK NoSilentLeak NoDuplicate InitOnlyNeverAdopted
PROPERTIES Implements UnsetLeftAlone FinalizerGuards
CHECK_DEADLOCK FALSE
