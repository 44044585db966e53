SPECIFICATION TwoSpec
CONSTANTS
  Nil = Nil
  NoObject = NoObject
  Unborn = Unborn
  Gone = Gone
  Policies = {"Create", "Update", "Delete", "LateInitialize"}
  MaxChaos = 2
  Names = {"n1"}
  Descriptions = {"", "d"}
  PublicIds = {"p1", "p2"}
  Engines = {}
  Decimals = {}
  ParseFloat <- MCParseFloat
  Ids = {i1, i2}
  Imported = {}
  Specs <- MCSpecs
  Edits = {}
  OutOfBand <- MCOutOfBand
  Faults <- MCFaults
SYMMETRY IdSymmetry
INVARIANTS BothJustified NoLeakBetween
PROPERTIES Implements BothLeaveUnset
CHECK_DEADLOCK FALSE
