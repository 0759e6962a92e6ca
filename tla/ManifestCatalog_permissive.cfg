SPECIFICATION Spec
CONSTANTS
  Strings <- MCStrings
  Ordinal <- MCOrdinal
  Paths <- MCPaths
  Contents <- MCContents
  Inputs <- MCInputs
  OptionSets <- MCOptionSets
  Loads = {l1}
  MaxEdits = 0
INVARIANTS
  LoadingIsPermissive
CHECK_DEADLOCK FALSE
