SPECIFICATION Spec
CONSTANTS
  Strings <- MCStrings
  Ordinal <- MCOrdinal
  Paths <- MCPaths
  Contents <- MCContents
  Inputs <- MCInputs
  OptionSets <- MCOptionSets
  Loads = {l1, l2}
  MaxEdits = 1
SYMMETRY Symmetry
INVARIANTS
  TypeOK
  EveryFileIsAccountedFor
  LoadsAgree
CHECK_DEADLOCK FALSE
