SPECIFICATION Spec
CONSTANTS
  None = None
  good = good
  odd = odd
  blank = blank
  Keys <- MCKeys
  WellFormed <- MCWellFormed
  Guarded <- MCGuarded
  Configs <- MCConfigs
  Prompts <- MCPrompts
  Requests = {r1}
  MaxStarts = 2
  MaxRotations = 2
INVARIANTS
  TypeOK
  ClientHasAVettedKey
  ClientAgreesWithOptions
  RolesAreThoseAdvertised
CHECK_DEADLOCK FALSE
