SPECIFICATION Spec
CONSTANTS
  Strings <- MCStrings
  Ordinal <- MCOrdinal
  Manifests <- MCManifests
  Requests <- MCRequests
  Hosts = {h1}
  MaxProviders = 4
INVARIANTS
  TypeOK
  ResolutionIsSoundAndComplete
  RoutesAreDetermined
  FallbackIsExplicit
PROPERTIES
  RegistrationNeverDegrades
