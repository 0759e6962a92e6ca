SPECIFICATION PackageSpec
CONSTANTS
  Writers = {w1, w2}
  Sessions = {s1}
  Kinds = {"memory", "physical", "zip"}
  Paths <- MCPaths
  Folders <- MCFolders
  Names = {"n"}
  Ordinal <- MCOrdinal
  Limit = 1
  MaxDepth = 2
  MaxBusy = 2
  Threads = {t1, t2, t3}
  Ids = {p1, p2}
  None = None
  MaxCalls = 4
SYMMETRY Symmetry
INVARIANTS
  TypeOK
  ListingsMissNothing
  CallsFailOnlyIfDisturbed
  FilesAreWhole
  SupervisorTypeOK
  LastUpdateDecides
