SPECIFICATION PackageSpec
CONSTANTS
  Threads = {t1, t2}
  Programs = {"create_managed", "create_with_arguments"}
  Assemblies <- MCAssemblies
  Unpublished = {"provider"}
  Target = "provider"
  NativeRoot = "native"
  BuildRoots <- MCBuildRoots
  OverrideRoots <- MCOverrideRoots
  Frameworks <- MCFrameworks
  PackageFolders <- MCPackageFolders
  Builds = {"b1", "b2"}
  None = "none"
  InitialDisks <- MCInitialDisks
  MaxChanges = 1
  Texts = {"", "text"}
  UriTexts = {"https://api.openai.com/v1", "https://api.openai.com/v1/", "no uri"}
  AbsoluteUris <- MCAbsoluteUris
  WithoutSlash <- MCWithoutSlash
SYMMETRY Symmetry
INVARIANTS
  TypeOK
  UndisturbedSearchFindsAll
  FailuresHaveAReason
  SurfaceTypeOK
  WrappersFitTheirTypes
  ContractsDescribeTheSettings
CHECK_DEADLOCK FALSE
