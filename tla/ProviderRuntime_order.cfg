SPECIFICATION Spec
CONSTANTS
  Threads = {t1}
  Programs = {"provider_assemblies"}
  Assemblies <- MCAssemblies
  Unpublished = {"provider"}
  Target = "provider"
  NativeRoot = "native"
  BuildRoots <- MCBuildRoots
  OverrideRoots <- MCOverrideRoots
  Frameworks <- MCFrameworks
  PackageFolders <- MCPackageFolders
  Builds = {"b1", "b2"}
  None = "none"
  InitialDisks <- MCInitialDisks
  MaxChanges = 0
INVARIANTS
  OverrideComesAfterBundled
CHECK_DEADLOCK FALSE
