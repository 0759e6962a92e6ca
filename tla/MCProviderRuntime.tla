-------------------------- MODULE MCProviderRuntime --------------------------
(* ProviderRuntime for TLC: one assembly of this repository, which is never *)
(* looked for in NuGet packages, and one that is; a place of every kind.    *)
EXTENDS ProviderRuntime, TLC

MCAssemblies == << "dependency", "provider" >>
MCBuildRoots == << "build" >>
MCOverrideRoots == << "override" >>
MCFrameworks == << "net10" >>
MCPackageFolders == << "other", "net10" >>

\* Where each assembly is at first.  The copies in the build folder and in
\* the package folder "other" are of another build than the rest.
Present == [dependency |-> {{}, {"native"}, {"build", "net10"}, {"other"}},
            provider |-> {{}, {"native"}, {"build", "override"}, {"override", "net10"}}]
DiskOf(where) ==
  [a \in {"dependency", "provider"} |->
     [place \in {"native", "build", "override", "net10", "other"} |->
        IF place \notin where[a] THEN "none"
        ELSE IF place \in {"build", "other"} THEN "b2" ELSE "b1"]]
MCInitialDisks ==
  {DiskOf([dependency |-> d, provider |-> p]) :
     d \in Present["dependency"], p \in Present["provider"]}

Symmetry == Permutations(Threads)
=============================================================================
