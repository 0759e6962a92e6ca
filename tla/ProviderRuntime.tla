--------------------------- MODULE ProviderRuntime ---------------------------
(***************************************************************************)
(* The Python package finds the managed assemblies on disk and loads them  *)
(* through pythonnet (native/__init__.py), and its wrappers resolve types  *)
(* and create objects in them (managed.py, standard.py, microsoft_ai.py).  *)
(* Nothing is cached and no lock is taken: every call searches the disk    *)
(* again, file by file, while other threads do the same and while builds,  *)
(* restores and clean-ups change the files.                                *)
(*                                                                         *)
(* A call is the sequence of its phases.  The phases that look at files    *)
(* take one step per file.                                                 *)
(*                                                                         *)
(* A file is abstracted to the build it holds.  What pythonnet and the     *)
(* runtime do with a file is modelled from how the package uses them:      *)
(* System can be imported once clr has been; an assembly is loaded once    *)
(* per process and name; a second build of a loaded name is either         *)
(* ignored or refused.                                                     *)
(***************************************************************************)
EXTENDS Integers, Sequences

CONSTANTS
  Threads,         \* Python threads; each makes one call
  Programs,        \* the calls they choose from, a subset of DOMAIN Phases
  Assemblies,      \* the tuple _ASSEMBLIES
  Unpublished,     \* assemblies never looked for among the NuGet packages
  Target,          \* the assembly whose type a call asks for
  NativeRoot,      \* the package's own folder
  BuildRoots,      \* build folders of a source checkout, in their order
  OverrideRoots,   \* AIKERNEL_PROVIDERS_ASSEMBLY_PATH, in its order
  Frameworks,      \* framework folders of a NuGet package, in the order tried
  PackageFolders,  \* all folders of a NuGet package, as rglob lists them
  Builds,          \* what a file may hold
  None,            \* no file, not loaded
  InitialDisks,    \* the disks to start from
  MaxChanges       \* bound on the changes made to the disk

Names == {Assemblies[i] : i \in DOMAIN Assemblies}
Elements(places) == {places[i] : i \in DOMAIN places}
Places == {NativeRoot} \cup Elements(BuildRoots) \cup Elements(OverrideRoots)
            \cup Elements(Frameworks) \cup Elements(PackageFolders)
Disks == [Names -> [Places -> Builds \cup {None}]]

-----------------------------------------------------------------------------
\* Phases of the calls.

\* load_provider_runtime: resolve every assembly, see that all are there,
\* start the runtime, reference them.
load_provider_runtime == << "resolve", "require", "clr", "reference" >>

\* managed_type: load, import System, look the type up.
managed_type == load_provider_runtime \o << "system", "type" >>

\* create_managed loads before it imports System, and again in managed_type.
create_managed == load_provider_runtime \o << "system" >> \o managed_type \o << "object" >>

\* _create without arguments is create_managed; with arguments it imports
\* System to build the argument array, and only then loads.
create_with_arguments == << "system" >> \o managed_type \o << "object" >>

\* _object_array, of managed.py and of microsoft_ai.py.
object_array == load_provider_runtime \o << "system" >>

\* call_static: the method of the type, the argument array, the call.
call_static == managed_type \o object_array \o << "object" >>

\* microsoft_ai_exception_types resolves six types, one after the other.
exception_types == managed_type \o managed_type \o managed_type
                     \o managed_type \o managed_type \o managed_type

Phases == [provider_assemblies |-> << "resolve" >>,
           require_provider_assemblies |-> << "resolve", "require" >>,
           load_provider_runtime |-> load_provider_runtime,
           create_managed |-> create_managed,
           create_with_arguments |-> create_with_arguments,
           call_static |-> call_static,
           exception_types |-> exception_types]

PhaseNames == {"resolve", "require", "missing", "clr", "reference", "system", "type", "object"}
Results == {"none", "ok", "FileNotFoundError", "RuntimeError", "ReferenceFailed",
            "ModuleNotFoundError", "Unresolved"}

ASSUME RuntimeAssumption ==
  /\ Assemblies \in Seq(Names)
  /\ Unpublished \subseteq Names /\ Target \in Names
  /\ BuildRoots \in Seq(Places) /\ OverrideRoots \in Seq(Places)
  /\ Frameworks \in Seq(Places) /\ PackageFolders \in Seq(Places)
  /\ None \notin Builds
  /\ InitialDisks \subseteq Disks
  /\ Programs \subseteq DOMAIN Phases
  /\ MaxChanges \in Nat

VARIABLES
  disk,       \* assembly -> place -> build of the file there, or None
  changes,    \* number of changes made to the disk
  pythonnet,  \* is pythonnet installed?
  clr,        \* has clr been imported?
  loaded,     \* assembly -> build in the process, or None
  program,    \* thread -> the call it makes, or "none"
  todo,       \* thread -> phases it still has to go through
  at,         \* thread -> number of the assembly it looks at in this phase
  tried,      \* thread -> places it has tried for this assembly
  found,      \* thread -> places its last search settled on, in order
  missing,    \* thread -> names for the error message
  result,     \* thread -> how the call ended
  \* History, read by the properties only:
  disturbed   \* thread -> was the disk changed during the call?

processVars == <<pythonnet, clr, loaded>>
threadVars == <<program, todo, at, tried, found, missing, result>>
vars == <<disk, changes, processVars, threadVars, disturbed>>

Init ==
  /\ disk \in InitialDisks
  /\ changes = 0
  /\ pythonnet \in BOOLEAN
  /\ clr = FALSE
  /\ loaded = [a \in Names |-> None]
  /\ program = [t \in Threads |-> "none"]
  /\ todo = [t \in Threads |-> <<>>]
  /\ at = [t \in Threads |-> 1]
  /\ tried = [t \in Threads |-> 0]
  /\ found = [t \in Threads |-> <<>>]
  /\ missing = [t \in Threads |-> {}]
  /\ result = [t \in Threads |-> "none"]
  /\ disturbed = [t \in Threads |-> FALSE]

-----------------------------------------------------------------------------
\* Where files are looked for.

\* The override goes first.
AssemblyRoots_OverrideFirst == OverrideRoots \o << NativeRoot >> \o BuildRoots

\* _assembly_roots: the package, the build folders, the override.
AssemblyRoots == << NativeRoot >> \o BuildRoots \o OverrideRoots

\* _resolve_nuget_assembly: the known frameworks, then anything rglob finds.
\* The five provider packages of this repository are left out.
NuGetPlaces(a) == IF a \in Unpublished THEN <<>> ELSE Frameworks \o PackageFolders

\* _resolve_assembly, as the places it tries in turn.
SearchPath(a) == AssemblyRoots \o NuGetPlaces(a)

Exists(a, place) == disk[a][place] # None

In(t, phase) == todo[t] # <<>> /\ Head(todo[t]) = phase
Looking(t) == at[t] \in DOMAIN Assemblies
Name(t) == Assemblies[at[t]]

\* The number of the assembly is counted on instead of starting anew.
Proceed_CountsOn(t) ==
  /\ todo' = [todo EXCEPT ![t] = Tail(@)]
  /\ at' = [at EXCEPT ![t] = @ + 1]
  /\ tried' = [tried EXCEPT ![t] = 0]
  /\ result' = [result EXCEPT ![t] = IF Len(todo[t]) = 1 THEN "ok" ELSE @]

\* The next phase of the call, or its end.
Proceed(t) ==
  /\ todo' = [todo EXCEPT ![t] = Tail(@)]
  /\ at' = [at EXCEPT ![t] = 1]
  /\ tried' = [tried EXCEPT ![t] = 0]
  /\ result' = [result EXCEPT ![t] = IF Len(todo[t]) = 1 THEN "ok" ELSE @]

\* An exception leaves the call.
Raise(t, error) ==
  /\ todo' = [todo EXCEPT ![t] = <<>>]
  /\ result' = [result EXCEPT ![t] = error]
  /\ UNCHANGED <<at, tried>>

NextAssembly(t) ==
  /\ at' = [at EXCEPT ![t] = @ + 1]
  /\ tried' = [tried EXCEPT ![t] = 0]
  /\ UNCHANGED <<todo, result>>

-----------------------------------------------------------------------------
\* Steps of a call.

Call(t, p) ==
  /\ program[t] = "none"
  /\ program' = [program EXCEPT ![t] = p]
  /\ todo' = [todo EXCEPT ![t] = Phases[p]]
  /\ UNCHANGED <<disk, changes, processVars, at, tried, found, missing, result, disturbed>>

\* One candidate of _resolve_assembly.  When none exists, the path in the
\* package's own folder stands for the assembly all the same.
Settle(t, place) ==
  /\ found' = [found EXCEPT ![t] = IF at[t] = 1 THEN << place >> ELSE Append(@, place)]
  /\ NextAssembly(t)

Probe(t) ==
  /\ In(t, "resolve") /\ Looking(t)
  /\ LET path == SearchPath(Name(t))
         next == tried[t] + 1
     IN \/ /\ next \in DOMAIN path
           /\ Exists(Name(t), path[next])
           /\ Settle(t, path[next])
        \/ /\ next \in DOMAIN path
           /\ ~Exists(Name(t), path[next])
           /\ tried' = [tried EXCEPT ![t] = next]
           /\ UNCHANGED <<todo, at, found, result>>
        \/ /\ next \notin DOMAIN path
           /\ Settle(t, NativeRoot)
  /\ UNCHANGED <<disk, changes, processVars, program, missing, disturbed>>

Resolved(t) ==
  /\ In(t, "resolve") /\ ~Looking(t)
  /\ Proceed(t)
  /\ UNCHANGED <<disk, changes, processVars, program, found, missing, disturbed>>

\* The assemblies are taken to be there.
Require_Trusting(t) ==
  /\ In(t, "require")
  /\ Proceed(t)
  /\ UNCHANGED <<disk, changes, processVars, program, found, missing, disturbed>>

\* is_complete looks at each file again; the first that is gone sends the
\* call to the names for its error message.
Require(t) ==
  /\ In(t, "require")
  /\ \/ /\ Looking(t) /\ Exists(Name(t), found[t][at[t]])
        /\ NextAssembly(t)
     \/ /\ Looking(t) /\ ~Exists(Name(t), found[t][at[t]])
        /\ todo' = [todo EXCEPT ![t] = << "missing" >>]
        /\ at' = [at EXCEPT ![t] = 1]
        /\ UNCHANGED <<tried, result>>
     \/ ~Looking(t) /\ Proceed(t)
  /\ UNCHANGED <<disk, changes, processVars, program, found, missing, disturbed>>

\* The property missing looks at each file for a third time.
NameMissing(t) ==
  /\ In(t, "missing")
  /\ \/ /\ Looking(t)
        /\ missing' = IF Exists(Name(t), found[t][at[t]]) THEN missing
                      ELSE [missing EXCEPT ![t] = @ \cup {Name(t)}]
        /\ NextAssembly(t)
     \/ /\ ~Looking(t)
        /\ Raise(t, "FileNotFoundError")
        /\ UNCHANGED missing
  /\ UNCHANGED <<disk, changes, processVars, program, found, disturbed>>

\* load("coreclr"), whose RuntimeError is swallowed, and import clr.
ImportClr(t) ==
  /\ In(t, "clr")
  /\ \/ pythonnet /\ clr' = TRUE /\ Proceed(t)
     \/ ~pythonnet /\ UNCHANGED clr /\ Raise(t, "RuntimeError")
  /\ UNCHANGED <<disk, changes, pythonnet, loaded, program, found, missing, disturbed>>

\* clr.AddReference for one path.
AddReference(t) ==
  LET build == disk[Name(t)][found[t][at[t]]] IN
  /\ In(t, "reference")
  /\ \/ /\ Looking(t) /\ build # None
        /\ loaded[Name(t)] \in {None, build}
        /\ loaded' = [loaded EXCEPT ![Name(t)] = build]
        /\ NextAssembly(t)
     \/ /\ Looking(t) /\ build # None
        /\ loaded[Name(t)] \notin {None, build}
        /\ NextAssembly(t) \/ Raise(t, "ReferenceFailed")
        /\ UNCHANGED loaded
     \/ /\ Looking(t) /\ build = None
        /\ Raise(t, "ReferenceFailed")
        /\ UNCHANGED loaded
     \/ /\ ~Looking(t)
        /\ Proceed(t)
        /\ UNCHANGED loaded
  /\ UNCHANGED <<disk, changes, pythonnet, clr, program, found, missing, disturbed>>

\* from System import ...: the module exists once clr has been imported.
ImportSystem(t) ==
  /\ In(t, "system")
  /\ IF clr THEN Proceed(t) ELSE Raise(t, "ModuleNotFoundError")
  /\ UNCHANGED <<disk, changes, processVars, program, found, missing, disturbed>>

\* Type.GetType, which answers None unless the assembly is there.
GetType(t) ==
  /\ In(t, "type")
  /\ IF loaded[Target] # None THEN Proceed(t) ELSE Raise(t, "Unresolved")
  /\ UNCHANGED <<disk, changes, processVars, program, found, missing, disturbed>>

\* Activator.CreateInstance, or Invoke of a method that creates the object.
CreateObject(t) ==
  /\ In(t, "object")
  /\ Proceed(t)
  /\ UNCHANGED <<disk, changes, processVars, program, found, missing, disturbed>>

\* A file is built, restored, replaced or removed by others.
ChangeFile(a, place, build) ==
  /\ changes < MaxChanges
  /\ disk[a][place] # build
  /\ disk' = [disk EXCEPT ![a][place] = build]
  /\ changes' = changes + 1
  /\ disturbed' = [t \in Threads |-> disturbed[t] \/ todo[t] # <<>>]
  /\ UNCHANGED <<processVars, threadVars>>

Step(t) ==
  \/ Probe(t) \/ Resolved(t) \/ Require(t) \/ NameMissing(t)
  \/ ImportClr(t) \/ AddReference(t) \/ ImportSystem(t) \/ GetType(t) \/ CreateObject(t)

Next ==
  \/ \E t \in Threads, p \in Programs : Call(t, p)
  \/ \E t \in Threads : Step(t)
  \/ \E a \in Names, place \in Places, build \in Builds \cup {None} :
        ChangeFile(a, place, build)

\* A thread that is in a call goes on with it: nothing it does blocks.  The
\* disk may change or stay.
Spec == Init /\ [][Next]_vars /\ \A t \in Threads : WF_vars(Step(t))

-----------------------------------------------------------------------------
\* Properties.

\* A call has at most one more assembly to look at than there are, and what it
\* has settled on and has to report are places and names of the package
\* (native/__init__.py).
TypeOK ==
  /\ disk \in Disks
  /\ changes \in Nat
  /\ pythonnet \in BOOLEAN /\ clr \in BOOLEAN
  /\ loaded \in [Names -> Builds \cup {None}]
  /\ program \in [Threads -> Programs \cup {"none"}]
  /\ todo \in [Threads -> Seq(PhaseNames)]
  /\ at \in [Threads -> 1..(Len(Assemblies) + 1)]
  /\ tried \in [Threads -> Nat]
  /\ found \in [Threads -> Seq(Places)]
  /\ missing \in [Threads -> SUBSET Names]
  /\ result \in [Threads -> Results]
  /\ disturbed \in [Threads -> BOOLEAN]

\* Where an assembly may come from, what goes first in front: the package, the
\* folders of the machine (builds of the checkout and the override, in whatever
\* order), the packages of NuGet.
Sources(a) ==
  << {NativeRoot}, Elements(BuildRoots) \cup Elements(OverrideRoots) >>
    \o IF a \in Unpublished THEN <<>>
       ELSE << Elements(Frameworks), Elements(PackageFolders) >>

Has(a, k) == \E place \in Sources(a)[k] : Exists(a, place)
Nowhere == {a \in Names : \A k \in DOMAIN Sources(a) : ~Has(a, k)}

ComesFromTheFirst(a, place) ==
  \/ a \in Nowhere /\ place = NativeRoot
  \/ \E k \in DOMAIN Sources(a) :
       /\ place \in Sources(a)[k] /\ Exists(a, place)
       /\ \A earlier \in 1..(k - 1) : ~Has(a, earlier)

\* The disk is still the one thread t has seen all the time.
SeesTheDisk(t) == (result[t] = "none" /\ ~disturbed[t]) \/ changes = 0

\* A search during which the disk stays as it is finds every assembly that is
\* somewhere: the copy of the package, if it has one, else one of the builds
\* or of the override, and only then a package of NuGet, in a known framework
\* if it can.  If the call ends for want of files, it names exactly the
\* assemblies that are nowhere, and it passes only if there are none
\* (native/__init__.py, _resolve_assembly and require_provider_assemblies).
UndisturbedSearchFindsAll ==
  \A t \in Threads : SeesTheDisk(t) =>
    /\ \A i \in DOMAIN found[t] : ComesFromTheFirst(Assemblies[i], found[t][i])
    /\ result[t] = "FileNotFoundError" => missing[t] = Nowhere /\ Nowhere # {}
    /\ todo[t] # <<>> /\ Head(todo[t]) \in {"clr", "reference", "type", "object"} => Nowhere = {}

\* "provider_assemblies() is intended to resolve bundled assemblies first, then
\* paths from AIKERNEL_PROVIDERS_ASSEMBLY_PATH, then matching NuGet packages"
\* (docs/python/index.md:86): an assembly that is not bundled comes from the
\* override if that has it (native/__init__.py, _assembly_roots).
OverrideComesAfterBundled ==
  \A t \in Threads : SeesTheDisk(t) =>
    \A i \in DOMAIN found[t] :
      LET a == Assemblies[i]
          override == {place \in Elements(OverrideRoots) : Exists(a, place)}
      IN  ~Exists(a, NativeRoot) /\ override # {} => found[t][i] \in override

\* A call fails only for the reason it gives.  As long as nobody writes to
\* the files, threads do not disturb one another: no reference is refused,
\* whatever their interleaving.  System is missing only to the calls that
\* import it before they load (standard.py, _create with arguments).  After
\* a load, a type of the assemblies always resolves, although other threads
\* load at the same time and files come and go.
FailuresHaveAReason ==
  \A t \in Threads :
    /\ result[t] = "ReferenceFailed" => changes > 0
    /\ result[t] = "RuntimeError" => ~pythonnet
    /\ result[t] = "ModuleNotFoundError" => program[t] = "create_with_arguments"
    /\ result[t] # "Unresolved"
=============================================================================
