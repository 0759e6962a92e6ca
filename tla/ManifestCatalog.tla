--------------------------- MODULE ManifestCatalog ---------------------------
(***************************************************************************)
(* ProviderManifestCatalog.LoadFilesAsync: provider manifests are read     *)
(* from files one after the other, with an await for each, while the files *)
(* may be edited and the caller may cancel.  Several loads run side by     *)
(* side; each fills a registry of its own (ProviderRegistry).              *)
(*                                                                         *)
(* A file is abstracted to what the loader makes of it: a manifest (the    *)
(* descriptor its JSON describes), or one of the reasons why there is      *)
(* none.  Some reasons become a diagnostic; these no handler catches:      *)
(*   - "refused": a path that no file API takes (it contains a NUL),       *)
(*     whatever is on disk;                                                *)
(*   - "repeated", "repeatedUnknown": an object that names one member of   *)
(*     metadata, or one member the loader does not know, twice;            *)
(*   - "surrogate": a string with half a surrogate pair, which parses as   *)
(*     JSON and cannot be read.                                            *)
(***************************************************************************)
EXTENDS ProviderManifests, SequencesExt

CONSTANTS Loads,      \* calls of LoadFilesAsync
          Paths,      \* file paths, among Strings
          Contents,   \* what a file may hold
          Inputs,     \* path sequences given to LoadFilesAsync
          OptionSets, \* validation options given to it
          MaxEdits    \* bound on the edits of files

\* The fields of a descriptor that the loader fills.
DescriptorFields ==
  {"providerId", "name", "version", "assembly", "schemaVersion", "source", "priority",
   "capabilities", "tags", "metadata", "backendMetadata", "vendorMetadata", "backends"}

Diagnosed == {"missing", "denied", "empty", "malformed", "array"}
Uncaught == {"refused", "repeated", "repeatedUnknown", "surrogate"}
NoManifestKinds == Diagnosed \cup Uncaught

ASSUME CatalogAssumption ==
  /\ Paths \subseteq Strings \ {Blank} /\ IsFiniteSet(Paths)
  /\ \A c \in Contents : \/ /\ c.kind = "manifest" /\ IsDescriptor(c.descriptor)
                            /\ DOMAIN c.descriptor = DescriptorFields
                         \/ c.kind \in NoManifestKinds
  /\ \A input \in Inputs : {input[i] : i \in DOMAIN input} \subseteq Paths \cup {Blank}
  /\ MaxEdits \in Nat

VARIABLES
  disk,         \* path -> content of the file now
  edits,        \* number of edits so far
  pc,           \* load -> "idle", "loading", "done", "cancelled" or "faulted"
  todo,         \* load -> paths it has not read yet, in the order it will
  options,      \* load -> its validation options
  diagnostics,  \* load -> diagnostics collected, as [code, source]
  providers,    \* load -> the list of its registry
  result,       \* load -> the catalog result it returned
  \* History, read by the properties only:
  requested,    \* load -> paths it was asked for
  seen          \* load -> path -> content it read there

vars == <<disk, edits, pc, todo, options, diagnostics, providers, result, requested, seen>>

\* No registry gets longer than the paths given to a load.
LongestInput == CHOOSE n \in {Len(input) : input \in Inputs} :
                  \A input \in Inputs : Len(input) <= n

Registry == INSTANCE ProviderRegistry
              WITH Hosts <- Loads, Manifests <- {}, Requests <- {},
                   MaxProviders <- LongestInput

NoResult == [succeeded |-> FALSE, providers |-> <<>>]

Init ==
  /\ disk \in [Paths -> Contents]
  /\ edits = 0
  /\ pc = [l \in Loads |-> "idle"]
  /\ todo = [l \in Loads |-> <<>>]
  /\ options = [l \in Loads |-> DefaultOptions]
  /\ diagnostics = [l \in Loads |-> {}]
  /\ Registry!Init
  /\ result = [l \in Loads |-> NoResult]
  /\ requested = [l \in Loads |-> {}]
  /\ seen = [l \in Loads |-> <<>>]

-----------------------------------------------------------------------------
(* The loader.                                                             *)

Error(code, source) == [severity |-> "Error", code |-> code, source |-> source]

LoadFailure(code, path) ==
  [succeeded |-> FALSE, throws |-> FALSE, descriptor |-> Null,
   diagnostics |-> {Error(code, path)}]

Loaded(descriptor) ==
  [succeeded |-> TRUE, throws |-> FALSE, descriptor |-> descriptor, diagnostics |-> {}]

Thrown(path) == [LoadFailure("", path) EXCEPT !.throws = TRUE]

\* ToDictionary throws an ArgumentException for a repeated member, GetString an
\* InvalidOperationException for half a surrogate pair; only JsonException is
\* caught.
LoadJson(content, path) ==
  CASE content.kind = "empty"     -> LoadFailure("PROVIDER_MANIFEST_EMPTY", path)
    [] content.kind = "array"     -> LoadFailure("PROVIDER_MANIFEST_ROOT_INVALID", path)
    [] content.kind = "malformed" -> LoadFailure("PROVIDER_MANIFEST_JSON_INVALID", path)
    [] content.kind \in {"repeated", "repeatedUnknown", "surrogate"} -> Thrown(path)
    [] content.kind = "manifest"  -> Loaded([content.descriptor EXCEPT !.source = path])

\* The read throws an ArgumentException for a path it refuses; the filter lets
\* only IOException and UnauthorizedAccessException become a diagnostic.
LoadFile(path) ==
  CASE disk[path].kind = "refused" -> Thrown(path)
    [] disk[path].kind \in {"missing", "denied"} ->
         LoadFailure("PROVIDER_MANIFEST_FILE_READ_FAILED", path)
    [] OTHER -> LoadJson(disk[path], path)

-----------------------------------------------------------------------------
(* Steps of LoadFilesAsync.                                                *)

\* Blank paths are dropped, and nothing else.
PathsToRead_WithRepeats(input) == SelectSeq(input, LAMBDA path : path # Blank)

\* A set of paths in ordinal order, each at the place its predecessors leave it.
InOrdinalOrder(paths) ==
  [n \in 1..Cardinality(paths) |->
     CHOOSE p \in paths : Cardinality({q \in paths : Ordinal[q] < Ordinal[p]}) = n - 1]

\* Blank paths are dropped, repeated ones are read once, in ordinal order.
PathsToRead(input) == InOrdinalOrder(ToSet(input) \ {Blank})

Start(l, input, opts) ==
  /\ pc[l] = "idle"
  /\ pc' = [pc EXCEPT ![l] = "loading"]
  /\ todo' = [todo EXCEPT ![l] = PathsToRead(input)]
  /\ options' = [options EXCEPT ![l] = opts]
  /\ requested' = [requested EXCEPT ![l] = ToSet(input) \ {Blank}]
  /\ UNCHANGED <<disk, edits, diagnostics, providers, result, seen>>

ValidationErrors(load, opts) ==
  {Error(IF f = "capabilities" THEN "PROVIDER_MANIFEST_CAPABILITIES_MISSING"
         ELSE "PROVIDER_MANIFEST_REQUIRED_FIELD_MISSING", load.descriptor.source) :
     f \in IF load.succeeded THEN MissingFields(load.descriptor, opts) ELSE {}}

\* The diagnostics of the validation are dropped.
Report_LoaderOnly(load, opts) == load.diagnostics

\* What one file adds to the diagnostics.
Report(load, opts) == load.diagnostics \cup ValidationErrors(load, opts)

\* A file that could not be loaded is tried again.
Remaining_Retry(queue, load) == IF load.succeeded THEN Tail(queue) ELSE queue

\* The paths that are left when one has been handled.
Remaining(queue, load) == Tail(queue)

\* The await of one file and the synchronous work until the next await.
LoadNext(l) ==
  /\ pc[l] = "loading" /\ todo[l] # <<>>
  /\ LET path  == Head(todo[l])
         load  == LoadFile(path)
         valid == load.succeeded /\ Validate(load.descriptor, options[l])
     IN  /\ seen' = [seen EXCEPT ![l] = CopyInto(@, [p \in {path} |-> disk[path]])]
         /\ todo' = [todo EXCEPT ![l] = Remaining(@, load)]
         /\ pc' = [pc EXCEPT ![l] = IF load.throws THEN "faulted" ELSE @]
         /\ diagnostics' = [diagnostics EXCEPT ![l] =
              IF load.throws THEN @ ELSE @ \cup Report(load, options[l])]
         /\ IF valid THEN Registry!Register(l, load.descriptor) ELSE UNCHANGED providers
  /\ UNCHANGED <<disk, edits, options, result, requested>>

\* The token is observed by the read of a file, and nowhere else.
Cancel(l) ==
  /\ pc[l] = "loading" /\ todo[l] # <<>>
  /\ pc' = [pc EXCEPT ![l] = "cancelled"]
  /\ UNCHANGED <<disk, edits, todo, options, diagnostics, providers, result, requested, seen>>

\* Two entries with one identifier, in the list of a registry.
FindDuplicateProviderIds(list) ==
  {Error("PROVIDER_MANIFEST_DUPLICATE_PROVIDER_ID", list[i].providerId) :
     i \in {k \in DOMAIN list :
              \E j \in DOMAIN list \ {k} : list[j].providerId = list[k].providerId}}

FindDuplicateCapabilities(list) ==
  {[severity |-> "Warning", code |-> "PROVIDER_MANIFEST_DUPLICATE_CAPABILITY",
    source |-> capability] :
     capability \in {c \in UNION {d.capabilities : d \in ToSet(list)} :
       \E d, e \in ToSet(list) : /\ d.providerId # e.providerId
                                   /\ c \in d.capabilities \cap e.capabilities}}

Finish(l) ==
  LET all == diagnostics[l] \cup FindDuplicateProviderIds(providers[l])
                            \cup FindDuplicateCapabilities(providers[l])
  IN  /\ pc[l] = "loading" /\ todo[l] = <<>>
      /\ pc' = [pc EXCEPT ![l] = "done"]
      /\ diagnostics' = [diagnostics EXCEPT ![l] = all]
      /\ result' = [result EXCEPT ![l] =
           [succeeded |-> \A d \in all : d.severity # "Error", providers |-> providers[l]]]
      /\ UNCHANGED <<disk, edits, todo, options, providers, requested, seen>>

\* Somebody replaces a file between two reads.  Nobody makes a path one that is
\* refused, or one that is not.
Edit(path, content) ==
  /\ edits < MaxEdits /\ disk[path] # content
  /\ "refused" \notin {disk[path].kind, content.kind}
  /\ disk' = [disk EXCEPT ![path] = content]
  /\ edits' = edits + 1
  /\ UNCHANGED <<pc, todo, options, diagnostics, providers, result, requested, seen>>

LoadStep(l) == LoadNext(l) \/ Finish(l)

Next ==
  \/ \E l \in Loads :
       \/ \E input \in Inputs, opts \in OptionSets : Start(l, input, opts)
       \/ LoadStep(l)
       \/ Cancel(l)
  \/ \E path \in Paths, content \in Contents : Edit(path, content)

Spec == Init /\ [][Next]_vars

-----------------------------------------------------------------------------
(* Properties.                                                             *)

TypeOK ==
  /\ disk \in [Paths -> Contents]
  /\ edits \in 0..MaxEdits
  /\ pc \in [Loads -> {"idle", "loading", "done", "cancelled", "faulted"}]
  /\ todo \in [Loads -> Seq(Paths)] /\ requested \in [Loads -> SUBSET Paths]
  /\ options \in [Loads -> OptionSets \cup {DefaultOptions}]
  /\ \A l \in Loads :
       /\ Len(providers[l]) <= Cardinality(requested[l])
       /\ \A i \in DOMAIN providers[l] : IsDescriptor(providers[l][i])
       /\ \A d \in diagnostics[l] : d.severity \in {"Error", "Warning"}
       /\ DOMAIN seen[l] = requested[l] \ ToSet(todo[l])

\* The descriptor that a load made of a path, from what it read there.
ValidManifest(l, path) ==
  /\ seen[l][path].kind = "manifest"
  /\ Validate([seen[l][path].descriptor EXCEPT !.source = path], options[l])

\* A load succeeds exactly when every file it was asked for was, at the moment
\* it was read, a valid manifest, and no two of them had one identifier; its
\* result then has one provider for each file, whatever was edited meanwhile
\* and however often a path was listed.  A capability that several providers
\* share is no obstacle (ProviderManifestCatalog.LoadFilesAsync).
SuccessMeansEveryFileCounts ==
  \A l \in Loads : pc[l] = "done" =>
    LET Id(path) == seen[l][path].descriptor.providerId IN
    /\ result[l].succeeded <=>
         /\ \A path \in requested[l] : ValidManifest(l, path)
         /\ \A p, q \in requested[l] : p # q => Id(p) # Id(q)
    /\ result[l].succeeded =>
         /\ Len(result[l].providers) = Cardinality(requested[l])
         /\ {d.source : d \in ToSet(result[l].providers)} = requested[l]

\* No file is lost without a word: when a load returns, every requested path
\* has a provider in the result or an error diagnostic of its own, and never
\* both (ProviderManifestCatalog.LoadFilesAsync).
NoFileIsLostSilently ==
  \A l \in Loads : pc[l] = "done" =>
    \A path \in requested[l] :
      (\E d \in ToSet(result[l].providers) : d.source = path)
        <=> ~(\E d \in diagnostics[l] : /\ d.severity = "Error" /\ d.source = path
                                        /\ d.code # "PROVIDER_MANIFEST_DUPLICATE_PROVIDER_ID")

\* A load ends by an exception exactly when it gets to read a file for which
\* the loader has no handler, at the first of them, and whatever else it has
\* read: a path that is refused, a repeated member, half a surrogate pair.
\* Every other file without a manifest is only reported
\* (ProviderManifestLoader.cs:99 and :145).
FaultsAreUncaughtErrors ==
  \A l \in Loads :
    LET uncaught == {path \in DOMAIN seen[l] : seen[l][path].kind \in Uncaught} IN
    /\ pc[l] = "faulted" <=> uncaught # {}
    /\ \A p, q \in uncaught : p = q

\* A load accounts for every file it was asked for: in its success, in its
\* diagnostics, or by the one exception that ends it
\* (ProviderManifestCatalog.LoadFilesAsync).
EveryFileIsAccountedFor ==
  SuccessMeansEveryFileCounts /\ NoFileIsLostSilently /\ FaultsAreUncaughtErrors

\* "Manifest loading is permissive: unknown top-level JSON and unknown CLI JSON
\* are preserved as raw extension JSON" (docs/providers/index.md:50): what the
\* loader does not know is no reason for a load to end by an exception
\* (ProviderManifestLoader.ReadExtensionJson).
LoadingIsPermissive ==
  \A l \in Loads : pc[l] = "faulted" =>
    \E path \in DOMAIN seen[l] : seen[l][path].kind \in Uncaught \ {"repeatedUnknown"}

\* Loads of the same files under the same options agree as long as no file is
\* edited: on success and on the manifests, whatever the order and the
\* repetitions in which the paths were given ("deterministic provider
\* registry", ProviderManifestCatalog.cs:42).
LoadsAgree ==
  \A k, l \in Loads :
    /\ edits = 0 /\ pc[k] = "done" /\ pc[l] = "done"
    /\ requested[k] = requested[l] /\ options[k] = options[l]
    => /\ result[k].succeeded = result[l].succeeded
       /\ result[k].succeeded => result[k].providers = result[l].providers
       /\ ToSet(result[k].providers) = ToSet(result[l].providers)
=============================================================================
