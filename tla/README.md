# AIKernel.Providers in TLA+

A model of the provider layer of AIKernel.NET: the TLA+ modules in this
directory are translated from the C# sources below `src/src` and the Python
package below `src/python`, TLC runs them on small instances, and TLAPS proves
the theorems of the eight `*Proofs` modules for every value of the constants.  `PROJECT.json` says for each definition
which lines of the code it stands for; this file says how the parts fit
together, what has been shown, and what has not.

- [1 The system](#1-the-system)
- [2 The modules](#2-the-modules)
- [3 The runs](#3-the-runs)
- [4 The proofs](#4-the-proofs)
- [5 Where the code differs from what it says](#5-where-the-code-differs-from-what-it-says)
- [6 What is not modelled](#6-what-is-not-modelled)
- [7 Plan](#7-plan)

## 1 The system

The repository holds the drivers of an AI operating system.  A host loads
*manifests* that describe providers, puts them in a *registry*, and asks a
*router* which provider and which of its backends serve a request.  The
providers themselves are separate libraries: an event bus, a process supervisor,
file systems, network streams, a scheduler and compute drivers for the host;
clients of language models; perception kernels for a robot.  They meet in few
places: manifests feed the registry, the registry feeds the router, the
dependency injection of a host builds the providers and runs their startup
validators, and a caller chains perception kernels into the sensor fusion.
A Python package wraps a part of the libraries: it finds the assemblies on disk,
loads them through pythonnet and reaches types, constructors and members by name.

### Components that are modelled

| Component | State | Operations | What is hard | What makes it correct |
|---|---|---|---|---|
| Event bus (`EventBusProvider`) | a list of handlers per event, a dictionary from subscription to event, a lock per list | `Subscribe`, `PublishAsync`, `Unsubscribe` (`GetSubscriberCount` only reads) | the two dictionaries change in separate steps; a publish awaits handlers between which the list changes | no handler is orphaned; an id is removed once; a publish reaches whom it owes, in order, and nobody who had left |
| Registry (`ProviderRegistry`) | a sorted list | `Register`, `List` | the sort is not stable, so equal providers have no fixed place | sorted and validated; a registration never hurts other providers |
| Router (`ProviderRouter`) | none | `Resolve`, `GetAvailabilityProbeOrder` | a ten-part sort key, written twice; ties; backends with capabilities of their own; a fallback that ignores the capability | sound, complete, deterministic, fallback only when asked for |
| Manifests (`ProviderManifestLoader`, `-Validator`, `-MergePolicy`, `-Catalog`) | the list of a load in progress, its diagnostics | `LoadFilesAsync`, `Validate`, `MergeMetadata` | an await per file, edits between two reads, cancellation, one bad file among good ones | every file ends in the result, in a diagnostic or in the one exception of its load, and loads of the same files agree |
| Process supervisor (`ProcessSupervisorProvider`) | a table of entries, and a handle per process with a state of its own | `Start`, `CreateProcessAsync`, `KillAsync`, `RestartAsync`, `StopAsync`, `StartAsync` | an update is a read and a later write; the state is kept twice | the last update decides |
| OpenAI hosting (`WithOpenAI`, `OpenAICompatibleProvider`) | cached options, the client built from them, the initialised flag | `StartAsync` of the validator, lazy creation, `GenerateAsync`, `StreamGenerateAsync`, `AnswerAsync` | the key is fetched in an await between checks and use; restarts; rotation of the secret | only vetted keys; the client agrees with the options; roles are those advertised |
| File systems and virtual file sessions (`MemoryFileSystemProvider`, `PhysicalFileSystemProvider`, `ZipFileSystemProvider`, `StandardFileSystemVfsSession`) | a dictionary, a directory on disk or an archive; a session's directory is a list of paths that is never brought up to date | `WriteText`, `Delete`, `List`, `GetDirectoryAsync`, `GetFilesAsync`, `GetEntriesAsync`, `QueryAsync` | entries are tested and then read; each page of a query lists anew; a file is cut before it is filled; three spellings of paths | what is there all the time is found, once; a call throws only for what went during it; no file stays empty or torn |
| Perception kernels, sensor fusion, retry intent | none: the caller holds the results | masks, palettes, pooling, morphology, edges, differences, optical flow, filters, Kalman, direction, bands, spectrum, spatial hash; normalise, fuse, decide a retry | index arithmetic at borders, wrap-around of hues and headings, rounding at every frame, aliases that overwrite one another | algebraic laws between the results, and agreement with a second way to compute them |
| Assembly discovery and loading (`native/__init__.py`) | none of its own; the process keeps what is loaded | `provider_assemblies`, `require_provider_assemblies`, `load_provider_runtime`, and the calls built on them | nothing is cached and no lock is taken; files are tested, tested again and then read while builds and other threads work | the copy of the package wins, NuGet comes last, what is missing is named, and a call fails for its own reasons only |
| Managed bridge and wrappers (`managed.py`, `standard.py`, `microsoft_ai.py` and six more) | a managed object per wrapper | `create`, the attributes, `to_contract`, `find_managed_type` | types, members and positions of arguments are strings, written down in Python and in C# | every name exists, every value arrives under the right name, with the right type, null as `None` |
| Catalogue (`api_catalog.py`) | a constant | `managed_api_catalog`, `managed_type_names`, `find_managed_type`, `managed_api_summary` | 5 653 generated lines that only agreement with C# makes right | it knows every wrapped type where the wrapper looks for it |
| Capability contracts (the five `*PythonBridge.cs` and `*CapabilityContracts.cs`) | none | `ToContract`, `ToMetadata` | up to fourteen strings by position | a contract is that of the settings it was made from |

### How they interact

- `ProviderManifestCatalog` calls the loader, the validator and
  `ProviderRegistry.Register` for each file, and the duplicate searches at the
  end.  `ManifestCatalog` composes the same way: it instantiates
  `ProviderRegistry` with one host per load and takes its `Register` action.
- `ProviderRouter` reads `registry.List()`; its operators are functions of that
  list, evaluated by the properties in every state of `ProviderRegistry`.
- The supervisor gives each handle a callback to itself (`_update`), so a call of
  the handle becomes a read of the handle followed by an update of the table.
- The startup validator writes the fetched secret into the same options object
  that the client factory reads: shared state of three components without a lock.
- A session of a file system calls the provider it was opened on, once per access:
  other writers of the same store run between two of its calls.
- The fusion kernel takes the map the normaliser returns, and so does the retry
  resolver; each gives its own meaning to a sensor that is absent.
- A wrapper of the Python package goes through a load for every object it creates:
  `ProviderRuntime` is that load, phase by phase, and `PythonWrappers` starts where it
  has worked.  `to_contract` hands the fields of a Python dataclass to `CapabilityContracts`,
  and the attributes of a wrapper are compared with the members `ManagedCatalog` lists.

### Components that are not modelled

They are listed in `PROJECT.json` with their files; section 6 says why, and what is
known about them.

## 2 The modules

One convention holds everywhere: a definition called `X_Fault` (for example
`RecordSubscription_NoEntry`) is `X` with a plausible programming error.  Nothing
uses it.  Putting it in the place of `X` makes exactly the property it is paired
with in `PROJECT.json` fail, which shows that the property watches the code.

Strings are compared by the code, never taken apart, except for trimming and
case; they are TLA+ strings with an explicit order (`Ordinal`, `Position`) or with
a table of what trimming and case folding make of them (`Folded`, `Normalised`).
Requests that an argument check refuses without any effect are left out, and so is
logging.

### `EventBus`, `PubSub`, `EventBusProofs`

`EventBus` is `EventBusProvider.cs`.  `handlers` is `_handlers`, with the order of a
list kept apart in `addedAt`, since a list is only appended to and filtered;
`subscriptionEvents` is `_subscriptionEvents`.  Each caller is a thread with a `pc`:

- `Subscribe` adds to the list under its lock, `RecordSubscription` writes the second
  dictionary and returns the id: other callers run between the two.
- `Publish` takes the snapshot, each iteration of the loop is `Invoke` and then
  `HandlerCompletes` or `HandlerThrows`; `CancelPublish` is the check at the head of an
  iteration, `FinishPublish` the end.  While a handler is awaited everything else may
  happen, calls of the handler itself included (they are made by another thread
  of the model, the awaiting one stays in `"handling"`).
- `RemovedSubscriptionEvent` is the `TryRemove` that decides between callers, and
  `RemoveHandler` the filtering of the list by the winner.

`returned`, `removals`, `refused`, `log`, `audience`, `excluded` and `outcome` are history
that only properties read.  An Unsubscribe that loses may return false while the
handler is still in the list, so unsubscribing is not linearizable as a single
step; `OneUnsubscribeWins` states what the callers can rely on instead.

`PubSub` is the promise: members join once and leave for good, a publish owes one call
to each member it saw when it started.  `EventBus` refines it with the list as
`members` and the rest of the snapshot as `owed` (`ImplementsPubSub`).

### `ProviderManifests`, `ProviderRouting`, `ProviderRegistry`, `ProviderRegistryProofs`

`ProviderManifests` has what is known of a provider, the merge of its metadata
(`MergeMetadata`) and the validation.  `ProviderRouting` is `ProviderRouter.cs`: a list
that `Where` has filtered is the set of positions it kept, a chain of
`OrderBy`/`ThenBy` is a key of integers, and the first element of the stable sort
is the position that no other comes before.  The integers of the code (the rank
offsets -10000, -1000, -100 and 100, `int.MaxValue` for a specificity that does not
apply) are kept.  `ProviderRegistry` adds the list, `Register` with its validation, and
a sort that may leave any order among equals.  Its `Hosts` are processes that each
fill a registry.  What another order of registration would have left is among the lists that
`Sort` enumerates, so one host is enough to compare two orders.

### `ManifestCatalog`, `ManifestCatalogProofs`

`LoadFilesAsync`, one action for each await: `Start` orders and de-duplicates the
paths, `LoadNext` is the read of one file with everything up to the next await
(parsing, validation, registration), `Cancel` the token observed by a read, `Finish`
the duplicate searches and the result.  A file is what the loader makes of
it: a manifest, or one of nine reasons why there is none.  Five of them become a diagnostic (`Diagnosed`).  The other four end
the whole load by an exception, since the loader has no handler for it (`Uncaught`): a path that no file API takes, a member
named twice (of metadata, or one the loader does not know), and half a surrogate pair in a string.  `Edit` is somebody who
replaces a file between two reads.  `PathsToRead` gives each path the place that the number of
smaller ones leaves it (`InOrdinalOrder`): that is the list `OrderBy` returns, written so that it
can be reasoned about.

### `ProcessSupervisor`, `ProcessSupervisorProofs`

`DefaultProcessSupervisorProvider` with its handles.  `Start` makes an entry, `CreateProcessAsync` an entry and a
handle.  A call starts with `KillAsync`,
`RestartAsync`, `StopAsync` or `StartAsync`; the last two have assigned the handle's
`State` and read it back in `ReadArgument`.  `Get` is `TryGetValue`, `Put` the write of the
whole entry; both belong to one update, and other calls run between them.
`preceding` and `latest` record which calls ended before which began.

### `OpenAIHost`, `OpenAIHostProofs`

`options` is `IOptions.Value`: validated when somebody reads it first, cached from then
on, and written by the startup validator when it has fetched the secret.
`StartAsync` runs up to the await of `GetSecretAsync`, `FetchSecret` from there.
`ResolveClient` is the lazily created `IChatClient`: it may be asked for at any moment,
before, during and after a start.  `Send` and `Respond` are the two halves of a request,
with every way the chat client can answer or fail.  The first of the three credential
checks of `StartAsync` (neither key nor secret named) can only be met after the
options validation has already refused such a configuration; it is in the
model because it is in the code.

### `FileSystem`, `FileSystemProofs`

One module for the three providers, as the sessions are written against their common base
class; `kind` says which one is below.  A path is whether it is rooted, its names and whether it
is written with backslashes; `Normalize` is what each provider makes of it (the disk takes a path
as it is), and keys are what is stored.  On disk a write is `MakeDirectory`, `Truncate` (the
file is opened and cut) and `WriteAllText`, and a delete is `TestDelete` followed by `DeleteFile`, or
by `DeleteDirectory` once for each entry; in memory either is one step of a concurrent
dictionary.  `Unlink` is Unix: who has a deleted file open writes into nothing.
`ReplaceArchive` is somebody who replaces the ZIP file, which every call opens anew.

A session's call starts with `Begin` and `ListStep` (on disk with an `Enumerate` after the test that
the directory exists).  `Call` is `GetFilesAsync` or `GetEntriesAsync` on the stale list; `CheckEntry` is
`Exists` on the next entry and `ReadEntry` the `ReadText` after it.  A query is the same loop over one page
without the read, and `Finish` asks for the next page as a caller would.  `stable`, `gone` and `new`
record what the session could have seen, and `overlaid` which files two writers had open at once;
only properties read them.  `OrderBy` lists a key at the place that the number of keys before it
leaves.

What the module shows without being asked: the root `"/"` of an archive lists nothing, as
entries have no leading slash; files written in memory under a relative path do not appear
under `"/"`; on disk `GetFilesAsync` throws as soon as there is a subdirectory, since the
listing has it and the read cannot; a directory from `GetSubdirectoryAsync` was never listed
and stays empty.

### `VisionKernels`, `SignalFilters`, `SensorFusion`, `PerceptionSession`, `PerceptionProofs`

The kernels keep no state, so they are operators, and `PerceptionSession` is their
caller: it starts from an input, applies a kernel, feeds the result to the next one,
and the trail of calls is part of the state.  That makes laws over several frames
checkable (an average over time, an erosion followed by a dilation, two
normalisations of a map).  Numbers are integers in the unit the code rounds to:
1/10000 for filters and edges, 1/100 for sensors; where the code rounds, `RoundDiv`
rounds, and before that the model is exact where the code has the error of
doubles.  Hues are exact for the colours used, headings for multiples of 9 degrees.
The FFT is computed on Gaussian integers, which contain all roots of unity up to
the fourth: no rounding is involved in `SpectrumIsTheDft`.  The powers of the frequency bands are computed for
eight samples, as numbers a + b sqrt(2), and kept as they are where the code reports shares of their
sum.  Coordinates of the spatial hash are whole numbers; doubles can floor a quotient of fractions to the
cell before (0.3 / 0.1).  Names that a map is read in the order of (`Normalize` sorts them) are put in order by
rank, as the paths of the catalog are.

### `ProviderRuntime`

A call of the package is the sequence of its *phases*: `resolve` (search each assembly through
`SearchPath`, one `Probe` per file), `require` (`is_complete`, one test per file, and `missing`, which looks
a third time to write its message), `clr`, `reference` (one `AddReference` per file), `system`, `type` and
`object`.  `create_managed` is a load, the import of `System`, a second load and the creation;
`create_with_arguments` (the `_create` of `standard.py`) begins with `System`.  `ChangeFile` is a build, a restore
or a clean-up that writes one file.  `disk` says which build is where, `loaded` which build the process has;
a second build of a loaded assembly is either ignored or refused, both of which pythonnet may do.
`disturbed` is history: has anybody written to the disk during the call?

### `ManagedCatalog`, `CapabilityContracts`, `PythonWrappers`

`ManagedCatalog` is `api_catalog.py`, one definition per namespace: all 223 types with assembly, namespace, kind and
name, and of their members those the wrappers read, with their C# types.  `CapabilityContracts` is what the five bridges do
with positional arguments.  `PythonWrappers` lists for each exported class the type and assembly it names,
how it is created, and for each attribute the member it reads and the conversion it applies.  A caller creates a
wrapper or wraps an object it got from C#, whose members have any value their C# type allows (`WrapGiven`), reads attributes and
turns capabilities into contracts.  Managed and Python values carry their kind, so that a conversion that is left out shows.
Its specification is `SurfaceSpec`: one caller, whose calls are loads that have worked, so that it can stand beside the threads of
`ProviderRuntime` in one proof module.

### The `*Proofs` modules

Each extends the module it is named after (`PerceptionProofs`: `PerceptionSession`; `PythonPackageProofs`: `ProviderRuntime` and
`PythonWrappers`); section 4 says what they show.

### The `MC*` modules

They extend the module they are named after with the values of its constants.
`EventBus` needs none and is run as it is.  Two of them put two components of one package side by side:
`MCStandardProviders` the file systems and the supervisor, `MCPythonPackage` the loader and the wrappers.  The two
share no variable, so their steps commute, and it is enough to explore each beside one state of the other: the
supervisor beside an empty memory file system, the wrappers where pythonnet and all bundled assemblies are there.
`HostRestart` starts a supervisor anew that has used up its calls.

## 3 The runs

Seven runs pass and five show a disagreement of section 5.  States are
distinct states.

| Run | Module, configuration | Question | States |
|---|---|---|---|
| `eventbus` | `EventBus`, `EventBus_calls.cfg` | do concurrent callers keep the bus consistent, does every call return, is it a `PubSub`? | 248 236 |
| `registry` | `MCProviderRegistry`, `ProviderRegistry_routes.cfg` | is what a registry answers decided by what is in it, and by nothing else? | 374 |
| `catalog_loads` | `MCManifestCatalog`, `ManifestCatalog_loads.cfg` | what does the result of a load say about the files? | 676 784 |
| `catalog_permissive` | `MCManifestCatalog`, `ManifestCatalog_permissive.cfg` | does a load put up with every member it does not know? (no) | |
| `standard_providers` | `MCStandardProviders`, `StandardProviders.cfg` | what does a session see of a store that others change?  does the last update of a process decide? | 981 020 |
| `supervisor_stop` | `MCProcessSupervisor`, `ProcessSupervisor_stop.cfg` | does a call write what it asks for? (no) | |
| `openai_host` | `MCOpenAIHost`, `OpenAIHost_host.cfg` | which key and which roles reach the service? | 194 574 |
| `openai_restart` | `MCOpenAIHost`, `OpenAIHost_restart.cfg` | can a host be started twice? (no) | |
| `perception` | `MCPerceptionSession`, `PerceptionSession_kernels.cfg` | do the kernels obey their laws, call after call? | 342 961 |
| `perception_spectrum` | `MCPerceptionSession`, `PerceptionSession_spectrum.cfg` | is the spectrum a Fourier transform? (no) | |
| `python_package` | `MCPythonPackage`, `PythonPackage.cfg` | which files does a call settle on, and why may it fail?  does the Python side fit what C# declares? | 1 271 249 |
| `python_order` | `MCProviderRuntime`, `ProviderRuntime_order.cfg` | does the override come right after the package? (no) | |

### Bounds, and why they are enough

- `eventbus`: two threads, two events, two ids.  Every hazard of the bus needs two
  callers at most: a registration against a publish, two unsubscribes of one id, a
  publish against a removal.  Two ids give a snapshot of two handlers, so that an order,
  an interruption between two handlers and a list that changes behind the
  snapshot occur; the second event shows that a call for one event leaves the other
  alone.  `Ids` also bounds the length of a behaviour, as a Guid is used once; with the
  threads free to publish for ever the state space stays finite and cyclic.  The
  proofs remove all three bounds.
- `registry`: one host, seven manifests (one of them invalid, and null besides), of which
  up to four are registered, with repetitions.  They were chosen so that
  priority, availability, the preference of a backend, identifier and source each decide
  a choice, two manifests compare equal in the registry but not in the router, and two in
  both (the exact-match rank cannot decide: a candidate always has the capability); thirteen requests cover each
  mode, the fallback with and without a list, tags, preferences and each kind of hint.
- `catalog_loads`: two files, thirteen contents, two loads, inputs that repeat a path, list
  the paths backwards, contain a blank one or nothing, `MaxEdits` 1.  A second
  edit adds no new order of an edit and two reads that one edit and the choice
  of the initial disk do not have.
- `openai_host`: `MaxStarts` 2 and `MaxRotations` 2 (a restart, before and after a rotation and
  back), keys of three kinds (in order; accepted by the guard only; refused), one request
  per behaviour, as requests share nothing but the flag.
- `standard_providers`, supervisor: three threads, two processes, `MaxCalls` 4: calls can only decide
  against one another if they overlap, and three callers give a chain
  of two overlaps, which is what `latest` is about.
- `standard_providers`, file systems: each provider in turn; two writers and a session, of which `MaxBusy` 2 are at work at
  once, since each hazard of the module needs two: a write against a listing, a delete against a read, two
  writes of one file, a write below a directory that is being deleted.  Three paths per provider, in several spellings, one
  of them (on disk) below another; `Limit` 1, so that every file is a page and every change falls between
  two pages; `MaxDepth` 2.  The writers are symmetric: nothing tells them apart.
- `perception`: `MaxCalls` 3, every binary frame of 4 by 2, all frames of 3 by 1 over three
  values, and the 4 by 3 frames with one or two marks, the only ones with an interior; radii up to
  2, which reach over the border from everywhere; output sizes 1 and 3, one that
  reduces and one that enlarges and overlaps; every combination of absent, disabled and
  enabled sensors; `MaxListed` 3 spellings at once, so that two of them mean one sensor
  and a third is unrelated; `MaxFftSize` 4; a frame of nine different values moved by up to two pixels in every
  direction, and every pair of binary frames of 3 by 2, in which almost everything is a tie; all recordings of eight
  bits, at sample rates that put the bins below, on and above both limits of the bands; points on
  both sides of zero.
- `python_package`, loader: two threads, which make a creation each, with or without arguments
  (a search is part of either), two assemblies (one that NuGet packages are searched for and one that they are not), a
  place of every kind, two builds, sixteen initial disks, `MaxChanges` 1.  One change between any two
  steps is a file that goes, comes or is replaced; a second thread is enough to load meanwhile.  The proofs
  remove all of these bounds.
- `python_package`, wrappers: every class and every attribute.  A caller holds at most one wrapper and one contract
  (`RoomForWrapper`, `RoomForContract`): no property relates two wrappers.  The calls that touch no object are made with
  `EmptyHands`.  One member at a time has a value other than that of a new object; two texts, one of
  them empty, and three texts for an endpoint (with and without a last slash, and no URI at all).

Deadlock is looked for in `eventbus`, `registry` and `standard_providers`.  The other runs
may stop, because their bounds are used up (`MaxStarts`, one call per Python thread, a load
that is done), and say so.

### What the properties say

**Event bus.** `NoOrphanedHandler`: the two dictionaries agree up to calls in progress, so a
subscription cannot be left in a list with no id that removes it.
`OneUnsubscribeWins`: of all calls that unsubscribe an id one succeeds, and a call is refused
only if another one succeeded or is about to.  `DeliveryFollowsSubscriptionOrder`: order and no
duplicates, whatever happens between two invocations.  `NoDeliveryAfterUnsubscribe` and
`CompletedPublishMissesNobody` are the two halves of delivery: nobody who had left, everybody
who had arrived.  `ImplementsPubSub`: the refinement.  `EveryCallReturns`: see fairness.

**Registry and router.** `ResolutionIsSoundAndComplete` restates the selection without candidates
or keys: whom a request gets can serve it, nobody who can serve it has a lower priority
value, and as long as somebody can, the answer is neither "not found" nor the fallback.
`RoutesAreDetermined` has two parts: the probe begins with what a resolution selects (`ProbeOrderAgreesWithResolve`: the two filter,
rank and cut in ways of their own, but the model has one key for the two copies of it in the code), and neither
the order of registration nor the unstable sort shows in an answer (`SameManifestsSameRoute`).  `FallbackIsExplicit`: never in
strict mode, never unless enabled, the first listed identifier that is there.
`RegistrationNeverDegrades`: a registration helps the provider it adds or collides with it, and
changes nothing between others.

**Catalog.** `EveryFileIsAccountedFor`: a result is right about what was actually read
(`SuccessMeansEveryFileCounts`), each path has either a provider or an error of its own
(`NoFileIsLostSilently`), and a load ends by an exception exactly at the first file for which the loader has no handler
(`FaultsAreUncaughtErrors`).  `LoadsAgree`: repetition and order of the paths do not matter.

**Supervisor.** `LastUpdateDecides`: when no call is in progress, the table has what
one of the last calls wrote, those that no other call came wholly after.

**OpenAI.** `ClientHasAVettedKey`, `ClientAgreesWithOptions`: see the proofs.
`RolesAreThoseAdvertised`: what is advertised, refused and sent follow one list of roles.

**File systems.** `ListingsMissNothing`: however stale a directory is, its calls return everything that
was there all the time, once; the pages of a query do too, unless something before it went or came,
which is what offsets cannot survive.  `CallsFailOnlyIfDisturbed`: a call throws only because the entry it was
at went during that very call (or is a directory on disk).  `FilesAreWhole`: an empty file has a writer who is
about to fill it, and a torn one was open twice at once.  The code promises no atomic write, so a crash
of the process between `Truncate` and `WriteAllText` leaves the file empty; crashes are not modelled.

**Perception.** `ImageKernelsKeepTheirLaws`: an opening lies below its frame, a closing above it, doing
either again changes nothing (`OpeningAndClosing`); a transposed frame gives the transposed result
(`RowsAndColumnsAlike`); a hue range and its complement share the ends and leave out no hue, and a rotation of the
colour channels turns the mask (`HueRangesAreArcs`).  `KernelsInventNothing`: pooled peaks survive, averages stay in the hull
of their inputs, an integrator holds no more than was put in, palettes quantise their own colours to themselves, frequency
bands share out the energy that Parseval's theorem gives.  `KalmanIsTheBatchEstimate`: the recursion computes the batch
estimate, up to a stated rounding.  `ShiftsAreFound`: of a sound between two channels, of a picture between two frames, of
points between cells.  `NormalizationKeepsTheMeaning`: of several spellings the last one wins, and a sensor at its
default decides as if it were absent (`LastSpellingWins`, `DefaultsMeanAbsence`).  `SteeringIsFair`: a disabled sensor does not
steer, and left and right are alike, in the fusion and in the binaural direction (`DisabledSensorsDoNotSteer`,
`LeftAndRightAlike`).

**Python package.** `UndisturbedSearchFindsAll`: while the disk stays as a call has seen it, the call takes every assembly from
the package, else from a build or the override, else from NuGet, reports exactly those that are nowhere, and goes on only if there are
none.  It leaves open which of the builds and the override goes first: code and documentation differ, and the run `python_order` shows how.
`FailuresHaveAReason`: threads that load at the same time do not make one another fail; a reference is refused only after somebody wrote to
the files, `System` is missing only to calls that import it before they load, and after a load a type always
resolves.  `WrappersFitTheirTypes`: every create finds its type and its constructor, every attribute shows
its member with the right Python type and `None` exactly for null, and the catalogue and the announced drivers
agree with the wrappers.  `ContractsDescribeTheSettings`: every argument shows under its own name, and the contract made from
the attributes of settings is the contract of these settings.

Each module has one type invariant, `TypeOK` (`SupervisorTypeOK`, and `SurfaceTypeOK` of `PythonWrappers`), which also says what the shapes alone do not:
that a registry is sorted and valid, that a load has seen exactly the paths it is done
with, that a started host has a key, that a process with a handle has an entry and a call works on one that is there.

### Fairness

Only `eventbus` claims liveness.  (The specification of `ProviderRuntime` says that a thread in a call
goes on, since nothing in it blocks; its properties are safety properties and do not use it.)  `FairSpec` has weak fairness of `Step(t)` for each thread,
the continuation of a call that has begun.  The code justifies it: a lock is held for one
step only and never across an await, so no step waits for another caller, and a thread
that can run is run by the scheduler of the platform.  What is assumed beyond the
bus is that a handler completes or throws.  Beginning a call is not fair:
clients may stop calling.  The mutant of `EveryCallReturns` holds the lock during the handler, and
a caller that publishes again and again then keeps an `Unsubscribe` waiting.

## 4 The proofs

TLAPS proves every obligation.  No recursive operator is used: where the code
sorts keys, paths or names, the model says which place each has (`OrderBy`, `InOrdinalOrder`, `OrderByName`), as the
library's sort is a recursive operator of which the provers know nothing.  A fold is a `CHOOSE` of a function, and what holds
for all of its values is shown by induction over the *set* of numbers, or of subsets, of which it holds (`Induction`,
`SetInduction`): the library's own induction theorems take a predicate as a parameter, which the provers cannot instantiate.
Each theorem is stated for the same definition the run evaluates.

| Module | Theorems | Assumes |
|---|---|---|
| `EventBusProofs` | `TypeCorrect`, `NoOrphanedHandlerCorrect`, `OneUnsubscribeWinsCorrect`, `DeliveryFollowsSubscriptionOrderCorrect`, `NoDeliveryAfterUnsubscribeCorrect`, `CompletedPublishMissesNobodyCorrect`, `EventBusImplementsPubSub` | `EventBusAssumption`: `None` is neither an event nor an id |
| `ProviderRegistryProofs` | `TypeCorrect`, `ResolutionIsSoundAndCompleteCorrect`, `FallbackIsExplicitCorrect`, `RoutesAreDeterminedCorrect`, `RegistrationNeverDegradesCorrect` | `OrdinalAssumption`: the ordinal order is total and injective; `RegistryAssumption`: the manifests and policies have the shapes the loader gives them |
| `OpenAIHostProofs` | `TypeCorrect`, `ClientHasAVettedKeyCorrect`, `ClientAgreesWithOptionsCorrect`, `RolesAreThoseAdvertisedCorrect` | `HostAssumption`: the shapes of the configurations; what `WellFormed` and `Guarded` mean is left open |
| `ProcessSupervisorProofs` | `TypeCorrect`, `LastUpdateDecidesCorrect` | `SupervisorAssumption`: `None` is neither a process nor a state |
| `PythonPackageProofs` | of the loader: `TypeCorrect`, `FailuresHaveAReasonCorrect`, `SearchCorrect` (for `UndisturbedSearchFindsAll`); of the wrappers: `SurfaceTypeCorrect`, `WrappersFitTheirTypesCorrect`, `ContractsDescribeTheSettingsCorrect` | `RuntimeAssumption`: the shapes of the places and disks, and that "no file" is no build; `WrapperAssumption`: an absolute URI has a form without its last slash, and there is a text |
| `FileSystemProofs` | `TypeCorrect`, `FilesAreWholeCorrect`, `CallsFailOnlyIfDisturbedCorrect`, `ListingsMissNothingCorrect` | `FileSystemAssumption`: `Ordinal` gives different keys different numbers, the keys are those of the paths and of the directories above them, pages are not empty, and paths on disk start with a slash (a relative one means something else whenever the process changes its directory) |
| `ManifestCatalogProofs` | `TypeCorrect`, `EveryFileIsAccountedForCorrect`, `LoadsAgreeCorrect` | `CatalogAssumption`: a content is a descriptor with the fields the loader fills in, or one of the nine reasons why there is none; the paths are finitely many strings that are not blank; and the assumptions of the manifests |
| `PerceptionProofs` | `TypeCorrect`, `ImageKernelsKeepTheirLawsCorrect`, `KernelsInventNothingCorrect`, `KalmanIsTheBatchEstimateCorrect`, `ShiftsAreFoundCorrect`, `NormalizationKeepsTheMeaningCorrect`, `SteeringIsFairCorrect` | `SensorAssumption`: the default sensors are names that folding leaves alone, and the ordinal order tells names apart; `SessionAssumption`: the shapes of the inputs, such as that a frame has a pixel for each place, a colour is three bytes, a palette is not empty, and the two frames of a video have one size |

Sets of threads, writers, sessions, loads, events, ids, hosts, keys, manifests, contents, requests and configurations may
be infinite;
the theorems use no bound (`MaxProviders`, `MaxStarts`, `MaxRotations`, `MaxCalls`, `MaxChanges`,
`MaxBusy`, `MaxDepth`, `MaxEdits`, the `Limit` of a page) beyond what `TypeOK`
says of it.

### The event bus

None of the properties is inductive.  `NoOrphanedHandler` alone does not survive a
`RemoveHandler`, because nothing in it keeps a second caller from removing, in the same
moment, the id of the first.  `RegInv` adds what ties an id to the call that works on it:

- `Fresh`: an id that was never added is nowhere; `OneList`: it is in one list at most;
- `BusyHolds`: the id of a call that adds or removes is in the list and not in the
  dictionary, and `BusyAlone`: no other such call has it;
- `EntryHolds`, `HandlerHolds`: the two directions of the property itself;
- `RemovedGone`, `LostHasWinner`, `RefusedLost`: what a removal leaves behind.

Every action touches one id, and the proof has a lemma per action (`RegInvSubscribe`,
`RegInvRecord`, `RegInvClaim`, `RegInvRemove`, and `RegInvPublish` for all steps of a publish).
`DeliveryInv` builds on it for a running publish: positions are stamped once (`Stamped`),
what is pending was added (`PendingAdded`) and was added after all that was invoked
(`PendingLater`), only a running publish has anything pending (`PendingRuns`), and the audience is
still in hand, invoked or pending (`AudienceInHand`).  The order and the two halves of
delivery follow.  `EventBusImplementsPubSub` maps each step: `Subscribe` to `Join`, `RemoveHandler` to
`Leave`, `Publish` to `Start` (which needs `PendingRuns`: an idle publisher owes nothing), `Invoke` to
`Pay`, the three ends of a publish to `GiveUp`, everything else to a stutter.

### Registry and router

The list is not changed by a resolution, so the theorems are about operators.  The work is in
showing that `FirstSorted`, which is a `CHOOSE`, has a value: `LexLess` and `Before` are
strict orders (`LexIrreflexive`, `LexTransitive`, `BeforeTransitive`), and a finite non-empty set has a
first element (`FirstSortedIsFirst`, by repeated minima of natural numbers, `NatMinimum`).  From there
`SelectBackendServes`, `CandidatesCanServe` and `BestCandidate` lead to
`ResolvePolicySoundAndComplete`, and `EffectivePolicy` to strict requests.  `TypeCorrect` says that the registry is
valid and sorted whatever order the unstable sort chose.

The last two theorems go on from there.  The order of the keys is total (`LexTotal`), so the first position is one
(`FirstIsUnique`).  A list that the sort may leave is a `Rearranged` one: a permutation takes candidates to candidates with
the same keys (`RearrangedCandidates`), hence the best key is the same, and so is the provider that has it, unless two
have it and the answer is a duplicate for both lists (`RearrangedChoice`).  The fallback depends on the elements of the list only,
up to which manifest of an identifier it gives (`FallbackOfElements`).  For the probe,
`StableSortStartsWithFirst` counts predecessors: the first has none, and the second has one, the first, so a tie for the first
place shows in the second.  A registration appends before it rearranges: `AppendedCandidates` has the old candidates in their
places with their keys, and the new one or not.  If it is not a candidate nothing changes (`AppendedBystander`); if
it is, a winner among the old ones was the winner before (`AppendedChoice`).  That the new provider counts as new although an
equal one was there is `RearrangedMultiplicity`.

### The host of OpenAI

`HostInv` strengthens the two properties with the origin of the key in the options: vetted or
absent, absent only while there is a secret to fetch, and equal to the client's once there is
one.  Its heart is that a start that waits for the secret has found options without a key
(`phase = "fetching" => options = [apiKey |-> None]`), hence no client can exist yet: `ResolveClient`
throws without a key.  `ReadYieldsVetted` says what reading the options can yield.

`RequestInv` says of each request what `RolesAreThoseAdvertised` does, and that it has all of its fields (`Whole`), which is
what an `EXCEPT` needs to mean anything.  `RolesDecide` is the point of the proof: `ValidMessages` and
`ConvertibleRoles`, which look at a prompt role by role, together accept exactly the prompts whose roles
`CreateModelPromptCapability` advertises.

### The supervisor

`LastUpdateDecides` speaks of moments when no call is in progress; the invariant behind it, `LastWriteCounts`, holds at any
moment: the state in the table is what one of the updates in `latest` wrote.  It survives `Put` because a call
removes from `latest` only what had returned when it began, and adds itself; `CallInv` gives the shapes of the calls.
`SupervisorTypeOK` is needed beside them: a call only writes to an entry it has found, since entries never go, and only reads a handle
that is there, since nothing takes one away.

### The Python runtime

The invariant is said per thread, and a step of another thread leaves it alone (`OthersKeep`, `StepOfOne`), as all that threads share
only grows: what has been loaded stays loaded, and `clr` stays imported.

- `KnowsItsPhase`: what earlier phases of the call have left behind.  The sequence of phases still to go is one in which each
  phase may follow the one before (`Ordered`, `Follows`, kept by concatenation: `Join`), so a thread
  that stands before `type` has passed a load, and one that stands before `reference` has a place for each assembly.
- `KnowsTheDisk`: as long as the disk is as the thread saw it, each place it has settled on is the first of its search
  path with the file (`IsFirst`), or the assembly is `Absent` and the package's own folder stands for it.
- `LoadedFirst`: as long as nobody has written, the builds in the process are those on which every search settles, so that
  no second build can meet a first.

`SearchCorrect` then turns positions in a search path into kinds of places: a path goes through all kinds in order
(`GoesThrough`, `EndOf`, `OfKind`), the first file of the path lies in the first kind that has one, and the first kind
belongs to the first of the sources the property tells apart (`FirstKindIsFirstSource`).

### The Python wrappers

TLC reads every attribute of every wrapper with two texts and three URIs; the theorems hold for any of them, whatever the caller did
before.  They are about written-down tables, the catalogue, the wrapper classes and the five capabilities, so most of their lemmas
look things up; what is not a table is proved once, for all entries.

1. *The catalogue.*  A name is looked up in a concatenation of 38 listings.  `Listings` and `ListedElements` say what
   concatenations and their parts hold, `Parts` that each part lists the types of its own assembly and namespace, and `Lookup` that
   the first entry of a name is the only one, which needs that a set of indices has a least element (`NatMinimum`).  The result is
   `Known(type, assembly, members)`, one `*_Lookup` lemma per namespace.
2. *The conversions.*  `Suits(as, declared)` says which conversion is right for which C# type (`str` only for what is never null), and
   `Conversion` that then the Python value shows the managed one, `None` exactly for null.  `Fitting` is that of one attribute and a type,
   `FitsMembers` of all attributes of a class.  Members that may be null (`Nullable`) are told by their declared type.
3. *The classes.*  `Sound(w)`: the type of wrapper `w` is known in its assembly, the assembly is loaded, the constructor takes
   the arguments it is given or the bridge has the one method of that name and it makes that type, the attributes fit, and the members of a new
   object have values of their types.  `InvokerSound`, `ProviderSound`, `SettingsSound` and `OtherSound` show it for the kinds of
   classes, the `*_Sound` lemmas for each class, and `WrappersSound` is all of them.
4. *The invariant.*  `WrappersFitTheirTypes` is not inductive: it speaks of the last answer, and an answer is right only if the object it
   was read from is.  `SurfaceInv` adds `InHands`: what is held is an object whose members have values of the types declared
   (`HeldFits`), and a contract is the one that its arguments make (`ContractFits`).  One lemma per call shows that it is kept
   (`CreateByActivatorKeeps` to `MakeContractKeeps`); TLC has checked `SurfaceInv` over all states the wrappers reach.
5. *The contracts.*  Arguments are passed by position.  `Carried(f)` follows the i-th one: the field of the capability, the parameter of the
   bridge, the member of the settings, the attribute of the settings class that shows it, all of one name.  `MetadataTells(f)` says that
   the metadata show each of them, and depend on nothing but the settings without the key; so settings that agree with a contract on what it carries, and
   otherwise are the defaults, show the same metadata (`SettingsShown`).  `SettingsWrapper` is needed for that: whatever object of a
   settings type the caller holds, it is read through the settings class of its family.

### The file systems

`FilesAreWhole` needs to know who holds what: a file that a writer has open exists, and unless two have
it open (`overlaid`) nothing has been written to it and nobody else has it (`WritersInv`).  `StoreInv` says that only the disk
has directories and writers in the middle of a write, and that what is stored is finite: no two listings
could be compared otherwise.

A session is alone with its listing; all that other callers do to it is to widen `gone` and `new` and to
narrow `stable`.  `SessionsWatch` is that relation, each writer's step satisfies it (`StoreWatches`), and `SessionInv` survives it
(`WatchKeeps`).  For a directory, `DirectoryKept` says that what was there all the time is returned already or still to
come, and that both parts are in order, so that nothing is returned twice.  `Placed` follows the one entry a call is at: between
the test and the read it exists or is in `gone`, which is all that `CallsFailOnlyIfDisturbed` asks.

For a query the listing is a new one on every page, and all that connects two of them is an offset.  `Paging` therefore
speaks of the `Rank` of a key, the number of keys before it in the listing one would get now:

- a stable key that has not been returned has a rank of at least `End(x)`, the place where the current page ends, or something before it
  went (`Cut`);
- a returned key has a rank below it, or something before it came (`Shifted`);
- hence a key returned twice was shifted, and when a page comes back short every stable key has been returned or was cut.

A step of a writer changes ranks by the keys it adds or removes, and those are in `new` or `gone` at once (`RankChanges`); a
new page starts at the key whose rank is the offset (`PageFacts`, from `OrderByFacts`: the place of a key in a listing is its rank).

### The catalog

Everything a load has collected is a function of what it has read, `seen`, and `LoadInv` says which: the list holds each path whose content
was accepted once, sorted (`ListInv`), the diagnostics are the union of the reports of the single contents (`Notes`), the
queue is what is left of the request, without repetition (`QueueInv`), and a load has faulted just if it read a content the
loader has no handler for, which it then read last: it is the only one.  An order of reading is not part of it, which is what makes it inductive *and* what makes two loads comparable.  `LoadNextKeeps` is
the one long step: the accepted entry is added to the list and rearranged by the unstable sort (`ListGrows`), or nothing is (`ListStays`).

A load succeeds just if all contents were accepted and their identifiers are distinct (`SuccessFacts`,
`SuccessDistinguishes`): `EveryFileIsAccountedForCorrect` counts entries against paths (`ListSize`).  For `LoadsAgreeCorrect`, two
successful loads with the same files have the same elements in their lists; as the identifiers are distinct the
registry's order is strict on them, and at the smallest place where the lists differ one of them would lack an element
(`SortedListsAgree`).  That they have read the same, as long as nobody has edited a file,
is `Fresh`.

### Perception

The kernels are functions, so most of the proof is about what they return.  The invariant says that what a call
returns is again an input of the next one (`FedBack`) and that the result of a first call is what its kernel gives for its
arguments (`Returned`); beyond that, of a session of two morphologies that its result is composed of both (`IsComposed`), of
pooling and averages that nothing has been added so far, and of a tracker that it is near the batch estimate (`IsNearBatch`).
None of these follows from the property it supports: the property of a session of two calls needs what the first call
returned, and a bound on an accumulated error must be one that a further call preserves.

`ImageKernelsKeepTheirLaws`.  *Openings and closings*: an erosion has the smallest and a dilation the largest value of a window
that is clamped at the border (`MorphologyFacts`).  An index is near another one exactly if the other is near it (`NearFacts`), hence both are
monotone and an opening is below its frame, a closing above; that they are idempotent follows from these three facts alone
(`OpeningIsIdempotent`), not from the shape of a window.  *Transposition*: a transposed frame has at each place what the frame
has at the place turned over (`TransposedFacts`), and windows, blocks and the neighbours of an edge are turned over with it.
*Hues*: `HueIs` locates a hue within the sixth of the circle that its largest channel says, `HueFacts` adds 120 degrees for a
rotation of the channels, and `ArcFacts` says of the four cases of `HueInRange` that a range and its complement
are the two arcs between their ends.

`KernelsInventNothing`.  Blocks of a pooling are not empty (`BlockFacts`) and leave out no row or column (`BlocksCover`), so the
peak survives (`PeaksSurvive`), whether the frame gets smaller or larger.  `RoundDivBounds` keeps a rounded average between its
terms, and a rounded leak below what leaked.  A painted pixel has distance 0 from its own entry, and an entry before it that has
distance 0 too is the same colour (`PaletteIsIdempotent`).  `Parseval` is the identity for eight samples, from a closed form of each bin as a + b sqrt(2), and
`BandsShareEnergy` says that each bin is in one band.

`KalmanIsTheBatchEstimate`.  `IsNear` bounds what n calls have moved covariance and estimate away from the batch
estimate, in whole numbers: n/2 for the covariance, since each call rounds by at most 1/2 and the recursion contracts
(`CovarianceStep`); for the estimate, the rounding of each call and the spread times the error that the rounded covariance
makes in the gain (`EstimateStep`).  That the estimate stays between the prior and the measurements is part of it: without it, the spread
would not bound the innovation.  `BatchBound` gets the stated bound.

`ShiftsAreFound`.  The product of two samples is at most half the sum of their squares, with equality only if they are the same, and a finite signal
that is not silent differs from itself shifted; so it resembles nothing as much as itself (`SignalsResembleThemselves`).  The
score of a lag is such a product (`ScoreOfShifted`), and the true lag beats all others, at every length.  The flow takes the first of the best offsets in the order of rows and columns
(`BestOffsetIs`); if all values differ, another one that misses by nothing reaches over the border and is later in that
order than the true one (`ValuesAreUnique`), and the offset 0 is among the candidates, so no vector does worse than standing still (`FlowIsNoWorse`).  A cell is a quotient rounded down, which is one more
for a coordinate that is one cell size larger, on either side of zero (`HashFollows`).

`SteeringIsFair` exchanges left and right.  Everything that a channel contributes is a sum, and the sum is a fold that `CHOOSE`s the order
of its terms.  `SumSplits` shows that the order is immaterial and `SumRenumbered` that the numbering is: hence the channels exchanged, with
the lag negated, have the same `Score` (`ScoreFacts`).  The delay that is reported is the best of a finite set of scores
(`DelayFacts`), so it is negated too unless scores are equal, which the property allows for; rounding is odd
(`RoundDivIsOdd`).  `MirrorTurnsFusion` does the same for the fusion of mirrored sensors, and `SilenceKeepsSteering` says that a
disabled sensor enters no expression that steers.

`NormalizationKeepsTheMeaning` is about a fold over the names in their order.  `NormalizeIsNormal` gives it a closed form by
induction on how much of the order has been read: each name has the entry of the last spelling that means it.  That the order is one, with each
name in one place, is a matter of ranks (`OrderFacts`).  `LatestSpelling` reads the first half of the property off the
closed form; for the second, `DefaultsAreSilent` shows that a sensor at its default contributes nothing to any expression of the
fusion.

### Only model-checked

- `EveryCallReturns`: liveness under fairness, and `ENABLED`, are out of the prover's reach.

Every invariant and action property of every passing run is a theorem, and so is the refinement of `PubSub`.  The five properties of
the violation runs are false, and TLC shows why.

## 5 Where the code differs from what it says

- **`supervisor_stop`** (`CallsWriteWhatTheyAsk`, `ProcessSupervisorProvider.cs:233`).  `StopAsync` assigns `State`
  and passes `State`, read again, to the supervisor.  A `StartAsync` between the two makes the stop write
  Running.  `LastUpdateDecides` is stated about what was written, and holds.
- **`openai_restart`** (`AmbiguousOnlyIfBothConfigured`, `OpenAICompatibleProviderStartupValidator.cs:55`).  The
  fetched secret is stored as `ApiKey` in the cached options, so the next `StartAsync` of the same
  host sees a key and a secret name and reports an ambiguity that nobody configured.
- **`perception_spectrum`** (`SpectrumIsTheDft`, `ResidentPerceptionAlgorithmKernel.cs:998`).  The index a sample is
  swapped with is not the reversal of its bits: for four samples the loop swaps nothing.  The samples
  0, 0, 1, 1 have bins of energy 4 and 0 in the code where the transform has 4 and 2.
- **`catalog_permissive`** (`LoadingIsPermissive`, `ProviderManifestLoader.cs:328`).  The documentation calls loading permissive: what
  the loader does not know is kept as it is (`docs/providers/index.md:50`).  Unknown members are collected with `ToDictionary`, which
  throws an `ArgumentException` if one of them is named twice; the loader catches `JsonException` only, so the exception ends the load
  of all files.  `FaultsAreUncaughtErrors` says which other files do the same.
- **`python_order`** (`OverrideComesAfterBundled`, `native/__init__.py:163`).  The documentation searches the package, then
  `AIKERNEL_PROVIDERS_ASSEMBLY_PATH`, then NuGet (`docs/python/index.md:86`); the code searches the builds of a checkout before the
  override, so an assembly that is not bundled comes from a build although the override has it.

Observed, and not contradicted by anything the repository says: an unavailable backend is chosen
although its provider has an available one (`ProviderRouter.cs:356`); the resolution mode `Unknown` is
not told from the mode that allows a fallback (`ProviderRouter.cs:157`); a kill of the supervisor
is never told to the handle, whose `State` stays Running; a hue range of 0 to 360 is that of hue 0
alone; the name `' vision '` normalises to `vision`, which nothing reads; silence has a stereo delay of
-8 samples, the first of the equal scores; for the same reason a frame of one colour that does not
change flows by the whole search radius, up and left; the balance, which runs from left to right, indexes a
compass of eight directions, so that a sound in the middle is named `right` and one fully right `back-left`
(`PerceptionAlgorithmKernel.cs:540`); a colour that a farther palette entry would tolerate stays unknown
if the closest entry does not; the mean and the maximum of a temporal difference ignore its threshold; a moving average can stop short of a constant input by
less than one rounding step divided by its rate.

Observed where a document or a name says something else, without a run of its own:

- The event flag of a disabled audio sensor is read without the gate all its other inputs have
  (`SpatialSensorFusionKernel.cs:64`), although a test is named `FuseAsync_AudioCutOff_UsesVisualMotorCompassOnly`
  (`PerceptionProviderResolutionPolicyTests.cs:85`).  It does not steer: `SteeringIsFair` holds.
- The message for missing assemblies advises to restore NuGet packages, where five of them are never looked for; it may also name
  none, if the files come back before it is written.
- `ZipFileSystemProvider.create` and `FileLoggingProvider.create` fail in a fresh interpreter, as `_create` imports `System`
  before anything has loaded the runtime (`standard.py:27`).
- The README of the package calls `is_complete()`, which is a property.
- `ChatOpenAICapability` defaults to the model `gpt-4o`, `ChatOpenAISettings` to `gpt-4.1-mini`; the JSON manifests bundled with the package
  differ from those beside the C# sources.
- The catalogue attributes members of later types of a file to an earlier one and lists statements as members, which its own comment
  excludes (`api_catalog.py:14`); it lacks properties with an expression body; five of its twelve assemblies (Audio, Compute, Council, Perception,
  Substrate) are never loaded by the package.

## 6 What is not modelled

Inside the modelled components: the reading of single JSON members and the stream and request forms of
the loader; `MergeCliHints`; the service registrations of the hosting extensions; frequency bands of more than
eight samples, and the names of directions; the `Try` variants, the health query and the reads of a single
file of the file systems.  Of a disk the model assumes Unix: no mandatory locks, one spelling of a
name, and an enumeration that is one step; of an archive that its file is there.
The registry is a plain list without a lock and nothing in the repository registers from two
threads; concurrent registration is therefore not modelled.

| Component | State and operations | Why not, and what is known |
|---|---|---|
| Network providers and streams | sockets of `TcpClient`, `HttpClient`, `ClientWebSocket` | the state is in the platform.  Planned: the life of a stream, whose `DisposeAsync` waits for the peer without a token, whose `ReadAsync` drops message boundaries, and whose client leaks when a connect fails |
| Provider lifecycle (`StandardProviderBase`, and the providers of chat, local models, pipeline and CUDA) | one initialised flag each | planned as one module |
| Scheduler | a concurrent dictionary of jobs | nothing runs the jobs and each operation is one step |
| Chat over HTTP, chat history, local models, dynamic pipeline | the flag; a list read once | one request per call; planned with the lifecycle |
| CUDA provider, compute buffers and validator, CPU compute | none, or the flag | ordered refusals and arithmetic; planned |
| Council evaluation, audio bases and format validation | none | stateless refusals; planned |
| OpenAI health and capabilities; perception contracts and routing policy; substrate records | none | records and constants; what decides something appears in the modules above |
| Logging, profiler, registrations | none | input and output, or a list of services |

Of the chat client, the chat history, the CUDA driver, the dynamic pipeline and the local models only the settings,
their metadata and their capability contracts are modelled (`CapabilityContracts`), not their providers and invokers.
Of the Python package the paths of its bundled manifests are left out, and so is an installation less than five directories deep,
where `Path.parents[4]` raises an `IndexError` before any build folder is looked at (`native/__init__.py`, `_source_build_roots`); and what pythonnet does is modelled from how the package
uses it.

Weak memory: the model interleaves reads and writes of shared fields
(`State`, `ApiKey`, `_isInitialized`) as single steps; a build that caches a field in a
register would add stale reads to the same properties.

## 7 Plan

Models, in this order:

1. The JSON members of the loader (`ReadStringMap`, `ReadInt`, `Normalize`, the descriptors), as what is read
   from one member each, below `ManifestCatalog`: does the order of members matter, and what does a wrong
   kind of value become?
2. `ProviderLifecycle`: initialise, shut down and use, of all providers that keep a flag, with requests in
   flight, and the refusals of the CUDA resolver, the compute validator, the council and the audio bases
   as operators.
3. `NetworkStream`: connect, read, write, close handshake and dispose against a peer that may be silent.
4. `FileStore`: a map from paths to contents as the abstract specification, which the in-memory provider
   implements and the local one as long as nobody else touches the directory.

Proofs, in this order:

1. That `FileSystem` implements `FileStore`, from `WritersInv`.
2. That `ProviderRuntime` with one thread and a full disk is the load `PythonWrappers` takes for granted, as a refinement of a
   one-step load.

To repeat everything: `tlc -config <cfg> <module>` for each row of section 3, and `tlapm` on
the eight `*Proofs` modules.
