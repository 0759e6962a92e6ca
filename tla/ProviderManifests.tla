-------------------------- MODULE ProviderManifests --------------------------
(***************************************************************************)
(* Provider manifest descriptors: what the registry, the router and the    *)
(* catalog know of a provider, the merge of its metadata and the           *)
(* validation every registration goes through.                             *)
(*                                                                         *)
(* A string is a model-level string; Ordinal gives its place in the        *)
(* ordinal order of all strings of the instance, "" being the blank one.   *)
(* Capabilities and tags are compared without case by the code, and the    *)
(* loader's Normalize drops duplicates up to case: they are sets of names  *)
(* written in one case.                                                    *)
(***************************************************************************)
EXTENDS Integers, Sequences, FiniteSets

CONSTANTS Strings,   \* every string of the instance
          Ordinal    \* string -> its position in StringComparer.Ordinal order

Blank == ""

ASSUME OrdinalAssumption ==
  /\ Blank \in Strings
  /\ Ordinal \in [Strings -> Nat]
  /\ \A s, t \in Strings : Ordinal[s] = Ordinal[t] => s = t

\* Absence of a descriptor or of a backend (C# null).
Null == [absent |-> TRUE]

\* An empty metadata dictionary.
NoMetadata == <<>>

\* The shapes of the loader's results that the routing reads.  A dictionary
\* is a function, a list without duplicates a finite set.
IsMetadata(m) == \A k \in DOMAIN m : m[k] \in Strings

IsBackend(b) ==
  /\ b # Null
  /\ b.name \in Strings /\ b.rank \in Int
  /\ IsFiniteSet(b.capabilities) /\ IsMetadata(b.metadata)

IsDescriptor(d) ==
  /\ d # Null
  /\ {d.providerId, d.version, d.assembly, d.source} \subseteq Strings
  /\ d.priority \in Int
  /\ IsFiniteSet(d.capabilities) /\ IsFiniteSet(d.tags)
  /\ IsMetadata(d.metadata) /\ IsMetadata(d.backendMetadata) /\ IsMetadata(d.vendorMetadata)
  /\ DOMAIN d.backends = 1..Len(d.backends) /\ Len(d.backends) \in Nat
  /\ \A i \in DOMAIN d.backends : IsBackend(d.backends[i])

-----------------------------------------------------------------------------
CopyInto(target, values) ==
  [k \in DOMAIN target \cup DOMAIN values |->
     IF k \in DOMAIN values THEN values[k] ELSE target[k]]

\* Provider metadata, overridden by backend metadata, overridden by vendor's.
MergeMetadata(d) ==
  CopyInto(CopyInto(CopyInto(NoMetadata, d.metadata), d.backendMetadata),
           d.vendorMetadata)

\* The value of a key, or the default when it is missing or blank.
ReadMetadata(metadata, key, default) ==
  IF key \in DOMAIN metadata /\ metadata[key] # Blank THEN metadata[key] ELSE default

-----------------------------------------------------------------------------
DefaultOptions == [requireCapabilities |-> FALSE, requireSchemaVersion |-> FALSE]

\* The required fields a descriptor lacks; the validation succeeds when it
\* finds none.
MissingFields(d, options) ==
  IF d = Null THEN {"descriptor"}
  ELSE {f \in {"providerId", "name", "version", "assembly"} : d[f] = Blank}
       \cup {f \in {"schemaVersion"} : options.requireSchemaVersion /\ d[f] = Blank}
       \cup {f \in {"capabilities"} : options.requireCapabilities /\ d[f] = {}}

Validate(d, options) == MissingFields(d, options) = {}
=============================================================================
