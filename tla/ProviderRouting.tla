--------------------------- MODULE ProviderRouting ---------------------------
(***************************************************************************)
(* ProviderRouter: the selection of one provider and backend among the     *)
(* descriptors of a registry.  Every definition is a function of the list  *)
(* the registry hands out and of the resolution policy.                    *)
(***************************************************************************)
EXTENDS ProviderManifests

\* The parts of a ProviderResolutionPolicy that are read.
IsPolicy(p) ==
  /\ {"capability", "preferred", "tags", "hints", "fallback"} \subseteq DOMAIN p
  /\ DOMAIN p.hints.order = 1..Len(p.hints.order) /\ Len(p.hints.order) \in Nat
  /\ DOMAIN p.fallback.ids = 1..Len(p.fallback.ids) /\ Len(p.fallback.ids) \in Nat

\* a comes before b in the order of a chain of OrderBy/ThenBy on integers.
LexLess(a, b) ==
  \E i \in DOMAIN a : a[i] < b[i] /\ \A j \in 1..(i - 1) : a[j] = b[j]

\* A list that Where has filtered is the set of the positions it kept.  A
\* stable sort by the keys key[i] puts the position i before j:
Before(key, i, j) == LexLess(key[i], key[j]) \/ (key[i] = key[j] /\ i < j)

\* The positions of S in the order a stable sort gives them, and the first.
StableSort(S, key) ==
  [k \in 1..Cardinality(S) |->
     CHOOSE i \in S : Cardinality({j \in S : Before(key, j, i)}) = k - 1]
FirstSorted(S, key) == CHOOSE i \in S : \A j \in S : ~Before(key, j, i)

Earliest(S) == CHOOSE i \in S : \A j \in S : i <= j

-----------------------------------------------------------------------------
(* Backends of a provider.                                                 *)

BackendDescriptorsOrImplicit(d) ==
  IF d.backends # <<>> THEN d.backends
  ELSE LET merged == MergeMetadata(d) IN
       << [name         |-> ReadMetadata(merged, "backend",
                              ReadMetadata(merged, "backendName", Blank)),
           kind         |-> ReadMetadata(merged, "backendKind",
                              ReadMetadata(merged, "kind", Blank)),
           rank         |-> 0,
           capabilities |-> d.capabilities,
           metadata     |-> merged] >>

\* First position of a name in the explicit preference order, 0 if absent.
PreferenceIndex(name, order) ==
  LET at == {i \in DOMAIN order : order[i] = name}
  IN  IF at = {} THEN 0 ELSE Earliest(at)

BackendPreferenceRank(b, hints) ==
  LET index == PreferenceIndex(b.name, hints.order)
  IN  CASE hints.backend # Blank /\ b.name = hints.backend -> -10000
        [] index > 0 -> -1000 + (index - 1)
        [] hints.preferLocal /\ b.kind = "local" -> -100
        [] hints.preferLocal /\ b.kind = "remote" -> 100
        [] OTHER -> 0

HasBackendCapability(b, capability) ==
  b.capabilities = {} \/ capability \in b.capabilities

BackendOrder(b, hints) ==
  <<BackendPreferenceRank(b, hints), b.rank, Ordinal[b.name]>>

\* The capability test on the backend is forgotten.
SelectBackend_AnyCapability(d, policy) ==
  LET all == BackendDescriptorsOrImplicit(d)
  IN  all[FirstSorted(DOMAIN all, [i \in DOMAIN all |-> BackendOrder(all[i], policy.hints)])]

\* The backend a provider would serve the capability with, or Null.
SelectBackend(d, policy) ==
  LET all      == BackendDescriptorsOrImplicit(d)
      matching == {i \in DOMAIN all : HasBackendCapability(all[i], policy.capability)}
      key      == [i \in DOMAIN all |-> BackendOrder(all[i], policy.hints)]
  IN  IF matching = {} THEN Null ELSE all[FirstSorted(matching, key)]

\* What the result says of the backend: one without metadata of its own
\* shows the merged metadata of its provider.
CreateBackendSelection(b, d) ==
  IF b = Null THEN Null
  ELSE [name |-> b.name, kind |-> b.kind, rank |-> b.rank,
        metadata |-> IF DOMAIN b.metadata # {} THEN b.metadata ELSE MergeMetadata(d)]

-----------------------------------------------------------------------------
(* Candidates and their sort key.                                          *)

EffectiveCapabilities(d, b) ==
  IF b.capabilities # {} THEN b.capabilities ELSE d.capabilities

MaxInt == 2147483647

CapabilitySpecificity(d, b, capability) ==
  IF capability \in EffectiveCapabilities(d, b)
  THEN Cardinality(EffectiveCapabilities(d, b)) ELSE MaxInt

AvailabilityRank(d, b) ==
  LET availability == ReadMetadata(b.metadata, "availability",
                        ReadMetadata(d.metadata, "availability", "available"))
  IN  IF availability = "available" THEN 0 ELSE 1

ExactMatchRank(d, b, capability) ==
  IF capability \in EffectiveCapabilities(d, b) THEN 0 ELSE 1

MatchesPreferredProvider(d, preferred) == preferred = Blank \/ d.providerId = preferred

HasCapability(d, capability) == capability \in d.capabilities

HasTags(d, tags) == tags \subseteq d.tags

SortKey(d, b, policy) ==
  << d.priority, AvailabilityRank(d, b), ExactMatchRank(d, b, policy.capability),
     BackendPreferenceRank(b, policy.hints), Ordinal[d.providerId],
     Ordinal[d.version], Ordinal[d.source],
     CapabilitySpecificity(d, b, policy.capability), b.rank, Ordinal[b.name] >>

\* The positions of the providers that become candidates.
CreateCandidates(providers, policy) ==
  {i \in DOMAIN providers :
     /\ MatchesPreferredProvider(providers[i], policy.preferred)
     /\ HasCapability(providers[i], policy.capability)
     /\ HasTags(providers[i], policy.tags)
     /\ SelectBackend(providers[i], policy) # Null}

\* The sort key of every candidate.
CandidateKeys(providers, policy) ==
  [i \in CreateCandidates(providers, policy) |->
     SortKey(providers[i], SelectBackend(providers[i], policy), policy)]

-----------------------------------------------------------------------------
(* The availability probe order.  Resolve and GetAvailabilityProbeOrder     *)
(* each carry the whole chain of OrderBy calls.                             *)

\* The positions of the providers to probe, in order.
GetAvailabilityProbeOrder(providers, policy) ==
  StableSort(CreateCandidates(providers, policy), CandidateKeys(providers, policy))

-----------------------------------------------------------------------------
(* Fallback and resolution.                                                *)

WithId(providers, id, tags) ==
  {i \in DOMAIN providers : providers[i].providerId = id /\ HasTags(providers[i], tags)}

\* The listed identifiers are tried in order; without a list, the smallest
\* identifier wins.  Neither looks at the capability.
ResolveFallback(fallback, providers, tags) ==
  LET found  == {k \in DOMAIN fallback.ids :
                   /\ fallback.ids[k] # Blank
                   /\ WithId(providers, fallback.ids[k], tags) # {}}
      tagged == {i \in DOMAIN providers : HasTags(providers[i], tags)}
      key    == [i \in DOMAIN providers |-> <<Ordinal[providers[i].providerId]>>]
  IN  IF fallback.ids # <<>>
      THEN IF found = {} THEN Null
           ELSE providers[Earliest(WithId(providers, fallback.ids[Earliest(found)], tags))]
      ELSE IF tagged = {} THEN Null ELSE providers[FirstSorted(tagged, key)]

\* code is the error code, or the code of the one diagnostic, if any.
Failure(code) == [succeeded |-> FALSE, code |-> code, provider |-> Null, backend |-> Null]

Success(diagnostic, d, b) ==
  [succeeded |-> TRUE, code |-> diagnostic, provider |-> d,
   backend |-> CreateBackendSelection(b, d)]

\* What is left when no candidate was found.
FallbackOrNotFound(providers, policy) ==
  LET fallback == ResolveFallback(policy.fallback, providers, policy.tags)
  IN  IF policy.fallback.enabled /\ fallback # Null
      THEN Success("PROVIDER_FALLBACK_USED", fallback, SelectBackend(fallback, policy))
      ELSE Failure("PROVIDER_NOT_FOUND")

\* Candidates that tie for the first place are not reported.
SelectCandidate_FirstWins(providers, policy) ==
  LET candidates == CreateCandidates(providers, policy)
      best       == FirstSorted(candidates, CandidateKeys(providers, policy))
  IN  Success(IF candidates = {best} THEN "none" ELSE "PROVIDER_DETERMINISTIC_SELECTION",
              providers[best], SelectBackend(providers[best], policy))

\* The candidate that comes first, unless another has the same key.
SelectCandidate(providers, policy) ==
  LET candidates == CreateCandidates(providers, policy)
      key        == CandidateKeys(providers, policy)
      best       == FirstSorted(candidates, key)
  IN  IF \E i \in candidates \ {best} : key[i] = key[best]
      THEN Failure("PROVIDER_DUPLICATE")
      ELSE Success(IF candidates = {best} THEN "none" ELSE "PROVIDER_DETERMINISTIC_SELECTION",
                   providers[best], SelectBackend(providers[best], policy))

ResolvePolicy(providers, policy) ==
  IF policy.capability = Blank THEN Failure("PROVIDER_CAPABILITY_REQUIRED")
  ELSE IF CreateCandidates(providers, policy) # {} THEN SelectCandidate(providers, policy)
  ELSE FallbackOrNotFound(providers, policy)

NoFallback == [enabled |-> FALSE, ids |-> <<>>]

\* Strict mode is not singled out.
Resolve_KeepsFallback(providers, request) == ResolvePolicy(providers, request.policy)

\* Resolve(ProviderResolutionRequest): strict requests lose their fallback.
Resolve(providers, request) ==
  ResolvePolicy(providers, IF request.mode = "Strict"
                           THEN [request.policy EXCEPT !.fallback = NoFallback]
                           ELSE request.policy)
=============================================================================
