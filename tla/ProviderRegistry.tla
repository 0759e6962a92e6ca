-------------------------- MODULE ProviderRegistry --------------------------
(***************************************************************************)
(* ProviderRegistry and the resolutions made against it.  Each host is one *)
(* process, or one load of a catalog, with a registry of its own, which it *)
(* fills in an order of its own.                                           *)
(*                                                                         *)
(* Register sorts with List.Sort, which is not stable: providers that      *)
(* compare equal come out in any order.  Resolve and                       *)
(* GetAvailabilityProbeOrder read the list and change nothing; they are    *)
(* the operators of ProviderRouting, evaluated in every state.             *)
(***************************************************************************)
EXTENDS ProviderRouting

CONSTANTS Hosts,
          Manifests,     \* descriptors a host may register, invalid ones included
          Requests,      \* resolution requests the properties are about
          MaxProviders   \* bound on the length of a registry

ASSUME RegistryAssumption ==
  /\ MaxProviders \in Nat
  /\ \A d \in Manifests : d # Null => IsDescriptor(d)
  /\ \A r \in Requests : IsPolicy(r.policy)

VARIABLE providers   \* _providers: host -> its sorted list

vars == <<providers>>

CompareKey(d) == <<Ordinal[d.providerId], Ordinal[d.version], Ordinal[d.assembly]>>

\* CompareProviders(left, right) > 0.
CompareProviders(left, right) == LexLess(CompareKey(right), CompareKey(left))

Sorted(s) == \A i, j \in DOMAIN s : i < j => ~CompareProviders(s[i], s[j])

\* Everything List.Sort may leave in the place of s.
Sort(s) ==
  LET n == Len(s)
      Orders == {p \in [1..n -> 1..n] : \A i, j \in 1..n : p[i] = p[j] => i = j}
      Arrangement(p) == [i \in 1..n |-> s[p[i]]]
  IN  {t \in {Arrangement(p) : p \in Orders} : Sorted(t)}

Init == providers = [h \in Hosts |-> <<>>]

\* The list is appended to and left unsorted.
Register_Unsorted(h, d) ==
  IF Validate(d, DefaultOptions)
  THEN /\ Len(providers[h]) < MaxProviders
       /\ providers' = [providers EXCEPT ![h] = Append(@, d)]
  ELSE UNCHANGED providers

\* The new provider takes the place of those with its identifier.
Register_Replaces(h, d) ==
  IF Validate(d, DefaultOptions)
  THEN /\ Len(providers[h]) < MaxProviders
       /\ \E sorted \in Sort(Append(SelectSeq(providers[h],
                               LAMBDA e : e.providerId # d.providerId), d)) :
            providers' = [providers EXCEPT ![h] = sorted]
  ELSE UNCHANGED providers

Register(h, d) ==
  IF Validate(d, DefaultOptions)
  THEN /\ Len(providers[h]) < MaxProviders
       /\ \E sorted \in Sort(Append(providers[h], d)) :
            providers' = [providers EXCEPT ![h] = sorted]
  ELSE UNCHANGED providers

Next == \E h \in Hosts, d \in Manifests : Register(h, d)

Spec == Init /\ [][Next]_vars

-----------------------------------------------------------------------------
(* Properties.  \E x \in {e} names the value of e: TLC computes it once.     *)

\* A registry holds validated descriptors only, in CompareProviders order.
TypeOK ==
  /\ providers \in [Hosts -> Seq(Manifests)]
  /\ \A h \in Hosts :
       /\ Len(providers[h]) <= MaxProviders
       /\ \A i \in DOMAIN providers[h] : Validate(providers[h][i], DefaultOptions)
       /\ Sorted(providers[h])

InRange(s) == {s[i] : i \in DOMAIN s}

\* The backends that could serve a capability for d: one of its own, or the
\* provider itself when it declares none.
ServingBackends(d, capability) ==
  {b \in InRange(BackendDescriptorsOrImplicit(d)) :
     b.capabilities = {} \/ capability \in b.capabilities}

\* d is what the policy asks for, said without candidates or sort keys.
CanServe(d, policy) ==
  /\ policy.preferred \in {Blank, d.providerId}
  /\ policy.capability \in d.capabilities
  /\ policy.tags \subseteq d.tags
  /\ ServingBackends(d, policy.capability) # {}

\* Whether the caller gets a provider is decided by what is registered and
\* by nothing else: a provider that is returned without the fallback can
\* serve the request through the backend returned with it and nothing that
\* can serve it has a lower priority value; and when some provider can serve
\* the request the answer is never "not found" and never the fallback
\* (ProviderRouter.Resolve).
ResolutionIsSoundAndComplete ==
  \A h \in Hosts, r \in Requests :
    LET res == Resolve(providers[h], r)
        servers == {d \in InRange(providers[h]) : CanServe(d, r.policy)}
    IN  r.policy.capability # Blank =>
          /\ res.succeeded /\ res.code # "PROVIDER_FALLBACK_USED" =>
               /\ res.provider \in servers
               /\ \A d \in servers : res.provider.priority <= d.priority
               /\ \E b \in ServingBackends(res.provider, r.policy.capability) :
                    res.backend.name = b.name /\ res.backend.kind = b.kind
          /\ res.code \in {"PROVIDER_FALLBACK_USED", "PROVIDER_NOT_FOUND"} => servers = {}

\* Hosts that registered the same manifests, in whatever order, give every
\* request the same answer: the same code, the same provider identifier, and
\* outside the fallback the very same manifest and backend.  A registry is
\* sorted, so that another order of registration, and whatever an unstable sort
\* makes of equal providers, leaves one of the lists Sort(providers[h])
\* (ProviderRegistry.Register, ProviderRouter.Resolve).
SameManifestsSameRoute ==
  \A h \in Hosts, r \in Requests :
    \A here, there \in {Resolve(list, r) : list \in Sort(providers[h])} :
      IF here.code = "PROVIDER_FALLBACK_USED"
      THEN there.code = here.code /\ there.provider.providerId = here.provider.providerId
      ELSE there = here

\* The availability probe and the resolution agree although each sorts on its
\* own: a selected provider heads the probe order, an empty probe order means
\* that nothing is selected, and a duplicate shows as two equal keys at its
\* head (ProviderRouter.GetAvailabilityProbeOrder).
ProbeOrderAgreesWithResolve ==
  \A h \in Hosts, r \in Requests : r.policy.capability # Blank =>
    \E res \in {Resolve(providers[h], r)},
       probe \in {GetAvailabilityProbeOrder(providers[h], r.policy)} :
      /\ res.code \in {"PROVIDER_FALLBACK_USED", "PROVIDER_NOT_FOUND"} <=> probe = <<>>
      /\ res.code \in {"none", "PROVIDER_DETERMINISTIC_SELECTION"} =>
           res.provider = providers[h][probe[1]]
      /\ res.code = "PROVIDER_DUPLICATE" =>
           \E key \in {CandidateKeys(providers[h], r.policy)} :
             key[probe[1]] = key[probe[2]]

\* Neither the order of registration nor the second copy of the sort decides
\* who serves a request (ProviderRegistry.Register, ProviderRouter).
RoutesAreDetermined == SameManifestsSameRoute /\ ProbeOrderAgreesWithResolve

\* The fallback is the last resort and is never implicit: a strict request
\* and a policy that does not enable it are never served by it, and the
\* provider it gives is the first listed identifier that is registered with
\* the requested tags, in its smallest version (ProviderRouter.ResolveFallback).
FallbackIsExplicit ==
  \A h \in Hosts, r \in Requests :
    LET res == Resolve(providers[h], r)
        ids == r.policy.fallback.ids
        tagged == {d \in InRange(providers[h]) : r.policy.tags \subseteq d.tags}
        Of(id) == {d \in tagged : d.providerId = id}
    IN  res.code = "PROVIDER_FALLBACK_USED" =>
          /\ r.mode # "Strict" /\ r.policy.fallback.enabled
          /\ res.provider \in tagged
          /\ \A d \in Of(res.provider.providerId) : ~CompareProviders(res.provider, d)
          /\ ids # <<>> => \E i \in DOMAIN ids :
               /\ ids[i] = res.provider.providerId
               /\ \A j \in 1..(i - 1) : Of(ids[j]) = {}

\* The providers of a list with their multiplicities.
Multiplicity(s) == [d \in InRange(s) |-> Cardinality({i \in DOMAIN s : s[i] = d})]

\* A registration changes the answer to a request only in favour of the
\* provider that was registered, or by a collision in which it takes part; it
\* never makes another provider win, and never takes an answer away
\* (ProviderRegistry.Register).
RegistrationNeverDegrades ==
  [][\A h \in Hosts, r \in Requests : providers[h] # providers'[h] =>
       LET new == {d \in InRange(providers'[h]) :
                     d \notin InRange(providers[h])
                     \/ Multiplicity(providers'[h])[d] > Multiplicity(providers[h])[d]}
       IN  \E before \in {Resolve(providers[h], r)}, after \in {Resolve(providers'[h], r)} :
           /\ before.succeeded /\ ~after.succeeded =>
                /\ after.code = "PROVIDER_DUPLICATE"
                /\ \E d \in new : CanServe(d, r.policy)
           /\ before.succeeded /\ before.code # "PROVIDER_FALLBACK_USED" /\ after.succeeded =>
                after.provider \in new \cup {before.provider}]_vars
=============================================================================
