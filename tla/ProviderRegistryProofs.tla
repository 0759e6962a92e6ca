----------------------- MODULE ProviderRegistryProofs -----------------------
(***************************************************************************)
(* Proofs about ProviderRegistry and ProviderRouting: what a registry      *)
(* holds; that a resolution is sound and complete whatever is registered;  *)
(* that it does not depend on the order of the list; and that a            *)
(* registration changes answers in favour of what was registered only, for *)
(* any number of providers, backends, preferences and requests.            *)
(*                                                                         *)
(* The heart of the argument is that a stable sort has a first element,    *)
(* that is, that an order built from ten fields is well founded on a       *)
(* finite list (FirstSortedIsFirst).  The order is irreflexive and         *)
(* transitive, so an element with the fewest predecessors has none.  Two   *)
(* candidates with different keys are comparable (LexTotal), hence the     *)
(* first of a sort is determined up to its key, and by its key unless the  *)
(* answer is that there is a duplicate.                                    *)
(***************************************************************************)
EXTENDS ProviderRegistry, FiniteSetTheorems, SequenceTheorems, WellFoundedInduction, TLAPS

-----------------------------------------------------------------------------
(* The first element of a stable sort.                                     *)

\* A set of naturals that has an element has a smallest one.
LEMMA NatMinimum ==
  ASSUME NEW S \in SUBSET Nat, S # {}
  PROVE  \E m \in S : \A n \in S : m <= n
<1> DEFINE R == {ss \in Nat \X Nat : ss[1] < ss[2]}
<1>1. IsWellFoundedOn(R, Nat)
  BY NatLessThanWellFounded DEF OpToRel
<1>2. \E m \in S : \A n \in S : <<n, m>> \notin R
  <2> HIDE DEF R
  <2>1. QED BY <1>1, WFMin
<1>3. PICK m \in S : \A n \in S : <<n, m>> \notin R
  BY <1>2
<1>4. ASSUME NEW n \in S PROVE m <= n
  <2>1. <<n, m>> \notin R BY <1>3
  <2>2. <<n, m>> \in Nat \X Nat OBVIOUS
  <2>3. ~(n < m) BY <2>1, <2>2
  <2>4. QED BY <2>3
<1>5. QED BY <1>4

\* Earliest picks a position of the set, and no other comes before it.
LEMMA EarliestIsEarliest ==
  ASSUME NEW S \in SUBSET Nat, S # {}
  PROVE  Earliest(S) \in S /\ \A n \in S : Earliest(S) <= n
BY NatMinimum DEF Earliest

\* A key is never before itself.
LEMMA LexIrreflexive ==
  ASSUME NEW n \in Nat, NEW a \in [1..n -> Int]
  PROVE  ~LexLess(a, a)
BY DEF LexLess

\* The order of a chain of OrderBy/ThenBy is transitive.
LEMMA LexTransitive ==
  ASSUME NEW n \in Nat, NEW a \in [1..n -> Int], NEW b \in [1..n -> Int],
         NEW c \in [1..n -> Int], LexLess(a, b), LexLess(b, c)
  PROVE  LexLess(a, c)
<1>1. PICK i \in 1..n : a[i] < b[i] /\ \A k \in 1..(i - 1) : a[k] = b[k]
  BY DEF LexLess
<1>2. PICK j \in 1..n : b[j] < c[j] /\ \A k \in 1..(j - 1) : b[k] = c[k]
  BY DEF LexLess
<1>3. CASE i <= j
  <2>1. a[i] < c[i] BY <1>1, <1>2, <1>3
  <2>2. \A k \in 1..(i - 1) : a[k] = c[k] BY <1>1, <1>2, <1>3
  <2>3. QED BY <2>1, <2>2 DEF LexLess
<1>4. CASE j < i
  <2>1. a[j] < c[j] BY <1>1, <1>2, <1>4
  <2>2. \A k \in 1..(j - 1) : a[k] = c[k] BY <1>1, <1>2, <1>4
  <2>3. QED BY <2>1, <2>2 DEF LexLess
<1>5. QED BY <1>3, <1>4

\* So is the order of a stable sort on the positions of a list.
LEMMA BeforeTransitive ==
  ASSUME NEW n \in Nat, NEW S \in SUBSET Nat, NEW key,
         \A i \in S : key[i] \in [1..n -> Int],
         NEW i \in S, NEW j \in S, NEW k \in S,
         Before(key, i, j), Before(key, j, k)
  PROVE  Before(key, i, k)
<1>1. CASE LexLess(key[i], key[j]) /\ LexLess(key[j], key[k])
  BY <1>1, LexTransitive DEF Before
<1>2. CASE key[i] = key[j] \/ key[j] = key[k]
  BY <1>2 DEF Before
<1>3. QED BY <1>1, <1>2 DEF Before

\* A stable sort of a list that is not empty has a first element.
LEMMA FirstSortedIsFirst ==
  ASSUME NEW n \in Nat, NEW S \in SUBSET Nat, IsFiniteSet(S), S # {}, NEW key,
         \A i \in S : key[i] \in [1..n -> Int]
  PROVE  /\ FirstSorted(S, key) \in S
         /\ \A j \in S : ~Before(key, j, FirstSorted(S, key))
<1> DEFINE Pred(i) == {j \in S : Before(key, j, i)}
           Sizes   == {Cardinality(Pred(i)) : i \in S}
<1>1. \A i \in S : IsFiniteSet(Pred(i)) /\ Cardinality(Pred(i)) \in Nat
  <2>1. \A i \in S : Pred(i) \subseteq S OBVIOUS
  <2>2. QED BY <2>1, FS_Subset, FS_CardinalityType
<1>2. PICK m \in Sizes : \A s \in Sizes : m <= s
  <2>1. Sizes \in SUBSET Nat /\ Sizes # {} BY <1>1
  <2> HIDE DEF Sizes
  <2>2. QED BY <2>1, NatMinimum
<1>3. PICK first \in S : \A i \in S : Cardinality(Pred(first)) <= Cardinality(Pred(i))
  BY <1>2
<1>4. \A j \in S : ~Before(key, j, first)
  <2>1. SUFFICES ASSUME NEW j \in S, Before(key, j, first) PROVE FALSE
    OBVIOUS
  <2>2. Pred(j) \subseteq Pred(first)
    BY <2>1, BeforeTransitive
  <2>3. j \in Pred(first) BY <2>1
  <2>4. ~Before(key, j, j) BY LexIrreflexive DEF Before
  <2>5. j \notin Pred(j) BY <2>4
  <2> HIDE DEF Pred
  <2>6. Cardinality(Pred(j)) < Cardinality(Pred(first))
    BY <1>1, <2>2, <2>3, <2>5, FS_Subset
  <2>7. QED BY <1>1, <1>3, <2>6
<1>5. QED BY <1>4 DEF FirstSorted

-----------------------------------------------------------------------------
(* The backend of a provider.                                              *)

LEMMA MergedMetadataIsMetadata ==
  ASSUME NEW d, IsDescriptor(d)
  PROVE  IsMetadata(MergeMetadata(d))
<1>1. ASSUME NEW target, NEW values, IsMetadata(target), IsMetadata(values)
      PROVE  IsMetadata(CopyInto(target, values))
  BY <1>1 DEF IsMetadata, CopyInto
<1>2. IsMetadata(NoMetadata)
  BY DEF IsMetadata, NoMetadata
<1>3. QED
  BY <1>1, <1>2 DEF MergeMetadata, IsDescriptor

LEMMA ReadMetadataIsString ==
  ASSUME NEW m, IsMetadata(m), NEW key, NEW default \in Strings
  PROVE  ReadMetadata(m, key, default) \in Strings
BY DEF IsMetadata, ReadMetadata

\* The loader's backends, or the implicit one, are well formed and never none.
LEMMA BackendsAreBackends ==
  ASSUME NEW d, IsDescriptor(d)
  PROVE  LET all == BackendDescriptorsOrImplicit(d)
         IN  /\ \E n \in Nat : DOMAIN all = 1..n
             /\ \A i \in DOMAIN all : IsBackend(all[i])
<1>1. CASE d.backends # <<>>
  BY <1>1 DEF IsDescriptor, BackendDescriptorsOrImplicit
<1>2. CASE d.backends = <<>>
  <2> DEFINE merged == MergeMetadata(d)
             b == [name         |-> ReadMetadata(merged, "backend",
                                      ReadMetadata(merged, "backendName", Blank)),
                   kind         |-> ReadMetadata(merged, "backendKind",
                                      ReadMetadata(merged, "kind", Blank)),
                   rank         |-> 0,
                   capabilities |-> d.capabilities,
                   metadata     |-> merged]
  <2>1. b.name \in Strings /\ b.rank \in Int /\ b.capabilities = d.capabilities
        /\ b.metadata = merged
    <3>1. Blank \in Strings BY OrdinalAssumption
    <3>2. IsMetadata(merged) BY MergedMetadataIsMetadata
    <3> DEFINE inner == ReadMetadata(merged, "backendName", Blank)
    <3> HIDE DEF merged
    <3>3. inner \in Strings BY <3>1, <3>2, ReadMetadataIsString
    <3> HIDE DEF inner
    <3>4. ReadMetadata(merged, "backend", inner) \in Strings
      BY <3>2, <3>3, ReadMetadataIsString
    <3>5. QED BY <3>4 DEF inner
  <2>2. b # Null
    <3>1. "name" \in DOMAIN b /\ "name" \notin DOMAIN Null BY DEF Null
    <3>2. QED BY <3>1
  <2>3. IsBackend(b)
    <3> HIDE DEF b
    <3>1. QED BY <2>1, <2>2, MergedMetadataIsMetadata DEF IsBackend, IsDescriptor
  <2>4. BackendDescriptorsOrImplicit(d) = <<b>>
    BY <1>2 DEF BackendDescriptorsOrImplicit
  <2> HIDE DEF b
  <2>5. DOMAIN <<b>> = 1..1 /\ <<b>>[1] = b OBVIOUS
  <2>6. QED BY <2>3, <2>4, <2>5
<1>3. QED BY <1>1, <1>2

LEMMA PreferenceRankIsInteger ==
  ASSUME NEW b, NEW p, IsPolicy(p)
  PROVE  BackendPreferenceRank(b, p.hints) \in Int
<1>1. PreferenceIndex(b.name, p.hints.order) \in Nat
  <2> DEFINE at == {i \in DOMAIN p.hints.order : p.hints.order[i] = b.name}
  <2>1. at \in SUBSET Nat BY DEF IsPolicy
  <2> HIDE DEF at
  <2>2. at # {} => Earliest(at) \in Nat BY <2>1, EarliestIsEarliest
  <2> USE DEF at
  <2>3. QED BY <2>2 DEF PreferenceIndex
<1>2. QED BY <1>1 DEF BackendPreferenceRank

\* SelectBackend finds a backend exactly when one can serve the capability,
\* and the backend it finds can.
LEMMA SelectBackendServes ==
  ASSUME NEW d, IsDescriptor(d), NEW p, IsPolicy(p)
  PROVE  /\ SelectBackend(d, p) = Null <=> ServingBackends(d, p.capability) = {}
         /\ SelectBackend(d, p) # Null =>
              /\ SelectBackend(d, p) \in ServingBackends(d, p.capability)
              /\ IsBackend(SelectBackend(d, p))
<1> DEFINE all      == BackendDescriptorsOrImplicit(d)
           matching == {i \in DOMAIN all : HasBackendCapability(all[i], p.capability)}
           key      == [i \in DOMAIN all |-> BackendOrder(all[i], p.hints)]
<1>1. PICK n \in Nat : DOMAIN all = 1..n
  BY BackendsAreBackends
<1>2. \A i \in DOMAIN all : IsBackend(all[i])
  BY BackendsAreBackends
<1>3. \A i \in matching : key[i] \in [1..3 -> Int]
  <2>1. SUFFICES ASSUME NEW i \in DOMAIN all PROVE key[i] \in [1..3 -> Int]
    OBVIOUS
  <2>2. /\ BackendPreferenceRank(all[i], p.hints) \in Int
        /\ all[i].rank \in Int
        /\ Ordinal[all[i].name] \in Int
    BY <1>2, PreferenceRankIsInteger, OrdinalAssumption DEF IsBackend
  <2> HIDE DEF all
  <2>3. QED BY <2>2 DEF BackendOrder
<1>4. ServingBackends(d, p.capability) = {all[i] : i \in matching}
  BY DEF ServingBackends, InRange, HasBackendCapability
<1>5. matching \in SUBSET Nat /\ IsFiniteSet(matching)
  <2>1. matching \subseteq 1..n BY <1>1
  <2>2. IsFiniteSet(1..n) BY FS_Interval
  <2> HIDE DEF matching
  <2>3. IsFiniteSet(matching) BY <2>1, <2>2, FS_Subset
  <2>4. QED BY <2>1, <2>3
<1>6. SelectBackend(d, p) = IF matching = {} THEN Null ELSE all[FirstSorted(matching, key)]
  BY DEF SelectBackend
<1>7. matching \subseteq DOMAIN all OBVIOUS
<1> HIDE DEF matching, key, all
<1>8. matching # {} => FirstSorted(matching, key) \in matching
  BY <1>3, <1>5, FirstSortedIsFirst
<1>9. matching # {} => IsBackend(all[FirstSorted(matching, key)])
  BY <1>2, <1>7, <1>8
<1>10. QED BY <1>4, <1>6, <1>8, <1>9 DEF IsBackend

-----------------------------------------------------------------------------
(* Candidates.                                                             *)

\* A registered list of the shape the registry keeps.
IsList(s) ==
  /\ DOMAIN s = 1..Len(s) /\ Len(s) \in Nat
  /\ \A i \in DOMAIN s : IsDescriptor(s[i])

\* The candidates are the providers that can serve the request.
LEMMA CandidatesCanServe ==
  ASSUME NEW s, IsList(s), NEW p, IsPolicy(p)
  PROVE  CreateCandidates(s, p) = {i \in DOMAIN s : CanServe(s[i], p)}
<1>1. ASSUME NEW i \in DOMAIN s
      PROVE  SelectBackend(s[i], p) # Null <=> ServingBackends(s[i], p.capability) # {}
  BY SelectBackendServes DEF IsList
<1>2. QED
  BY <1>1 DEF CreateCandidates, CanServe, MatchesPreferredProvider, HasCapability, HasTags

LEMMA SortKeyIsKey ==
  ASSUME NEW d, IsDescriptor(d), NEW b, IsBackend(b), NEW p, IsPolicy(p)
  PROVE  /\ SortKey(d, b, p) \in [1..10 -> Int]
         /\ SortKey(d, b, p)[1] = d.priority
<1>1. AvailabilityRank(d, b) \in Int /\ ExactMatchRank(d, b, p.capability) \in Int
  BY DEF AvailabilityRank, ExactMatchRank
<1>2. CapabilitySpecificity(d, b, p.capability) \in Int
  <2>1. IsFiniteSet(EffectiveCapabilities(d, b))
    BY DEF EffectiveCapabilities, IsDescriptor, IsBackend
  <2>2. Cardinality(EffectiveCapabilities(d, b)) \in Nat
    BY <2>1, FS_CardinalityType
  <2>3. QED BY <2>2 DEF CapabilitySpecificity, MaxInt
<1>3. /\ Ordinal[d.providerId] \in Int /\ Ordinal[d.version] \in Int
      /\ Ordinal[d.source] \in Int /\ Ordinal[b.name] \in Int
      /\ d.priority \in Int /\ b.rank \in Int
  BY OrdinalAssumption DEF IsDescriptor, IsBackend
<1>4. BackendPreferenceRank(b, p.hints) \in Int
  BY PreferenceRankIsInteger
<1>5. QED BY <1>1, <1>2, <1>3, <1>4 DEF SortKey

\* The candidate the router puts first: it is one of them, and none has a
\* lower priority value.
LEMMA BestCandidate ==
  ASSUME NEW s, IsList(s), NEW p, IsPolicy(p), CreateCandidates(s, p) # {}
  PROVE  LET best == FirstSorted(CreateCandidates(s, p), CandidateKeys(s, p))
         IN  /\ best \in CreateCandidates(s, p)
             /\ \A i \in CreateCandidates(s, p) : s[best].priority <= s[i].priority
<1> DEFINE candidates == CreateCandidates(s, p)
           key        == CandidateKeys(s, p)
           best       == FirstSorted(candidates, key)
<1>1. candidates \in SUBSET Nat /\ IsFiniteSet(candidates)
  <2>1. candidates \subseteq 1..Len(s) BY DEF CreateCandidates, IsList
  <2>2. Len(s) \in Nat BY DEF IsList
  <2>3. IsFiniteSet(1..Len(s)) BY <2>2, FS_Interval
  <2> HIDE DEF candidates
  <2>4. IsFiniteSet(candidates) BY <2>1, <2>3, FS_Subset
  <2>5. QED BY <2>1, <2>2, <2>4
<1>2. \A i \in candidates : key[i] \in [1..10 -> Int] /\ key[i][1] = s[i].priority
  <2>1. SUFFICES ASSUME NEW i \in candidates
                 PROVE  key[i] \in [1..10 -> Int] /\ key[i][1] = s[i].priority
    OBVIOUS
  <2>2. key[i] = SortKey(s[i], SelectBackend(s[i], p), p)
    BY DEF CandidateKeys
  <2>3. IsDescriptor(s[i]) /\ SelectBackend(s[i], p) # Null
    BY DEF CreateCandidates, IsList
  <2>4. IsBackend(SelectBackend(s[i], p))
    BY <2>3, SelectBackendServes
  <2>5. QED BY <2>2, <2>3, <2>4, SortKeyIsKey
<1> HIDE DEF candidates, key
<1>3. best \in candidates /\ \A i \in candidates : ~Before(key, i, best)
  BY <1>1, <1>2, FirstSortedIsFirst DEF candidates
<1>4. ASSUME NEW i \in candidates PROVE s[best].priority <= s[i].priority
  <2>1. ~LexLess(key[i], key[best]) BY <1>3 DEF Before
  <2>2. ~(key[i][1] < key[best][1]) BY <1>2, <2>1 DEF LexLess
  <2>3. key[i][1] \in Int /\ key[best][1] \in Int BY <1>2, <1>3
  <2>4. QED BY <1>2, <1>3, <2>2, <2>3
<1>5. QED BY <1>3, <1>4 DEF candidates, key

-----------------------------------------------------------------------------
(* Theorems.                                                               *)

\* A registry holds validated descriptors only, in CompareProviders order,
\* however List.Sort arranges the ones that compare equal.
THEOREM TypeCorrect == Spec => []TypeOK
<1>1. Init => TypeOK
  BY RegistryAssumption DEF Init, TypeOK, Sorted
<1>2. TypeOK /\ [Next]_vars => TypeOK'
  <2>1. SUFFICES ASSUME TypeOK, Next PROVE TypeOK'
    BY DEF vars, TypeOK, Sorted
  <2>2. PICK h \in Hosts, d \in Manifests : Register(h, d)
    BY <2>1 DEF Next
  <2>3. CASE ~Validate(d, DefaultOptions)
    BY <2>1, <2>2, <2>3 DEF Register, TypeOK, Sorted
  <2>4. CASE Validate(d, DefaultOptions)
    <3> DEFINE s == Append(providers[h], d)
               n == Len(s)
    <3>1. PICK sorted \in Sort(s) : providers' = [providers EXCEPT ![h] = sorted]
      BY <2>2, <2>4 DEF Register
    <3>2. providers[h] \in Seq(Manifests) /\ Len(providers[h]) < MaxProviders
      BY <2>1, <2>2, <2>4 DEF Register, TypeOK
    <3>3. /\ s \in Seq(Manifests) /\ n = Len(providers[h]) + 1 /\ n \in Nat
          /\ \A i \in 1..n : s[i] \in Manifests /\ Validate(s[i], DefaultOptions)
      BY <2>1, <2>4, <3>2 DEF TypeOK
    <3> HIDE DEF s, n
    <3>4. PICK p \in [1..n -> 1..n] : sorted = [i \in 1..n |-> s[p[i]]] /\ Sorted(sorted)
      BY <3>1 DEF Sort, n
    <3>5. /\ sorted \in Seq(Manifests) /\ Len(sorted) = n /\ DOMAIN sorted = 1..n
          /\ \A i \in 1..n : Validate(sorted[i], DefaultOptions)
      <4>1. \A i \in 1..n : p[i] \in 1..n BY <3>4
      <4>2. \A i \in 1..n : sorted[i] \in Manifests /\ Validate(sorted[i], DefaultOptions)
        BY <3>3, <3>4, <4>1
      <4>3. DOMAIN sorted = 1..n /\ sorted = [i \in 1..n |-> sorted[i]] BY <3>4
      <4>4. sorted \in [1..n -> Manifests] BY <4>2, <4>3
      <4>5. sorted \in Seq(Manifests) BY <3>3, <4>4, SeqDef
      <4>6. Len(sorted) = n BY <3>3, <4>4, <4>5, LenProperties
      <4>7. QED BY <4>2, <4>3, <4>5, <4>6
    <3>6. n <= MaxProviders
      BY <3>2, <3>3, RegistryAssumption
    <3>7. providers' \in [Hosts -> Seq(Manifests)]
      BY <2>1, <3>1, <3>5 DEF TypeOK
    <3>8. ASSUME NEW g \in Hosts
          PROVE  /\ Len(providers'[g]) <= MaxProviders
                 /\ \A i \in DOMAIN providers'[g] : Validate(providers'[g][i], DefaultOptions)
                 /\ Sorted(providers'[g])
      <4>1. CASE g = h
        <5>1. providers'[g] = sorted BY <2>1, <3>1, <4>1 DEF TypeOK
        <5>2. QED BY <3>4, <3>5, <3>6, <5>1
      <4>2. CASE g # h
        <5>1. providers'[g] = providers[g] BY <2>1, <3>1, <4>2 DEF TypeOK
        <5>2. QED BY <2>1, <5>1 DEF TypeOK
      <4>3. QED BY <4>1, <4>2
    <3>9. QED BY <3>7, <3>8 DEF TypeOK, Sorted
  <2>5. QED BY <2>3, <2>4
<1>3. QED BY <1>1, <1>2, PTL DEF Spec

\* What the registry holds is a list of well-formed descriptors.
LEMMA RegistryIsList ==
  ASSUME TypeOK, NEW h \in Hosts
  PROVE  IsList(providers[h])
<1>1. providers[h] \in Seq(Manifests)
  BY DEF TypeOK
<1>2. ASSUME NEW i \in DOMAIN providers[h] PROVE IsDescriptor(providers[h][i])
  <2>1. Validate(providers[h][i], DefaultOptions) BY DEF TypeOK
  <2>2. providers[h][i] # Null BY <2>1 DEF Validate, MissingFields
  <2>3. QED BY <1>1, <2>2, RegistryAssumption
<1>3. QED BY <1>1, <1>2 DEF IsList

\* The same as ResolutionIsSoundAndComplete, for one list and one policy.
LEMMA ResolvePolicySoundAndComplete ==
  ASSUME NEW s, IsList(s), NEW p, IsPolicy(p), p.capability # Blank
  PROVE  LET res == ResolvePolicy(s, p)
             servers == {d \in InRange(s) : CanServe(d, p)}
         IN  /\ res.succeeded /\ res.code # "PROVIDER_FALLBACK_USED" =>
                  /\ res.provider \in servers
                  /\ \A d \in servers : res.provider.priority <= d.priority
                  /\ \E b \in ServingBackends(res.provider, p.capability) :
                       res.backend.name = b.name /\ res.backend.kind = b.kind
             /\ res.code \in {"PROVIDER_FALLBACK_USED", "PROVIDER_NOT_FOUND"} => servers = {}
<1> DEFINE candidates == CreateCandidates(s, p)
           best       == FirstSorted(candidates, CandidateKeys(s, p))
           servers    == {d \in InRange(s) : CanServe(d, p)}
<1>1. servers = {s[i] : i \in candidates} /\ candidates \subseteq DOMAIN s
  BY CandidatesCanServe DEF InRange
<1>2. CASE candidates = {}
  <2>1. ResolvePolicy(s, p) = FallbackOrNotFound(s, p)
    BY <1>2 DEF ResolvePolicy
  <2>2. \/ ResolvePolicy(s, p) = Failure("PROVIDER_NOT_FOUND")
        \/ \E d, b : ResolvePolicy(s, p) = Success("PROVIDER_FALLBACK_USED", d, b)
    BY <2>1 DEF FallbackOrNotFound
  <2>3. \/ ~ResolvePolicy(s, p).succeeded
        \/ ResolvePolicy(s, p).code = "PROVIDER_FALLBACK_USED"
    BY <2>2 DEF Failure, Success
  <2>4. servers = {} BY <1>1, <1>2
  <2>5. QED BY <2>3, <2>4
<1>3. CASE candidates # {}
  <2> DEFINE d == s[best]
             b == SelectBackend(d, p)
  <2>1. ResolvePolicy(s, p) = SelectCandidate(s, p)
    BY <1>3 DEF ResolvePolicy
  <2>2. \/ ResolvePolicy(s, p) = Failure("PROVIDER_DUPLICATE")
        \/ ResolvePolicy(s, p) = Success("none", d, b)
        \/ ResolvePolicy(s, p) = Success("PROVIDER_DETERMINISTIC_SELECTION", d, b)
    BY <2>1 DEF SelectCandidate
  <2>3. best \in candidates /\ \A i \in candidates : d.priority <= s[i].priority
    BY <1>3, BestCandidate
  <2>4. /\ IsDescriptor(d) /\ b # Null
    BY <1>1, <2>3 DEF CreateCandidates, IsList
  <2>5. b \in ServingBackends(d, p.capability)
    BY <2>4, SelectBackendServes
  <2>6. /\ CreateBackendSelection(b, d).name = b.name
        /\ CreateBackendSelection(b, d).kind = b.kind
    BY <2>4 DEF CreateBackendSelection
  <2>7. d \in servers /\ \A e \in servers : d.priority <= e.priority
    BY <1>1, <2>3
  <2> HIDE DEF d, b, servers
  <2>8. CASE ResolvePolicy(s, p) = Failure("PROVIDER_DUPLICATE")
    BY <2>8 DEF Failure
  <2>9. CASE \/ ResolvePolicy(s, p) = Success("none", d, b)
             \/ ResolvePolicy(s, p) = Success("PROVIDER_DETERMINISTIC_SELECTION", d, b)
    <3>1. /\ ResolvePolicy(s, p).code \notin {"PROVIDER_FALLBACK_USED", "PROVIDER_NOT_FOUND"}
          /\ ResolvePolicy(s, p).provider = d
          /\ ResolvePolicy(s, p).backend = CreateBackendSelection(b, d)
      <4>1. ASSUME NEW code, ResolvePolicy(s, p) = Success(code, d, b)
            PROVE  /\ ResolvePolicy(s, p).code = code
                   /\ ResolvePolicy(s, p).provider = d
                   /\ ResolvePolicy(s, p).backend = CreateBackendSelection(b, d)
        BY <4>1 DEF Success
      <4>2. CASE ResolvePolicy(s, p) = Success("none", d, b)
        BY <4>1, <4>2
      <4>3. CASE ResolvePolicy(s, p) = Success("PROVIDER_DETERMINISTIC_SELECTION", d, b)
        BY <4>1, <4>3
      <4>4. QED BY <2>9, <4>2, <4>3
    <3>2. QED BY <2>5, <2>6, <2>7, <3>1 DEF servers
  <2>10. QED BY <2>2, <2>8, <2>9 DEF servers
<1>4. QED BY <1>2, <1>3

\* A strict request is the same policy without its fallback.
LEMMA EffectivePolicy ==
  ASSUME NEW r \in Requests
  PROVE  \E p : /\ IsPolicy(p)
                /\ \A s : Resolve(s, r) = ResolvePolicy(s, p)
                /\ p.capability = r.policy.capability
                /\ \A d : CanServe(d, p) = CanServe(d, r.policy)
                /\ p.tags = r.policy.tags
                /\ p.fallback = IF r.mode = "Strict" THEN NoFallback ELSE r.policy.fallback
<1> DEFINE p == IF r.mode = "Strict" THEN [r.policy EXCEPT !.fallback = NoFallback]
                ELSE r.policy
<1>1. IsPolicy(r.policy)
  BY RegistryAssumption
<1>2. /\ DOMAIN p = DOMAIN r.policy
      /\ p.capability = r.policy.capability /\ p.preferred = r.policy.preferred
      /\ p.tags = r.policy.tags /\ p.hints = r.policy.hints
  BY <1>1 DEF IsPolicy
<1>3. \A s : Resolve(s, r) = ResolvePolicy(s, p)
  BY DEF Resolve
<1>7. p.fallback = IF r.mode = "Strict" THEN NoFallback ELSE r.policy.fallback
  BY <1>1 DEF IsPolicy
<1> HIDE DEF p
<1>4. IsPolicy(p)
  <2>1. CASE r.mode = "Strict"
    <3>1. p.fallback = NoFallback BY <1>1, <2>1 DEF p, IsPolicy
    <3>2. DOMAIN p.fallback.ids = 1..Len(p.fallback.ids) /\ Len(p.fallback.ids) \in Nat
      BY <3>1 DEF NoFallback
    <3>3. QED BY <1>1, <1>2, <3>2 DEF IsPolicy
  <2>2. CASE r.mode # "Strict"
    BY <1>1, <2>2 DEF p
  <2>3. QED BY <2>1, <2>2
<1>5. \A d : CanServe(d, p) = CanServe(d, r.policy)
  BY <1>2 DEF CanServe
<1>6. QED BY <1>2, <1>3, <1>4, <1>5, <1>7

\* Whether and with what a request is served is decided by what is registered
\* alone, for any number of manifests, backends and requests.
THEOREM ResolutionIsSoundAndCompleteCorrect == Spec => []ResolutionIsSoundAndComplete
<1>1. TypeOK => ResolutionIsSoundAndComplete
  <2>1. SUFFICES ASSUME TypeOK, NEW h \in Hosts, NEW r \in Requests,
                        r.policy.capability # Blank
                 PROVE  LET res == Resolve(providers[h], r)
                            servers == {d \in InRange(providers[h]) : CanServe(d, r.policy)}
                        IN  /\ res.succeeded /\ res.code # "PROVIDER_FALLBACK_USED" =>
                                 /\ res.provider \in servers
                                 /\ \A d \in servers : res.provider.priority <= d.priority
                                 /\ \E b \in ServingBackends(res.provider, r.policy.capability) :
                                      res.backend.name = b.name /\ res.backend.kind = b.kind
                            /\ res.code \in {"PROVIDER_FALLBACK_USED", "PROVIDER_NOT_FOUND"} =>
                                 servers = {}
    BY DEF ResolutionIsSoundAndComplete
  <2>2. PICK p : /\ IsPolicy(p)
                 /\ \A s : Resolve(s, r) = ResolvePolicy(s, p)
                 /\ p.capability = r.policy.capability
                 /\ \A d : CanServe(d, p) = CanServe(d, r.policy)
    BY EffectivePolicy
  <2>3. IsList(providers[h])
    BY <2>1, RegistryIsList
  <2>4. {d \in InRange(providers[h]) : CanServe(d, p)}
          = {d \in InRange(providers[h]) : CanServe(d, r.policy)}
    BY <2>2
  <2>5. QED BY <2>1, <2>2, <2>3, <2>4, ResolvePolicySoundAndComplete
<1>2. QED BY <1>1, TypeCorrect, PTL

\* Only one of a list: the provider that ResolveFallback returns has the
\* requested tags, is the smallest version of its identifier, and no
\* identifier listed before its own is registered.
LEMMA ResolveFallbackIsExplicit ==
  ASSUME NEW s, IsList(s), Sorted(s), NEW fallback,
         DOMAIN fallback.ids = 1..Len(fallback.ids), Len(fallback.ids) \in Nat,
         \A i \in DOMAIN s : s[i].providerId # Blank,
         NEW tags, ResolveFallback(fallback, s, tags) # Null
  PROVE  LET d == ResolveFallback(fallback, s, tags)
             tagged == {e \in InRange(s) : tags \subseteq e.tags}
             Of(id) == {e \in tagged : e.providerId = id}
         IN  /\ d \in tagged
             /\ \A e \in Of(d.providerId) : ~CompareProviders(d, e)
             /\ fallback.ids # <<>> => \E i \in DOMAIN fallback.ids :
                  /\ fallback.ids[i] = d.providerId
                  /\ \A j \in 1..(i - 1) : Of(fallback.ids[j]) = {}
<1> DEFINE d == ResolveFallback(fallback, s, tags)
           tagged == {e \in InRange(s) : tags \subseteq e.tags}
           Of(id) == {e \in tagged : e.providerId = id}
<1>1. \A i \in DOMAIN s : CompareKey(s[i]) \in [1..3 -> Int]
  <2>1. \A i \in DOMAIN s : {s[i].providerId, s[i].version, s[i].assembly} \subseteq Strings
    BY DEF IsList, IsDescriptor
  <2>2. QED BY <2>1, OrdinalAssumption DEF CompareKey
<1>2. ASSUME NEW i \in DOMAIN s, NEW j \in DOMAIN s, i <= j
      PROVE  ~CompareProviders(s[i], s[j])
  <2>1. i \in Nat /\ j \in Nat BY DEF IsList
  <2>2. CASE i < j BY <2>2 DEF Sorted
  <2>3. CASE i = j BY <1>1, <2>3, LexIrreflexive DEF CompareProviders
  <2>4. QED BY <1>2, <2>1, <2>2, <2>3
<1>3. \A id : Of(id) = {s[i] : i \in WithId(s, id, tags)} /\ WithId(s, id, tags) \in SUBSET Nat
  BY DEF InRange, WithId, HasTags, IsList
<1>4. CASE fallback.ids # <<>>
  <2> DEFINE found == {k \in DOMAIN fallback.ids :
                         /\ fallback.ids[k] # Blank
                         /\ WithId(s, fallback.ids[k], tags) # {}}
             k == Earliest(found)
             i == Earliest(WithId(s, fallback.ids[k], tags))
  <2>1. found # {} /\ d = s[i]
    BY <1>4 DEF ResolveFallback
  <2>2. found \in SUBSET Nat OBVIOUS
  <2> HIDE DEF found
  <2>3. k \in found /\ \A n \in found : k <= n
    BY <2>1, <2>2, EarliestIsEarliest
  <2>4. WithId(s, fallback.ids[k], tags) # {} /\ k \in DOMAIN fallback.ids
    BY <2>3 DEF found
  <2> HIDE DEF k
  <2>5. /\ i \in WithId(s, fallback.ids[k], tags)
        /\ \A n \in WithId(s, fallback.ids[k], tags) : i <= n
    BY <1>3, <2>4, EarliestIsEarliest
  <2> HIDE DEF i, d
  <2>6. /\ i \in DOMAIN s /\ d.providerId = fallback.ids[k] /\ d \in tagged
    BY <2>1, <2>5 DEF WithId, HasTags, InRange
  <2>7. \A e \in Of(d.providerId) : ~CompareProviders(d, e)
    <3>1. Of(d.providerId) = {s[j] : j \in WithId(s, fallback.ids[k], tags)}
      BY <1>3, <2>6
    <3>2. \A j \in WithId(s, fallback.ids[k], tags) : ~CompareProviders(s[i], s[j])
      BY <1>2, <2>5, <2>6 DEF WithId
    <3>3. QED BY <2>1, <3>1, <3>2
  <2>8. ASSUME NEW j \in 1..(k - 1) PROVE Of(fallback.ids[j]) = {}
    <3>1. j \in DOMAIN fallback.ids /\ j < k BY <2>2, <2>3, <2>4
    <3>2. j \notin found BY <2>2, <2>3, <3>1
    <3>3. fallback.ids[j] = Blank \/ WithId(s, fallback.ids[j], tags) = {}
      BY <3>1, <3>2 DEF found
    <3>4. WithId(s, Blank, tags) = {} BY DEF WithId
    <3>5. QED BY <1>3, <3>3, <3>4
  <2>9. k \in DOMAIN fallback.ids BY <2>4
  <2> HIDE DEF tagged, Of
  <2>10. QED
    BY <2>6, <2>7, <2>8, <2>9 DEF d, tagged, Of
<1>5. CASE fallback.ids = <<>>
  <2> DEFINE S   == {i \in DOMAIN s : HasTags(s[i], tags)}
             key == [i \in DOMAIN s |-> <<Ordinal[s[i].providerId]>>]
             first == FirstSorted(S, key)
  <2>1. S # {} /\ d = s[first]
    BY <1>5 DEF ResolveFallback
  <2>2. S \in SUBSET Nat /\ IsFiniteSet(S)
    <3>1. S \subseteq 1..Len(s) /\ Len(s) \in Nat BY DEF IsList
    <3>2. IsFiniteSet(1..Len(s)) BY <3>1, FS_Interval
    <3> HIDE DEF S
    <3>3. IsFiniteSet(S) BY <3>1, <3>2, FS_Subset
    <3>4. QED BY <3>1, <3>3
  <2>3. \A i \in DOMAIN s : key[i] \in [1..1 -> Int]
    BY OrdinalAssumption DEF IsList, IsDescriptor
  <2>4. S \subseteq DOMAIN s OBVIOUS
  <2>5. \A i \in DOMAIN s : key[i] = <<Ordinal[s[i].providerId]>> OBVIOUS
  <2> HIDE DEF key
  <2>6. first \in S /\ \A j \in S : ~Before(key, j, first)
    <3> HIDE DEF S
    <3>1. QED BY <2>1, <2>2, <2>3, <2>4, FirstSortedIsFirst
  <2> HIDE DEF first, d
  <2>7. first \in DOMAIN s /\ d \in tagged
    BY <2>1, <2>6 DEF HasTags, InRange
  <2>8. ASSUME NEW j \in S, s[j].providerId = d.providerId PROVE first <= j
    <3>1. key[j] = key[first] BY <2>1, <2>4, <2>5, <2>7, <2>8
    <3>2. ~(j < first) BY <2>6, <2>8, <3>1 DEF Before
    <3>3. QED BY <2>2, <2>6, <2>8, <3>2
  <2>9. \A e \in Of(d.providerId) : ~CompareProviders(d, e)
    <3>1. \A e \in Of(d.providerId) : \E j \in S : e = s[j] /\ s[j].providerId = d.providerId
      BY DEF HasTags, InRange
    <3>2. QED BY <1>2, <2>1, <2>4, <2>7, <2>8, <3>1
  <2>10. QED BY <1>5, <2>7, <2>9 DEF d
<1>6. QED BY <1>4, <1>5

\* Nobody is served by a fallback that was not asked for, and the one that
\* serves is decided by the list of the policy and by the smallest version.
THEOREM FallbackIsExplicitCorrect == Spec => []FallbackIsExplicit
<1>1. TypeOK => FallbackIsExplicit
  <2>1. SUFFICES ASSUME TypeOK, NEW h \in Hosts, NEW r \in Requests,
                        Resolve(providers[h], r).code = "PROVIDER_FALLBACK_USED"
                 PROVE  LET res == Resolve(providers[h], r)
                            ids == r.policy.fallback.ids
                            tagged == {d \in InRange(providers[h]) : r.policy.tags \subseteq d.tags}
                            Of(id) == {d \in tagged : d.providerId = id}
                        IN  /\ r.mode # "Strict" /\ r.policy.fallback.enabled
                            /\ res.provider \in tagged
                            /\ \A d \in Of(res.provider.providerId) : ~CompareProviders(res.provider, d)
                            /\ ids # <<>> => \E i \in DOMAIN ids :
                                 /\ ids[i] = res.provider.providerId
                                 /\ \A j \in 1..(i - 1) : Of(ids[j]) = {}
    BY DEF FallbackIsExplicit
  <2> DEFINE s == providers[h]
  <2>2. PICK p : /\ IsPolicy(p)
                 /\ Resolve(s, r) = ResolvePolicy(s, p)
                 /\ p.tags = r.policy.tags
                 /\ p.fallback = IF r.mode = "Strict" THEN NoFallback ELSE r.policy.fallback
    BY EffectivePolicy
  <2>3. IsList(s) /\ Sorted(s)
    BY <2>1, RegistryIsList DEF TypeOK
  <2> DEFINE f == ResolveFallback(p.fallback, s, p.tags)
  <2>4. ResolvePolicy(s, p).code = "PROVIDER_FALLBACK_USED"
    BY <2>1, <2>2
  <2> HIDE DEF s
  <2>5. ResolvePolicy(s, p) = FallbackOrNotFound(s, p)
    BY <2>4 DEF ResolvePolicy, SelectCandidate, Failure, Success
  <2>6. /\ p.fallback.enabled /\ f # Null
        /\ ResolvePolicy(s, p).provider = f
    BY <2>4, <2>5 DEF FallbackOrNotFound, Failure, Success
  <2>7. r.mode # "Strict" /\ p.fallback = r.policy.fallback
    BY <2>2, <2>6 DEF NoFallback
  <2>8. /\ DOMAIN p.fallback.ids = 1..Len(p.fallback.ids) /\ Len(p.fallback.ids) \in Nat
        /\ \A i \in DOMAIN s : s[i].providerId # Blank
    BY <2>1, <2>2 DEF IsPolicy, TypeOK, Validate, MissingFields, s
  <2>9. Resolve(s, r).provider = f
    BY <2>2, <2>6
  <2> DEFINE tagged == {d \in InRange(s) : p.tags \subseteq d.tags}
             Of(id) == {d \in tagged : d.providerId = id}
  <2>10. /\ f \in tagged
         /\ \A d \in Of(f.providerId) : ~CompareProviders(f, d)
         /\ p.fallback.ids # <<>> => \E i \in DOMAIN p.fallback.ids :
              /\ p.fallback.ids[i] = f.providerId
              /\ \A j \in 1..(i - 1) : Of(p.fallback.ids[j]) = {}
    <3> DEFINE fb == p.fallback
               tags == p.tags
    <3>1. /\ DOMAIN fb.ids = 1..Len(fb.ids) /\ Len(fb.ids) \in Nat
          /\ ResolveFallback(fb, s, tags) # Null
      BY <2>6, <2>8
    <3> HIDE DEF fb, tags
    <3>2. LET d == ResolveFallback(fb, s, tags)
              T == {e \in InRange(s) : tags \subseteq e.tags}
              ById(id) == {e \in T : e.providerId = id}
          IN  /\ d \in T
              /\ \A e \in ById(d.providerId) : ~CompareProviders(d, e)
              /\ fb.ids # <<>> => \E i \in DOMAIN fb.ids :
                   /\ fb.ids[i] = d.providerId
                   /\ \A j \in 1..(i - 1) : ById(fb.ids[j]) = {}
      BY <2>3, <2>8, <3>1, ResolveFallbackIsExplicit
    <3>3. QED BY <3>2 DEF fb, tags
  <2> HIDE DEF f
  <2>11. QED
    BY <2>2, <2>6, <2>7, <2>9, <2>10 DEF s
<1>2. QED BY <1>1, TypeCorrect, PTL

-----------------------------------------------------------------------------
(* The order of the router is total.                                       *)

\* Keys of which neither comes before the other are equal.
LEMMA LexTotal ==
  ASSUME NEW n \in Nat, NEW a \in [1..n -> Int], NEW b \in [1..n -> Int],
         ~LexLess(a, b), ~LexLess(b, a)
  PROVE  a = b
<1> DEFINE differ == {i \in 1..n : a[i] # b[i]}
<1>1. SUFFICES ASSUME differ # {} PROVE FALSE
  OBVIOUS
<1>2. differ \in SUBSET Nat
  OBVIOUS
<1>3. PICK i \in differ : \A j \in differ : i <= j
  <2> HIDE DEF differ
  <2> QED
    BY <1>1, <1>2, NatMinimum
<1>4. \A j \in 1..(i - 1) : a[j] = b[j]
  BY <1>3
<1>5. a[i] < b[i] \/ b[i] < a[i]
  BY <1>3
<1> QED
  BY <1>3, <1>4, <1>5 DEF LexLess

\* Two positions that nothing in S comes before are one.
LEMMA FirstIsUnique ==
  ASSUME NEW n \in Nat, NEW S \in SUBSET Nat, NEW key,
         \A i \in S : key[i] \in [1..n -> Int],
         NEW i \in S, \A j \in S : ~Before(key, j, i),
         NEW k \in S, \A j \in S : ~Before(key, j, k)
  PROVE  i = k
<1>1. i \in Nat /\ k \in Nat /\ ~Before(key, i, k) /\ ~Before(key, k, i)
  OBVIOUS
<1>2. key[i] = key[k]
  BY <1>1, LexTotal DEF Before
<1>3. ~(i < k) /\ ~(k < i)
  BY <1>1, <1>2 DEF Before
<1> QED
  BY <1>1, <1>3

\* The candidates of a list are positions with keys of ten integers.
LEMMA CandidatesHaveKeys ==
  ASSUME NEW s, IsList(s), NEW p, IsPolicy(p)
  PROVE  LET C == CreateCandidates(s, p)
             key == CandidateKeys(s, p)
         IN  /\ C \in SUBSET Nat /\ IsFiniteSet(C) /\ C \subseteq DOMAIN s
             /\ \A i \in C : /\ key[i] \in [1..10 -> Int]
                             /\ key[i] = SortKey(s[i], SelectBackend(s[i], p), p)
<1> DEFINE C == CreateCandidates(s, p)
           key == CandidateKeys(s, p)
<1>1. C \subseteq DOMAIN s /\ DOMAIN s = 1..Len(s) /\ Len(s) \in Nat
  BY DEF CreateCandidates, IsList
<1>2. C \in SUBSET Nat /\ IsFiniteSet(C)
  <2>1. IsFiniteSet(1..Len(s))
    BY <1>1, FS_Interval
  <2> HIDE DEF C
  <2>2. IsFiniteSet(C)
    BY <1>1, <2>1, FS_Subset
  <2> QED
    BY <1>1, <2>2
<1>3. ASSUME NEW i \in C
      PROVE  key[i] \in [1..10 -> Int] /\ key[i] = SortKey(s[i], SelectBackend(s[i], p), p)
  <2>1. key[i] = SortKey(s[i], SelectBackend(s[i], p), p)
    BY DEF CandidateKeys
  <2>2. IsDescriptor(s[i]) /\ SelectBackend(s[i], p) # Null
    BY DEF CreateCandidates, IsList
  <2>3. IsBackend(SelectBackend(s[i], p))
    BY <2>2, SelectBackendServes
  <2> QED
    BY <2>1, <2>2, <2>3, SortKeyIsKey
<1> QED
  BY <1>1, <1>2, <1>3

\* The best candidate is the one that nothing comes before.
LEMMA BestIsFirst ==
  ASSUME NEW s, IsList(s), NEW p, IsPolicy(p), CreateCandidates(s, p) # {}
  PROVE  LET C == CreateCandidates(s, p)
             key == CandidateKeys(s, p)
         IN  /\ FirstSorted(C, key) \in C
             /\ \A j \in C : ~Before(key, j, FirstSorted(C, key))
<1> DEFINE C == CreateCandidates(s, p)
           key == CandidateKeys(s, p)
<1>1. C \in SUBSET Nat /\ IsFiniteSet(C) /\ \A i \in C : key[i] \in [1..10 -> Int]
  BY CandidatesHaveKeys
<1> HIDE DEF C, key
<1>2. C # {} => FirstSorted(C, key) \in C /\ \A j \in C : ~Before(key, j, FirstSorted(C, key))
  BY <1>1, FirstSortedIsFirst
<1> QED
  BY <1>2 DEF C, key

-----------------------------------------------------------------------------
(* Lists with the same elements in another order.                          *)

\* t has at i what s has at p[i], and p is one to one.
Rearranged(s, t, p) ==
  /\ IsList(s) /\ IsList(t) /\ Len(t) = Len(s)
  /\ p \in [DOMAIN s -> DOMAIN s]
  /\ \A i, j \in DOMAIN s : p[i] = p[j] => i = j
  /\ \A j \in DOMAIN s : \E i \in DOMAIN s : p[i] = j
  /\ \A i \in DOMAIN s : t[i] = s[p[i]]

\* What Sort may leave in the place of a list is a rearrangement of it.
LEMMA SortRearranges ==
  ASSUME NEW s, IsList(s), NEW t \in Sort(s)
  PROVE  \E p : Rearranged(s, t, p)
<1> DEFINE n == Len(s)
<1>1. DOMAIN s = 1..n /\ n \in Nat
  BY DEF IsList
<1>2. PICK p \in [1..n -> 1..n] :
         /\ \A i, j \in 1..n : p[i] = p[j] => i = j
         /\ t = [i \in 1..n |-> s[p[i]]]
  BY DEF Sort
<1> HIDE DEF n
<1>3. \A i \in 1..n : p[i] \in 1..n
  BY <1>2
<1>4. \A j \in 1..n : \E i \in 1..n : p[i] = j
  <2>1. p \in Injection(1..n, 1..n)
    BY <1>2 DEF Injection, IsInjective
  <2>2. IsFiniteSet(1..n)
    BY <1>1, FS_Interval
  <2>3. p \in Surjection(1..n, 1..n)
    BY <2>1, <2>2, FS_Injection
  <2> QED
    BY <2>3 DEF Surjection
<1>5. DOMAIN t = 1..n /\ \A i \in 1..n : t[i] = s[p[i]]
  BY <1>2
<1>6. Len(t) = n
  <2> DEFINE S == {t[i] : i \in 1..n}
  <2>1. t = [i \in 1..n |-> t[i]]
    BY <1>2
  <2>2. t \in [1..n -> S]
    BY <2>1
  <2>3. t \in Seq(S)
    BY <1>1, <2>2, SeqDef
  <2> QED
    BY <1>1, <2>2, <2>3, LenProperties
<1>7. IsList(t)
  BY <1>1, <1>3, <1>5, <1>6 DEF IsList
<1> QED
  BY <1>1, <1>2, <1>3, <1>4, <1>5, <1>6, <1>7 DEF Rearranged, n

\* A rearrangement has the same elements and the candidates at their places.
LEMMA RearrangedElements ==
  ASSUME NEW s, NEW t, NEW q, Rearranged(s, t, q)
  PROVE  InRange(t) = InRange(s) /\ DOMAIN t = DOMAIN s
<1>1. DOMAIN t = DOMAIN s
  BY DEF Rearranged, IsList
<1>2. \A i \in DOMAIN s : q[i] \in DOMAIN s
  BY DEF Rearranged
<1>3. \A i \in DOMAIN s : t[i] = s[q[i]]
  BY DEF Rearranged
<1>4. \A j \in DOMAIN s : \E i \in DOMAIN s : q[i] = j
  BY DEF Rearranged
<1> QED
  BY <1>1, <1>2, <1>3, <1>4 DEF InRange

LEMMA RearrangedCandidates ==
  ASSUME NEW s, NEW t, NEW q, Rearranged(s, t, q), NEW p, IsPolicy(p)
  PROVE  LET C == CreateCandidates(s, p)
             D == CreateCandidates(t, p)
         IN  /\ \A i \in DOMAIN s : i \in D <=> q[i] \in C
             /\ \A i \in D : CandidateKeys(t, p)[i] = CandidateKeys(s, p)[q[i]]
<1>1. DOMAIN t = DOMAIN s /\ IsList(s) /\ IsList(t)
  BY DEF Rearranged, IsList
<1>2. \A i \in DOMAIN s : q[i] \in DOMAIN s /\ t[i] = s[q[i]]
  BY DEF Rearranged
<1>3. \A i \in DOMAIN s : i \in CreateCandidates(t, p) <=> q[i] \in CreateCandidates(s, p)
  BY <1>1, <1>2 DEF CreateCandidates
<1>4. ASSUME NEW i \in CreateCandidates(t, p)
      PROVE  CandidateKeys(t, p)[i] = CandidateKeys(s, p)[q[i]]
  <2>1. i \in DOMAIN s /\ q[i] \in CreateCandidates(s, p) /\ t[i] = s[q[i]]
    BY <1>1, <1>2, <1>3 DEF CreateCandidates
  <2>2. CandidateKeys(t, p)[i] = SortKey(t[i], SelectBackend(t[i], p), p)
    BY <1>1, CandidatesHaveKeys
  <2>3. CandidateKeys(s, p)[q[i]] = SortKey(s[q[i]], SelectBackend(s[q[i]], p), p)
    BY <1>1, <2>1, CandidatesHaveKeys
  <2> QED
    BY <2>1, <2>2, <2>3
<1> QED
  BY <1>3, <1>4

\* The best candidates of a rearrangement have the key of the best ones.
LEMMA RearrangedBest ==
  ASSUME NEW s, NEW t, NEW q, Rearranged(s, t, q), NEW p, IsPolicy(p),
         CreateCandidates(s, p) # {}
  PROVE  LET C == CreateCandidates(s, p)
             D == CreateCandidates(t, p)
             best == FirstSorted(C, CandidateKeys(s, p))
             first == FirstSorted(D, CandidateKeys(t, p))
         IN  /\ best \in C /\ first \in D /\ q[first] \in C
             /\ CandidateKeys(t, p)[first] = CandidateKeys(s, p)[best]
             /\ CandidateKeys(s, p)[q[first]] = CandidateKeys(s, p)[best]
<1> DEFINE C == CreateCandidates(s, p)
           D == CreateCandidates(t, p)
           keyC == CandidateKeys(s, p)
           keyD == CandidateKeys(t, p)
           best == FirstSorted(C, keyC)
           first == FirstSorted(D, keyD)
<1>1. IsList(s) /\ IsList(t)
  BY DEF Rearranged
<1>2. \A i \in DOMAIN s : i \in D <=> q[i] \in C
  BY RearrangedCandidates
<1>3. \A i \in D : keyD[i] = keyC[q[i]]
  BY RearrangedCandidates
<1>4. C \subseteq DOMAIN s /\ D \subseteq DOMAIN s
  BY <1>1, CandidatesHaveKeys, RearrangedElements
<1>5. \A i \in C : keyC[i] \in [1..10 -> Int]
  BY <1>1, CandidatesHaveKeys
<1>6. \A j \in DOMAIN s : \E i \in DOMAIN s : q[i] = j
  BY DEF Rearranged
<1>7. best \in C /\ \A j \in C : ~Before(keyC, j, best)
  BY <1>1, BestIsFirst
<1>8. PICK i \in DOMAIN s : q[i] = best
  BY <1>4, <1>6, <1>7
<1>9. i \in D
  BY <1>2, <1>7, <1>8
<1>10. first \in D /\ \A j \in D : ~Before(keyD, j, first)
  BY <1>1, <1>9, BestIsFirst
<1> HIDE DEF C, D, keyC, keyD, best, first
<1>11. q[first] \in C /\ keyD[first] = keyC[q[first]] /\ keyD[i] = keyC[best]
  BY <1>2, <1>3, <1>4, <1>8, <1>9, <1>10
<1>12. ~LexLess(keyC[best], keyC[q[first]]) /\ ~LexLess(keyC[q[first]], keyC[best])
  BY <1>7, <1>9, <1>10, <1>11 DEF Before
<1>13. keyC[q[first]] = keyC[best]
  BY <1>5, <1>7, <1>11, <1>12, LexTotal
<1> QED
  BY <1>7, <1>10, <1>11, <1>13 DEF C, D, keyC, keyD, best, first

\* The best candidate has a key of its own in both lists or in neither; if it
\* has, the two lists have the same candidate there, alone in both or not.
LEMMA RearrangedChoice ==
  ASSUME NEW s, NEW t, NEW q, Rearranged(s, t, q), NEW p, IsPolicy(p),
         CreateCandidates(s, p) # {}
  PROVE  SelectCandidate(t, p) = SelectCandidate(s, p)
<1> DEFINE C == CreateCandidates(s, p)
           D == CreateCandidates(t, p)
           keyC == CandidateKeys(s, p)
           keyD == CandidateKeys(t, p)
           best == FirstSorted(C, keyC)
           first == FirstSorted(D, keyD)
<1>1. /\ best \in C /\ first \in D /\ q[first] \in C
      /\ keyD[first] = keyC[best] /\ keyC[q[first]] = keyC[best]
  BY RearrangedBest
<1>2. \A i \in DOMAIN s : i \in D <=> q[i] \in C
  BY RearrangedCandidates
<1>3. \A i \in D : keyD[i] = keyC[q[i]]
  BY RearrangedCandidates
<1>4. C \subseteq DOMAIN s /\ D \subseteq DOMAIN s
  BY CandidatesHaveKeys, RearrangedElements DEF Rearranged
<1>5. /\ \A j \in DOMAIN s : \E i \in DOMAIN s : q[i] = j
      /\ \A i, j \in DOMAIN s : q[i] = q[j] => i = j
      /\ \A i \in DOMAIN s : t[i] = s[q[i]]
  BY DEF Rearranged
<1>6. SelectCandidate(s, p) =
        IF \E i \in C \ {best} : keyC[i] = keyC[best] THEN Failure("PROVIDER_DUPLICATE")
        ELSE Success(IF C = {best} THEN "none" ELSE "PROVIDER_DETERMINISTIC_SELECTION",
                     s[best], SelectBackend(s[best], p))
  BY DEF SelectCandidate
<1>7. SelectCandidate(t, p) =
        IF \E i \in D \ {first} : keyD[i] = keyD[first] THEN Failure("PROVIDER_DUPLICATE")
        ELSE Success(IF D = {first} THEN "none" ELSE "PROVIDER_DETERMINISTIC_SELECTION",
                     t[first], SelectBackend(t[first], p))
  BY DEF SelectCandidate
<1> HIDE DEF C, D, keyC, keyD, best, first
<1>8. CASE \E i \in C \ {best} : keyC[i] = keyC[best]
  <2>1. PICK i \in C, j \in C : i # j /\ keyC[i] = keyC[best] /\ keyC[j] = keyC[best]
    BY <1>1, <1>8
  <2>2. PICK k \in DOMAIN s, l \in DOMAIN s : q[k] = i /\ q[l] = j
    BY <1>4, <1>5, <2>1
  <2>3. k \in D /\ l \in D /\ k # l /\ keyD[k] = keyD[first] /\ keyD[l] = keyD[first]
    BY <1>1, <1>2, <1>3, <2>1, <2>2
  <2>4. \E m \in D \ {first} : keyD[m] = keyD[first]
    BY <2>3
  <2> QED
    BY <1>6, <1>7, <1>8, <2>4
<1>9. CASE ~\E i \in C \ {best} : keyC[i] = keyC[best]
  <2>1. q[first] = best
    BY <1>1, <1>9
  <2>2. ~\E i \in D \ {first} : keyD[i] = keyD[first]
    <3>1. SUFFICES ASSUME NEW i \in D, i # first, keyD[i] = keyD[first] PROVE FALSE
      OBVIOUS
    <3>2. q[i] \in C /\ keyC[q[i]] = keyC[best] /\ q[i] # best
      BY <1>1, <1>2, <1>3, <1>4, <1>5, <2>1, <3>1
    <3> QED
      BY <1>9, <3>2
  <2>3. C = {best} <=> D = {first}
    <3>1. ASSUME C = {best}, NEW i \in D PROVE i = first
      BY <1>1, <1>2, <1>4, <1>5, <2>1, <3>1
    <3>2. ASSUME D = {first}, NEW j \in C PROVE j = best
      <4>1. PICK i \in DOMAIN s : q[i] = j
        BY <1>4, <1>5
      <4> QED
        BY <1>2, <2>1, <3>2, <4>1
    <3> QED
      BY <1>1, <3>1, <3>2
  <2>4. t[first] = s[best]
    BY <1>1, <1>4, <1>5, <2>1
  <2> QED
    BY <1>6, <1>7, <1>9, <2>2, <2>3, <2>4
<1> QED
  BY <1>8, <1>9

-----------------------------------------------------------------------------
(* The fallback: which manifest it gives may depend on the order of the    *)
(* list, of which provider it is does not.                                 *)

\* The listed identifiers that one of the descriptors ds has, with the tags.
Held(ds, ids, tags) ==
  {k \in DOMAIN ids : ids[k] # Blank /\ \E d \in ds : d.providerId = ids[k] /\ tags \subseteq d.tags}

\* With a list of identifiers: the first one somebody with the tags has.
LEMMA FallbackByIdentifier ==
  ASSUME NEW s, IsList(s), NEW tags, NEW fallback, fallback.ids # <<>>,
         DOMAIN fallback.ids \in SUBSET Nat
  PROVE  LET found == Held(InRange(s), fallback.ids, tags)
             given == ResolveFallback(fallback, s, tags)
         IN  /\ given = Null <=> found = {}
             /\ found # {} => given.providerId = fallback.ids[Earliest(found)]
<1> DEFINE found == Held(InRange(s), fallback.ids, tags)
           places == {k \in DOMAIN fallback.ids :
                        /\ fallback.ids[k] # Blank
                        /\ WithId(s, fallback.ids[k], tags) # {}}
           At(k) == WithId(s, fallback.ids[k], tags)
           given == ResolveFallback(fallback, s, tags)
<1>1. places = found
  BY DEF WithId, HasTags, InRange, Held
<1>2. given = IF found = {} THEN Null ELSE s[Earliest(At(Earliest(found)))]
  BY <1>1 DEF ResolveFallback
<1>3. ASSUME found # {}
      PROVE  given # Null /\ given.providerId = fallback.ids[Earliest(found)]
  <2>1. found \in SUBSET Nat
    BY DEF Held
  <2>2. Earliest(found) \in found
    <3> HIDE DEF found
    <3> QED BY <1>3, <2>1, EarliestIsEarliest
  <2> DEFINE k == Earliest(found)
  <2>3. At(k) # {} /\ At(k) \in SUBSET Nat
    <3>1. k \in places
      BY <1>1, <2>2
    <3>2. At(k) # {}
      <4> HIDE DEF k
      <4> QED BY <3>1
    <3>3. At(k) \subseteq DOMAIN s /\ DOMAIN s \in SUBSET Nat
      BY DEF WithId, IsList
    <3> QED
      BY <3>2, <3>3
  <2> HIDE DEF k
  <2>4. Earliest(At(k)) \in At(k)
    <3> HIDE DEF At
    <3> QED BY <2>3, EarliestIsEarliest
  <2>5. Earliest(At(k)) \in DOMAIN s /\ s[Earliest(At(k))].providerId = fallback.ids[k]
    BY <2>4 DEF WithId
  <2>6. given = s[Earliest(At(k))]
    BY <1>2, <1>3 DEF k
  <2>7. s[Earliest(At(k))] # Null
    BY <2>5 DEF IsList, IsDescriptor
  <2> QED
    BY <2>5, <2>6, <2>7 DEF k
<1> QED
  BY <1>2, <1>3

\* Without one: somebody with the tags and the smallest identifier.
LEMMA FallbackByOrder ==
  ASSUME NEW s, IsList(s), NEW tags, NEW fallback, fallback.ids = <<>>
  PROVE  LET tagged == {d \in InRange(s) : tags \subseteq d.tags}
             given == ResolveFallback(fallback, s, tags)
         IN  /\ given = Null <=> tagged = {}
             /\ tagged # {} =>
                  /\ given \in tagged
                  /\ \A d \in tagged : Ordinal[given.providerId] <= Ordinal[d.providerId]
<1> DEFINE tagged == {d \in InRange(s) : tags \subseteq d.tags}
           at == {i \in DOMAIN s : HasTags(s[i], tags)}
           key == [i \in DOMAIN s |-> <<Ordinal[s[i].providerId]>>]
           first == FirstSorted(at, key)
           given == ResolveFallback(fallback, s, tags)
<1>1. tagged = {s[i] : i \in at} /\ at \subseteq DOMAIN s /\ (tagged = {} <=> at = {})
  BY DEF InRange, HasTags
<1>2. given = IF at = {} THEN Null ELSE s[first]
  BY DEF ResolveFallback
<1>3. \A i \in DOMAIN s : /\ Ordinal[s[i].providerId] \in Nat
                          /\ key[i] = <<Ordinal[s[i].providerId]>>
                          /\ key[i] \in [1..1 -> Int] /\ s[i] # Null
  BY OrdinalAssumption DEF IsList, IsDescriptor
<1>4. at \in SUBSET Nat /\ IsFiniteSet(at)
  <2>1. at \subseteq 1..Len(s) /\ Len(s) \in Nat
    BY DEF IsList
  <2>2. IsFiniteSet(1..Len(s))
    BY <2>1, FS_Interval
  <2> HIDE DEF at
  <2>3. IsFiniteSet(at)
    BY <2>1, <2>2, FS_Subset
  <2> QED
    BY <2>1, <2>3
<1> HIDE DEF at, key, first, given
<1>5. ASSUME at # {}
      PROVE  first \in at /\ \A i \in at : Ordinal[s[first].providerId] <= Ordinal[s[i].providerId]
  <2>1. first \in at /\ \A i \in at : ~Before(key, i, first)
    BY <1>1, <1>3, <1>4, <1>5, FirstSortedIsFirst DEF first
  <2>2. ASSUME NEW i \in at PROVE ~(Ordinal[s[i].providerId] < Ordinal[s[first].providerId])
    <3>1. key[i][1] = Ordinal[s[i].providerId] /\ key[first][1] = Ordinal[s[first].providerId]
          /\ 1 \in DOMAIN key[i]
      BY <1>1, <1>3, <2>1
    <3>2. ~LexLess(key[i], key[first])
      BY <2>1 DEF Before
    <3> QED
      BY <3>1, <3>2 DEF LexLess
  <2> QED
    BY <1>1, <1>3, <2>1, <2>2
<1> QED
  BY <1>1, <1>2, <1>3, <1>5 DEF given

\* Lists with the same elements fall back on the same provider, or on none.
LEMMA FallbackOfElements ==
  ASSUME NEW s, IsList(s), NEW t, IsList(t), InRange(t) = InRange(s), NEW tags,
         NEW fallback, DOMAIN fallback.ids \in SUBSET Nat
  PROVE  /\ ResolveFallback(fallback, t, tags) = Null <=> ResolveFallback(fallback, s, tags) = Null
         /\ ResolveFallback(fallback, s, tags) # Null =>
              ResolveFallback(fallback, t, tags).providerId
                = ResolveFallback(fallback, s, tags).providerId
<1> DEFINE f == ResolveFallback(fallback, s, tags)
           g == ResolveFallback(fallback, t, tags)
<1>1. CASE fallback.ids # <<>>
  <2> DEFINE found == Held(InRange(s), fallback.ids, tags)
  <2>1. /\ f = Null <=> found = {}
        /\ found # {} => f.providerId = fallback.ids[Earliest(found)]
    BY <1>1, FallbackByIdentifier
  <2>2. /\ g = Null <=> found = {}
        /\ found # {} => g.providerId = fallback.ids[Earliest(found)]
    BY <1>1, FallbackByIdentifier
  <2> QED
    BY <2>1, <2>2
<1>2. CASE fallback.ids = <<>>
  <2> DEFINE tagged == {d \in InRange(s) : tags \subseteq d.tags}
  <2>1. /\ f = Null <=> tagged = {}
        /\ tagged # {} => /\ f \in tagged
                          /\ \A d \in tagged : Ordinal[f.providerId] <= Ordinal[d.providerId]
    BY <1>2, FallbackByOrder
  <2>2. /\ g = Null <=> tagged = {}
        /\ tagged # {} => /\ g \in tagged
                          /\ \A d \in tagged : Ordinal[g.providerId] <= Ordinal[d.providerId]
    BY <1>2, FallbackByOrder
  <2>3. \A d \in tagged : d.providerId \in Strings /\ Ordinal[d.providerId] \in Nat
    BY OrdinalAssumption DEF InRange, IsList, IsDescriptor
  <2> HIDE DEF f, g, tagged
  <2>4. ASSUME tagged # {} PROVE g.providerId = f.providerId
    <3>1. Ordinal[g.providerId] = Ordinal[f.providerId]
      BY <2>1, <2>2, <2>3, <2>4
    <3> QED
      BY <2>1, <2>2, <2>3, <2>4, <3>1, OrdinalAssumption
  <2> QED
    BY <2>1, <2>2, <2>4 DEF f, g
<1> QED
  BY <1>1, <1>2

-----------------------------------------------------------------------------
(* The same manifests give the same answers.                               *)

\* What SameManifestsSameRoute asks of two answers.
SameAnswer(here, there) ==
  IF here.code = "PROVIDER_FALLBACK_USED"
  THEN there.code = here.code /\ there.provider.providerId = here.provider.providerId
  ELSE there = here

\* It is an equivalence.
LEMMA SameAnswerIsSymmetric ==
  ASSUME NEW a, NEW b, SameAnswer(a, b)
  PROVE  SameAnswer(b, a)
BY DEF SameAnswer

LEMMA SameAnswerIsTransitive ==
  ASSUME NEW a, NEW b, NEW c, SameAnswer(a, b), SameAnswer(b, c)
  PROVE  SameAnswer(a, c)
BY DEF SameAnswer

\* A list and a rearrangement of it answer the same.
LEMMA RearrangedAnswer ==
  ASSUME NEW s, NEW t, NEW q, Rearranged(s, t, q), NEW p, IsPolicy(p)
  PROVE  SameAnswer(ResolvePolicy(s, p), ResolvePolicy(t, p))
<1> DEFINE C == CreateCandidates(s, p)
           D == CreateCandidates(t, p)
           f == ResolveFallback(p.fallback, s, p.tags)
           g == ResolveFallback(p.fallback, t, p.tags)
<1>1. IsList(s) /\ IsList(t) /\ InRange(t) = InRange(s)
  BY RearrangedElements DEF Rearranged
<1>2. C = {} <=> D = {}
  <2>1. C = {} => D = {}
    BY RearrangedCandidates, RearrangedElements DEF CreateCandidates
  <2>2. C # {} => D # {}
    BY RearrangedBest
  <2> QED
    BY <2>1, <2>2
<1>3. CASE p.capability = Blank
  BY <1>3 DEF ResolvePolicy, SameAnswer
<1>4. CASE p.capability # Blank /\ C # {}
  BY <1>2, <1>4, RearrangedChoice DEF ResolvePolicy, SameAnswer
<1>5. CASE p.capability # Blank /\ C = {}
  <2>1. /\ ResolvePolicy(s, p) = FallbackOrNotFound(s, p)
        /\ ResolvePolicy(t, p) = FallbackOrNotFound(t, p)
    BY <1>2, <1>5 DEF ResolvePolicy
  <2>2. DOMAIN p.fallback.ids \in SUBSET Nat
    BY DEF IsPolicy
  <2>3. (g = Null <=> f = Null) /\ (f # Null => g.providerId = f.providerId)
    BY <1>1, <2>2, FallbackOfElements
  <2>4. /\ FallbackOrNotFound(s, p) =
             IF p.fallback.enabled /\ f # Null
             THEN Success("PROVIDER_FALLBACK_USED", f, SelectBackend(f, p))
             ELSE Failure("PROVIDER_NOT_FOUND")
        /\ FallbackOrNotFound(t, p) =
             IF p.fallback.enabled /\ g # Null
             THEN Success("PROVIDER_FALLBACK_USED", g, SelectBackend(g, p))
             ELSE Failure("PROVIDER_NOT_FOUND")
    BY DEF FallbackOrNotFound
  <2> HIDE DEF f, g
  <2> QED
    BY <2>1, <2>3, <2>4 DEF SameAnswer, Success, Failure
<1> QED
  BY <1>3, <1>4, <1>5

\* SameManifestsSameRoute holds of every registry of descriptors.
LEMMA SameManifestsSameRouteOfLists ==
  ASSUME TypeOK
  PROVE  SameManifestsSameRoute
<1>1. SUFFICES ASSUME NEW h \in Hosts, NEW r \in Requests,
                      NEW t \in Sort(providers[h]), NEW u \in Sort(providers[h])
               PROVE  SameAnswer(Resolve(t, r), Resolve(u, r))
  BY DEF SameManifestsSameRoute, SameAnswer
<1> DEFINE s == providers[h]
<1>2. IsList(s)
  BY RegistryIsList
<1> HIDE DEF s
<1>3. PICK p : IsPolicy(p) /\ \A v : Resolve(v, r) = ResolvePolicy(v, p)
  BY EffectivePolicy
<1>4. PICK q : Rearranged(s, t, q)
  BY <1>1, <1>2, SortRearranges DEF s
<1>5. PICK w : Rearranged(s, u, w)
  BY <1>1, <1>2, SortRearranges DEF s
<1>6. SameAnswer(ResolvePolicy(s, p), ResolvePolicy(t, p))
  BY <1>3, <1>4, RearrangedAnswer
<1>7. SameAnswer(ResolvePolicy(s, p), ResolvePolicy(u, p))
  BY <1>3, <1>5, RearrangedAnswer
<1>8. SameAnswer(ResolvePolicy(t, p), ResolvePolicy(u, p))
  BY <1>6, <1>7, SameAnswerIsSymmetric, SameAnswerIsTransitive
<1> QED
  BY <1>3, <1>8

-----------------------------------------------------------------------------
(* The availability probe.                                                 *)

\* Of two positions one comes before the other.
LEMMA BeforeIsTotal ==
  ASSUME NEW n \in Nat, NEW S \in SUBSET Nat, NEW key,
         \A i \in S : key[i] \in [1..n -> Int],
         NEW i \in S, NEW k \in S, i # k
  PROVE  Before(key, i, k) \/ Before(key, k, i)
<1>1. SUFFICES ASSUME ~Before(key, i, k), ~Before(key, k, i) PROVE FALSE
  OBVIOUS
<1>2. key[i] = key[k]
  BY <1>1, LexTotal DEF Before
<1> QED
  BY <1>1, <1>2 DEF Before

\* A stable sort starts with the first, and if another position has the key of
\* the first, it goes on with one that has.
LEMMA StableSortStartsWithFirst ==
  ASSUME NEW n \in Nat, NEW S \in SUBSET Nat, IsFiniteSet(S), NEW key,
         \A i \in S : key[i] \in [1..n -> Int]
  PROVE  LET first == FirstSorted(S, key)
             sorted == StableSort(S, key)
         IN  /\ sorted = <<>> <=> S = {}
             /\ S # {} => sorted[1] = first
             /\ \A i \in S \ {first} : key[i] = key[first] => key[sorted[2]] = key[first]
<1> DEFINE first == FirstSorted(S, key)
           sorted == StableSort(S, key)
           Pred(i) == {j \in S : Before(key, j, i)}
           size == Cardinality(S)
           At(k) == CHOOSE i \in S : Cardinality(Pred(i)) = k - 1
<1>1. size \in Nat /\ (size = 0 <=> S = {}) /\ (\A x : S # {x} \/ size = 1)
      /\ (size = 1 => \E x : S = {x})
  BY FS_CardinalityType, FS_EmptySet, FS_Singleton
<1>2. DOMAIN sorted = 1..size /\ \A k \in 1..size : sorted[k] = At(k)
  BY DEF StableSort
<1>3. \A i \in S : /\ IsFiniteSet(Pred(i)) /\ Cardinality(Pred(i)) \in Nat
                   /\ Cardinality(Pred(i)) = 0 <=> Pred(i) = {}
  <2>1. \A i \in S : Pred(i) \subseteq S
    OBVIOUS
  <2> HIDE DEF Pred
  <2> QED
    BY <2>1, FS_Subset, FS_CardinalityType, FS_EmptySet
<1>4. S = {} => sorted = <<>>
  BY <1>1 DEF StableSort
<1> HIDE DEF size
<1>5. ASSUME S # {}
      PROVE  /\ sorted # <<>> /\ sorted[1] = first
             /\ first \in S /\ \A j \in S : ~Before(key, j, first)
  <2>1. first \in S /\ \A j \in S : ~Before(key, j, first)
    BY <1>5, FirstSortedIsFirst
  <2>2. 1 \in 1..size
    <3>1. size # 0
      BY <1>1, <1>5
    <3>2. size \in Nat
      BY <1>1
    <3> QED
      BY <3>1, <3>2
  <2> HIDE DEF first, sorted, At
  <2>3. sorted # <<>>
    <3>1. 1 \in DOMAIN sorted
      BY <1>2, <2>2
    <3>2. 1 \notin DOMAIN <<>>
      OBVIOUS
    <3> QED
      BY <3>1, <3>2
  <2> USE DEF At
  <2>4. sorted[1] = CHOOSE i \in S : Cardinality(Pred(i)) = 1 - 1
    BY <1>2, <2>2
  <2>5. Cardinality(Pred(first)) = 1 - 1
    <3>1. Pred(first) = {}
      BY <2>1
    <3>2. Cardinality(Pred(first)) = 0
      BY <3>1, FS_EmptySet
    <3> HIDE DEF Pred
    <3> QED
      BY <3>2
  <2>6. sorted[1] \in S /\ Cardinality(Pred(sorted[1])) = 0
    <3> HIDE DEF Pred
    <3> QED BY <2>1, <2>4, <2>5
  <2>7. \A j \in S : ~Before(key, j, sorted[1])
    BY <1>3, <2>6
  <2>8. sorted[1] = first
    BY <2>1, <2>6, <2>7, FirstIsUnique
  <2> QED
    BY <2>1, <2>3, <2>8
<1>6. ASSUME NEW i \in S \ {first}, key[i] = key[first]
      PROVE  key[sorted[2]] = key[first]
  <2> DEFINE rest == S \ {first}
             second == FirstSorted(rest, key)
  <2>1. first \in S /\ \A j \in S : ~Before(key, j, first)
    BY <1>5, <1>6
  <2>2. rest \in SUBSET Nat /\ IsFiniteSet(rest) /\ rest # {}
    BY <1>6, FS_RemoveElement
  <2>3. \A j \in rest : key[j] \in [1..n -> Int]
    OBVIOUS
  <2> HIDE DEF first, rest
  <2>4. second \in rest /\ \A j \in rest : ~Before(key, j, second)
    BY <2>2, <2>3, FirstSortedIsFirst
  <2> USE DEF rest
  <2> HIDE DEF second
  <2>5. ASSUME NEW x \in rest PROVE first \in Pred(x)
    BY <2>1, <2>5, BeforeIsTotal
  <2>6. Pred(second) = {first}
    BY <2>1, <2>4, <2>5
  <2>7. Cardinality(Pred(second)) = 1
    BY <2>6, FS_Singleton
  <2>8. 2 \in 1..size
    <3>1. size # 1 /\ size # 0
      BY <1>1, <2>1, <2>4
    <3> QED
      BY <1>1, <3>1
  <2>9. sorted[2] \in S /\ Cardinality(Pred(sorted[2])) = 1
    <3> HIDE DEF sorted, Pred, At
    <3>1. sorted[2] = At(2)
      BY <1>2, <2>8
    <3>2. At(2) = CHOOSE k \in S : Cardinality(Pred(k)) = 2 - 1
      BY DEF At
    <3>3. 2 - 1 = 1
      OBVIOUS
    <3> QED
      BY <2>4, <2>7, <3>1, <3>2, <3>3
  <2> DEFINE x == sorted[2]
  <2>10. x # first
    <3>1. Cardinality(Pred(first)) = 0
      BY <1>3, <2>1
    <3> HIDE DEF sorted, Pred
    <3> QED BY <2>9, <3>1
  <2> HIDE DEF sorted
  <2>11. Pred(x) = {first}
    <3>1. first \in Pred(x)
      BY <2>5, <2>9, <2>10
    <3>2. PICK y : Pred(x) = {y}
      <4>1. IsFiniteSet(Pred(x))
        BY <1>3, <2>9
      <4> HIDE DEF Pred
      <4> QED BY <2>9, <4>1, FS_Singleton
    <3> QED
      BY <3>1, <3>2
  <2>12. CASE i = x
    BY <1>6, <2>12
  <2>13. CASE i # x
    <3>1. i \in S /\ i \notin Pred(x)
      BY <1>6, <2>11
    <3>2. Before(key, x, i)
      BY <2>9, <2>13, <3>1, BeforeIsTotal
    <3>3. ~LexLess(key[x], key[first])
      BY <2>1, <2>9 DEF Before
    <3> QED
      BY <1>6, <3>2, <3>3 DEF Before
  <2> QED
    BY <2>12, <2>13
<1> QED
  BY <1>4, <1>5, <1>6

\* The candidates and their choice do not read the fallback of a policy.
AgreeButFallback(p, q) ==
  /\ p.capability = q.capability /\ p.preferred = q.preferred
  /\ p.tags = q.tags /\ p.hints = q.hints

LEMMA SamePolicySameBackend ==
  ASSUME NEW p, NEW q, AgreeButFallback(p, q), NEW d
  PROVE  SelectBackend(d, p) = SelectBackend(d, q)
<1> DEFINE all == BackendDescriptorsOrImplicit(d)
           Matching(c) == {i \in DOMAIN all : HasBackendCapability(all[i], c)}
           Key(hints) == [i \in DOMAIN all |-> BackendOrder(all[i], hints)]
           Chosen(c, hints) == IF Matching(c) = {} THEN Null
                               ELSE all[FirstSorted(Matching(c), Key(hints))]
<1>1. SelectBackend(d, p) = Chosen(p.capability, p.hints)
  BY DEF SelectBackend
<1>2. SelectBackend(d, q) = Chosen(q.capability, q.hints)
  BY DEF SelectBackend
<1> HIDE DEF Chosen
<1> QED
  BY <1>1, <1>2 DEF AgreeButFallback

LEMMA SamePolicySameCandidates ==
  ASSUME NEW p, NEW q, AgreeButFallback(p, q), NEW s
  PROVE  /\ CreateCandidates(s, p) = CreateCandidates(s, q)
         /\ CandidateKeys(s, p) = CandidateKeys(s, q)
         /\ SelectCandidate(s, p) = SelectCandidate(s, q)
<1>1. \A d : SelectBackend(d, p) = SelectBackend(d, q)
  BY SamePolicySameBackend
<1>2. CreateCandidates(s, p) = CreateCandidates(s, q)
  BY <1>1 DEF CreateCandidates, AgreeButFallback
<1>3. \A d, b : SortKey(d, b, p) = SortKey(d, b, q)
  BY DEF SortKey, AgreeButFallback
<1>4. CandidateKeys(s, p) = CandidateKeys(s, q)
  <2> DEFINE C == CreateCandidates(s, p)
             F(i) == SortKey(s[i], SelectBackend(s[i], p), p)
             G(i) == SortKey(s[i], SelectBackend(s[i], q), q)
  <2>1. CandidateKeys(s, p) = [i \in C |-> F(i)]
    BY DEF CandidateKeys
  <2>2. CandidateKeys(s, q) = [i \in C |-> G(i)]
    BY <1>2 DEF CandidateKeys
  <2>3. \A i \in C : F(i) = G(i)
    BY <1>1, <1>3
  <2> HIDE DEF C, F, G
  <2> QED
    BY <2>1, <2>2, <2>3
<1>5. SelectCandidate(s, p) = SelectCandidate(s, q)
  <2> DEFINE C == CreateCandidates(s, p)
             key == CandidateKeys(s, p)
             best == FirstSorted(C, key)
             Answer(b) == IF \E i \in C \ {best} : key[i] = key[best]
                          THEN Failure("PROVIDER_DUPLICATE")
                          ELSE Success(IF C = {best} THEN "none" ELSE "PROVIDER_DETERMINISTIC_SELECTION",
                                       s[best], b)
  <2>1. SelectCandidate(s, p) = Answer(SelectBackend(s[best], p))
    BY DEF SelectCandidate
  <2>2. SelectCandidate(s, q) = Answer(SelectBackend(s[best], q))
    BY <1>2, <1>4 DEF SelectCandidate
  <2> HIDE DEF Answer
  <2> QED
    BY <1>1, <2>1, <2>2
<1> QED
  BY <1>2, <1>4, <1>5

\* What Resolve does of a request whose capability is not blank.
LEMMA ResolveOfRequest ==
  ASSUME NEW r \in Requests, r.policy.capability # Blank, NEW s
  PROVE  /\ CreateCandidates(s, r.policy) # {} =>
              Resolve(s, r) = SelectCandidate(s, r.policy)
         /\ CreateCandidates(s, r.policy) = {} =>
              Resolve(s, r).code \in {"PROVIDER_FALLBACK_USED", "PROVIDER_NOT_FOUND"}
<1> DEFINE p == IF r.mode = "Strict" THEN [r.policy EXCEPT !.fallback = NoFallback]
                ELSE r.policy
<1>1. IsPolicy(r.policy)
  BY RegistryAssumption
<1>2. AgreeButFallback(p, r.policy)
  BY <1>1 DEF IsPolicy, AgreeButFallback
<1>3. Resolve(s, r) = ResolvePolicy(s, p)
  BY DEF Resolve
<1> HIDE DEF p
<1>4. /\ CreateCandidates(s, p) = CreateCandidates(s, r.policy)
      /\ SelectCandidate(s, p) = SelectCandidate(s, r.policy)
      /\ p.capability # Blank
  BY <1>2, SamePolicySameCandidates DEF AgreeButFallback
<1>5. FallbackOrNotFound(s, p).code \in {"PROVIDER_FALLBACK_USED", "PROVIDER_NOT_FOUND"}
  BY DEF FallbackOrNotFound, Success, Failure
<1> QED
  BY <1>3, <1>4, <1>5 DEF ResolvePolicy

\* ProbeOrderAgreesWithResolve holds of every registry of descriptors.
LEMMA ProbeOrderAgreesOfLists ==
  ASSUME TypeOK
  PROVE  ProbeOrderAgreesWithResolve
<1>1. SUFFICES ASSUME NEW h \in Hosts, NEW r \in Requests, r.policy.capability # Blank
               PROVE  LET res == Resolve(providers[h], r)
                          probe == GetAvailabilityProbeOrder(providers[h], r.policy)
                          key == CandidateKeys(providers[h], r.policy)
                      IN  /\ res.code \in {"PROVIDER_FALLBACK_USED", "PROVIDER_NOT_FOUND"}
                                <=> probe = <<>>
                          /\ res.code \in {"none", "PROVIDER_DETERMINISTIC_SELECTION"} =>
                               res.provider = providers[h][probe[1]]
                          /\ res.code = "PROVIDER_DUPLICATE" => key[probe[1]] = key[probe[2]]
  BY DEF ProbeOrderAgreesWithResolve
<1> DEFINE s == providers[h]
           C == CreateCandidates(s, r.policy)
           key == CandidateKeys(s, r.policy)
           probe == GetAvailabilityProbeOrder(s, r.policy)
           best == FirstSorted(C, key)
           res == Resolve(s, r)
<1>2. IsList(s) /\ IsPolicy(r.policy)
  BY RegistryIsList, RegistryAssumption
<1> HIDE DEF s
<1>3. C \in SUBSET Nat /\ IsFiniteSet(C) /\ \A i \in C : key[i] \in [1..10 -> Int]
  BY <1>2, CandidatesHaveKeys
<1>4. probe = StableSort(C, key)
  BY DEF GetAvailabilityProbeOrder
<1>5. /\ C # {} => res = SelectCandidate(s, r.policy)
      /\ C = {} => res.code \in {"PROVIDER_FALLBACK_USED", "PROVIDER_NOT_FOUND"}
  BY <1>1, ResolveOfRequest
<1>6. SelectCandidate(s, r.policy) =
        IF \E i \in C \ {best} : key[i] = key[best] THEN Failure("PROVIDER_DUPLICATE")
        ELSE Success(IF C = {best} THEN "none" ELSE "PROVIDER_DETERMINISTIC_SELECTION",
                     s[best], SelectBackend(s[best], r.policy))
  BY DEF SelectCandidate
<1> HIDE DEF C, key, probe, res
<1>7. /\ probe = <<>> <=> C = {}
      /\ C # {} => probe[1] = best
      /\ \A i \in C \ {best} : key[i] = key[best] => key[probe[2]] = key[best]
  BY <1>3, <1>4, StableSortStartsWithFirst
<1> HIDE DEF best
<1>8. res.code \in {"PROVIDER_FALLBACK_USED", "PROVIDER_NOT_FOUND"} <=> C = {}
  BY <1>5, <1>6 DEF Success, Failure
<1>9. res.code \in {"none", "PROVIDER_DETERMINISTIC_SELECTION"} => C # {} /\ res.provider = s[best]
  BY <1>5, <1>6 DEF Success, Failure
<1>10. res.code = "PROVIDER_DUPLICATE" => C # {} /\ \E i \in C \ {best} : key[i] = key[best]
  BY <1>5, <1>6 DEF Success, Failure
<1>11. /\ res.code \in {"PROVIDER_FALLBACK_USED", "PROVIDER_NOT_FOUND"} <=> probe = <<>>
       /\ res.code \in {"none", "PROVIDER_DETERMINISTIC_SELECTION"} => res.provider = s[probe[1]]
       /\ res.code = "PROVIDER_DUPLICATE" => key[probe[1]] = key[probe[2]]
  BY <1>7, <1>8, <1>9, <1>10
<1> QED
  BY <1>11 DEF s, C, key, probe, res

-----------------------------------------------------------------------------
\* In every reachable state every request has one answer, whatever the order
\* in which the manifests were registered and however the unstable sort left
\* equal ones, and the probe order begins with it (ProviderRegistry.Register,
\* ProviderRouter.Resolve, ProviderRouter.GetAvailabilityProbeOrder).
THEOREM RoutesAreDeterminedCorrect == Spec => []RoutesAreDetermined
<1>1. TypeOK => RoutesAreDetermined
  BY SameManifestsSameRouteOfLists, ProbeOrderAgreesOfLists DEF RoutesAreDetermined
<1> QED
  BY <1>1, TypeCorrect, PTL

-----------------------------------------------------------------------------
(* A registration.                                                         *)

\* u is s with d behind it.
Appended(s, u, d) ==
  /\ IsList(s) /\ IsList(u) /\ Len(u) = Len(s) + 1
  /\ \A i \in DOMAIN s : u[i] = s[i]
  /\ u[Len(s) + 1] = d

\* A rearrangement has every provider as often.
LEMMA RearrangedMultiplicity ==
  ASSUME NEW s, NEW t, NEW q, Rearranged(s, t, q), NEW d
  PROVE  Cardinality({i \in DOMAIN t : t[i] = d}) = Cardinality({i \in DOMAIN s : s[i] = d})
<1> DEFINE A == {i \in DOMAIN t : t[i] = d}
           B == {i \in DOMAIN s : s[i] = d}
           f == [i \in A |-> q[i]]
<1>1. /\ DOMAIN t = DOMAIN s
      /\ \A i \in DOMAIN s : q[i] \in DOMAIN s /\ t[i] = s[q[i]]
      /\ \A i, j \in DOMAIN s : q[i] = q[j] => i = j
      /\ \A j \in DOMAIN s : \E i \in DOMAIN s : q[i] = j
  BY RearrangedElements DEF Rearranged
<1>2. f \in [A -> B]
  BY <1>1
<1>3. \A i, j \in A : f[i] = f[j] => i = j
  BY <1>1
<1>4. ASSUME NEW j \in B PROVE \E i \in A : f[i] = j
  <2>1. PICK i \in DOMAIN s : q[i] = j
    BY <1>1
  <2>2. i \in A /\ f[i] = j
    BY <1>1, <2>1
  <2> QED
    BY <2>2
<1>5. IsFiniteSet(B)
  <2>1. B \subseteq 1..Len(s) /\ Len(s) \in Nat
    BY DEF Rearranged, IsList
  <2>2. IsFiniteSet(1..Len(s))
    BY <2>1, FS_Interval
  <2> HIDE DEF B
  <2> QED
    BY <2>1, <2>2, FS_Subset
<1> HIDE DEF A, B, f
<1>6. f \in Injection(A, B) /\ f \in Surjection(A, B)
  BY <1>2, <1>3, <1>4 DEF Injection, IsInjective, Surjection
<1>7. Cardinality(A) = Cardinality(B)
  BY <1>5, <1>6, FS_Injection
<1> QED
  BY <1>7 DEF A, B

\* What is registered is there once more than before.
LEMMA AppendedIsNew ==
  ASSUME NEW s, NEW u, NEW d, Appended(s, u, d), NEW t, NEW q, Rearranged(u, t, q)
  PROVE  /\ d \in InRange(t)
         /\ d \notin InRange(s) \/ Multiplicity(t)[d] > Multiplicity(s)[d]
         /\ InRange(s) \subseteq InRange(t)
<1> DEFINE A == {i \in DOMAIN s : s[i] = d}
           B == {i \in DOMAIN u : u[i] = d}
           n == Len(s)
<1>1. /\ n \in Nat /\ DOMAIN s = 1..n /\ DOMAIN u = 1..(n + 1)
      /\ \A i \in 1..n : u[i] = s[i]
      /\ u[n + 1] = d
  BY DEF Appended, IsList
<1> HIDE DEF n
<1>2. InRange(t) = InRange(u) /\ d \in InRange(u) /\ InRange(s) \subseteq InRange(u)
  <2>1. InRange(t) = InRange(u)
    BY RearrangedElements
  <2>2. d \in InRange(u) /\ InRange(s) \subseteq InRange(u)
    BY <1>1 DEF InRange
  <2> QED
    BY <2>1, <2>2
<1>3. B = A \cup {n + 1} /\ n + 1 \notin A
  BY <1>1
<1>4. IsFiniteSet(A)
  <2>1. A \subseteq 1..n /\ IsFiniteSet(1..n)
    BY <1>1, FS_Interval
  <2> HIDE DEF A
  <2> QED
    BY <2>1, FS_Subset
<1> HIDE DEF A, B
<1>5. Cardinality(B) = Cardinality(A) + 1 /\ Cardinality(A) \in Nat
  BY <1>3, <1>4, FS_AddElement, FS_CardinalityType
<1>6. Cardinality({i \in DOMAIN t : t[i] = d}) = Cardinality(B)
  BY RearrangedMultiplicity DEF B
<1>7. Multiplicity(t)[d] = Cardinality(B)
  BY <1>2, <1>6 DEF Multiplicity
<1>8. d \in InRange(s) => Multiplicity(s)[d] = Cardinality(A)
  BY DEF Multiplicity, A
<1> QED
  BY <1>2, <1>5, <1>7, <1>8

\* The candidates of the longer list are those of the shorter one, with their
\* keys, and the new provider if it can serve the request.
LEMMA AppendedCandidates ==
  ASSUME NEW s, NEW u, NEW d, Appended(s, u, d), NEW p, IsPolicy(p)
  PROVE  LET C == CreateCandidates(s, p)
             E == CreateCandidates(u, p)
         IN  /\ E = C \cup (IF CanServe(d, p) THEN {Len(s) + 1} ELSE {})
             /\ C \subseteq DOMAIN s
             /\ \A i \in C : /\ CandidateKeys(u, p)[i] = CandidateKeys(s, p)[i]
                             /\ u[i] = s[i]
<1> DEFINE C == CreateCandidates(s, p)
           E == CreateCandidates(u, p)
<1>1. IsList(s) /\ IsList(u) /\ DOMAIN u = DOMAIN s \cup {Len(s) + 1}
  BY DEF Appended, IsList
<1>2. C = {i \in DOMAIN s : CanServe(s[i], p)} /\ E = {i \in DOMAIN u : CanServe(u[i], p)}
  BY <1>1, CandidatesCanServe
<1>3. \A i \in DOMAIN s : u[i] = s[i]
  BY DEF Appended
<1>4. u[Len(s) + 1] = d
  BY DEF Appended
<1>5. E = C \cup (IF CanServe(d, p) THEN {Len(s) + 1} ELSE {})
  BY <1>1, <1>2, <1>3, <1>4
<1>6. ASSUME NEW i \in C PROVE CandidateKeys(u, p)[i] = CandidateKeys(s, p)[i] /\ u[i] = s[i]
  <2>1. i \in E /\ u[i] = s[i]
    BY <1>2, <1>3, <1>5
  <2>2. CandidateKeys(s, p)[i] = SortKey(s[i], SelectBackend(s[i], p), p)
    BY <1>1, CandidatesHaveKeys
  <2>3. CandidateKeys(u, p)[i] = SortKey(u[i], SelectBackend(u[i], p), p)
    BY <1>1, <2>1, CandidatesHaveKeys
  <2> QED
    BY <2>1, <2>2, <2>3
<1> QED
  BY <1>2, <1>5, <1>6

\* A provider that cannot serve the request does not change the choice.
LEMMA AppendedBystander ==
  ASSUME NEW s, NEW u, NEW d, Appended(s, u, d), NEW p, IsPolicy(p), ~CanServe(d, p),
         CreateCandidates(s, p) # {}
  PROVE  SelectCandidate(u, p) = SelectCandidate(s, p)
<1> DEFINE C == CreateCandidates(s, p)
           key == CandidateKeys(s, p)
           best == FirstSorted(C, key)
           Chosen(x, b) == IF \E i \in C \ {best} : key[i] = key[best]
                           THEN Failure("PROVIDER_DUPLICATE")
                           ELSE Success(IF C = {best} THEN "none" ELSE "PROVIDER_DETERMINISTIC_SELECTION",
                                        x, b)
<1>1. /\ CreateCandidates(u, p) = C
      /\ \A i \in C : CandidateKeys(u, p)[i] = key[i] /\ u[i] = s[i]
  BY AppendedCandidates
<1>2. CandidateKeys(u, p) = key
  <2>1. /\ CandidateKeys(u, p) = [i \in C |-> CandidateKeys(u, p)[i]]
        /\ key = [i \in C |-> key[i]]
    BY <1>1 DEF CandidateKeys
  <2> HIDE DEF C, key
  <2> QED
    BY <1>1, <2>1
<1>3. best \in C /\ u[best] = s[best]
  BY <1>1, BestIsFirst DEF Appended
<1>4. SelectCandidate(s, p) = Chosen(s[best], SelectBackend(s[best], p))
  BY DEF SelectCandidate
<1>5. SelectCandidate(u, p) = Chosen(u[best], SelectBackend(u[best], p))
  BY <1>1, <1>2 DEF SelectCandidate
<1> QED
  BY <1>3, <1>4, <1>5

\* A choice that succeeds after the registration is the new provider or the
\* one that would have been chosen before.
LEMMA AppendedChoice ==
  ASSUME NEW s, NEW u, NEW d, Appended(s, u, d), NEW p, IsPolicy(p),
         CreateCandidates(s, p) # {},
         SelectCandidate(s, p).succeeded, SelectCandidate(u, p).succeeded
  PROVE  SelectCandidate(u, p).provider \in {d, SelectCandidate(s, p).provider}
<1> DEFINE C == CreateCandidates(s, p)
           E == CreateCandidates(u, p)
           keyC == CandidateKeys(s, p)
           keyE == CandidateKeys(u, p)
           best == FirstSorted(C, keyC)
           first == FirstSorted(E, keyE)
<1>1. IsList(s) /\ IsList(u) /\ u[Len(s) + 1] = d
  BY DEF Appended
<1>2. /\ E = C \cup (IF CanServe(d, p) THEN {Len(s) + 1} ELSE {})
      /\ \A i \in C : keyE[i] = keyC[i] /\ u[i] = s[i]
  BY AppendedCandidates
<1>3. C \in SUBSET Nat /\ \A i \in C : keyC[i] \in [1..10 -> Int]
  BY <1>1, CandidatesHaveKeys
<1>4. best \in C /\ \A j \in C : ~Before(keyC, j, best)
  BY <1>1, BestIsFirst
<1>5. first \in E /\ \A j \in E : ~Before(keyE, j, first)
  BY <1>1, <1>2, BestIsFirst
<1>6. SelectCandidate(s, p).provider = s[best] /\ SelectCandidate(u, p).provider = u[first]
  BY DEF SelectCandidate, Success, Failure
<1> HIDE DEF C, E, keyC, keyE, best, first
<1>7. CASE first \in C
  <2>1. \A j \in C : ~Before(keyC, j, first)
    BY <1>2, <1>5, <1>7 DEF Before
  <2>2. first = best
    BY <1>3, <1>4, <1>7, <2>1, FirstIsUnique
  <2> QED
    BY <1>2, <1>6, <1>7, <2>2
<1>8. CASE first \notin C
  BY <1>1, <1>2, <1>5, <1>6, <1>8
<1> QED
  BY <1>7, <1>8

\* A fallback that was there stays there.
LEMMA FallbackRemains ==
  ASSUME NEW s, IsList(s), NEW t, IsList(t), InRange(s) \subseteq InRange(t), NEW tags,
         NEW fallback, DOMAIN fallback.ids \in SUBSET Nat,
         ResolveFallback(fallback, s, tags) # Null
  PROVE  ResolveFallback(fallback, t, tags) # Null
<1>1. CASE fallback.ids # <<>>
  <2>1. Held(InRange(s), fallback.ids, tags) # {}
    BY <1>1, FallbackByIdentifier
  <2>2. Held(InRange(s), fallback.ids, tags) \subseteq Held(InRange(t), fallback.ids, tags)
    BY DEF Held
  <2> QED
    BY <1>1, <2>1, <2>2, FallbackByIdentifier
<1>2. CASE fallback.ids = <<>>
  BY <1>2, FallbackByOrder
<1> QED
  BY <1>1, <1>2

\* What RegistrationNeverDegrades asks, for one list and one policy.
LEMMA RegistrationOfLists ==
  ASSUME NEW s, NEW u, NEW d, Appended(s, u, d), NEW t, NEW q, Rearranged(u, t, q),
         NEW p, IsPolicy(p)
  PROVE  LET before == ResolvePolicy(s, p)
             after == ResolvePolicy(t, p)
         IN  /\ before.succeeded /\ ~after.succeeded =>
                  after.code = "PROVIDER_DUPLICATE" /\ CanServe(d, p)
             /\ before.succeeded /\ before.code # "PROVIDER_FALLBACK_USED" /\ after.succeeded =>
                  after.provider \in {d, before.provider}
<1> DEFINE C == CreateCandidates(s, p)
           E == CreateCandidates(u, p)
           D == CreateCandidates(t, p)
           before == ResolvePolicy(s, p)
           after == ResolvePolicy(t, p)
           f == ResolveFallback(p.fallback, s, p.tags)
           g == ResolveFallback(p.fallback, t, p.tags)
<1>1. IsList(s) /\ IsList(u) /\ IsList(t)
  BY DEF Appended, Rearranged
<1>2. SUFFICES ASSUME before.succeeded
               PROVE  /\ ~after.succeeded => after.code = "PROVIDER_DUPLICATE" /\ CanServe(d, p)
                      /\ before.code # "PROVIDER_FALLBACK_USED" /\ after.succeeded =>
                           after.provider \in {d, before.provider}
  OBVIOUS
<1>3. p.capability # Blank
  BY <1>2 DEF ResolvePolicy, Failure
<1>4. E = C \cup (IF CanServe(d, p) THEN {Len(s) + 1} ELSE {})
  BY AppendedCandidates
<1>5. E = {} <=> D = {}
  <2>1. E = {} => D = {}
    BY RearrangedCandidates, RearrangedElements DEF CreateCandidates
  <2>2. E # {} => D # {}
    BY RearrangedBest
  <2> QED
    BY <2>1, <2>2
<1>6. E # {} => after = SelectCandidate(u, p)
  BY <1>3, <1>5, RearrangedChoice DEF ResolvePolicy
<1>7. ~SelectCandidate(u, p).succeeded => SelectCandidate(u, p).code = "PROVIDER_DUPLICATE"
  BY DEF SelectCandidate, Success, Failure
<1>8. CASE C # {}
  <2>1. before = SelectCandidate(s, p) /\ E # {}
    BY <1>3, <1>4, <1>8 DEF ResolvePolicy
  <2>2. ~CanServe(d, p) => after = before
    BY <1>6, <1>8, <2>1, AppendedBystander
  <2>3. after.succeeded => after.provider \in {d, before.provider}
    BY <1>2, <1>6, <1>8, <2>1, AppendedChoice
  <2> QED
    BY <1>2, <1>6, <1>7, <2>1, <2>2, <2>3
<1>9. CASE C = {} /\ CanServe(d, p)
  <2>1. E # {}
    BY <1>4, <1>9
  <2>2. before.code = "PROVIDER_FALLBACK_USED"
    BY <1>2, <1>3, <1>9 DEF ResolvePolicy, FallbackOrNotFound, Success, Failure
  <2> QED
    BY <1>6, <1>7, <1>9, <2>1, <2>2
<1>10. CASE C = {} /\ ~CanServe(d, p)
  <2>1. D = {}
    BY <1>4, <1>5, <1>10
  <2>2. /\ before = FallbackOrNotFound(s, p)
        /\ after = FallbackOrNotFound(t, p)
    BY <1>3, <1>10, <2>1 DEF ResolvePolicy
  <2>3. p.fallback.enabled /\ f # Null /\ before.code = "PROVIDER_FALLBACK_USED"
    BY <1>2, <2>2 DEF FallbackOrNotFound, Success, Failure
  <2>4. InRange(s) \subseteq InRange(t)
    BY AppendedIsNew
  <2>5. DOMAIN p.fallback.ids \in SUBSET Nat
    BY DEF IsPolicy
  <2>6. g # Null
    BY <1>1, <2>3, <2>4, <2>5, FallbackRemains
  <2>7. after.succeeded
    BY <2>2, <2>3, <2>6 DEF FallbackOrNotFound, Success
  <2> QED
    BY <2>3, <2>7
<1> QED
  BY <1>8, <1>9, <1>10

\* In every step a registration takes no answer away and gives none to a
\* provider that was there already (ProviderRegistry.Register,
\* ProviderRouter.Resolve).
THEOREM RegistrationNeverDegradesCorrect == Spec => RegistrationNeverDegrades
<1> DEFINE New(h) == {d \in InRange(providers'[h]) :
                        d \notin InRange(providers[h])
                        \/ Multiplicity(providers'[h])[d] > Multiplicity(providers[h])[d]}
           Favours(h, r, before, after) ==
             /\ before.succeeded /\ ~after.succeeded =>
                  /\ after.code = "PROVIDER_DUPLICATE"
                  /\ \E d \in New(h) : CanServe(d, r.policy)
             /\ before.succeeded /\ before.code # "PROVIDER_FALLBACK_USED" /\ after.succeeded =>
                  after.provider \in New(h) \cup {before.provider}
           Step == \A h \in Hosts, r \in Requests : providers[h] # providers'[h] =>
                     \E before \in {Resolve(providers[h], r)}, after \in {Resolve(providers'[h], r)} :
                       Favours(h, r, before, after)
<1>1. TypeOK /\ [Next]_vars => [Step]_vars
  <2>1. SUFFICES ASSUME TypeOK, Next, NEW h \in Hosts, NEW r \in Requests,
                        providers[h] # providers'[h]
                 PROVE  Favours(h, r, Resolve(providers[h], r), Resolve(providers'[h], r))
    BY DEF vars
  <2>2. PICK g \in Hosts, d \in Manifests : Register(g, d)
    BY <2>1 DEF Next
  <2> DEFINE s == providers[h]
             u == Append(s, d)
             t == providers'[h]
  <2>3. Validate(d, DefaultOptions) /\ g = h /\ t \in Sort(u)
    BY <2>1, <2>2 DEF Register, TypeOK
  <2>4. IsList(s) /\ s \in Seq(Manifests)
    BY <2>1, RegistryIsList DEF TypeOK
  <2>5. IsDescriptor(d)
    BY <2>3, RegistryAssumption DEF Validate, MissingFields
  <2> HIDE DEF s
  <2>6. Appended(s, u, d)
    <3>1. /\ DOMAIN u = 1..Len(u) /\ Len(u) = Len(s) + 1 /\ u[Len(s) + 1] = d
          /\ \A i \in 1..Len(s) : u[i] = s[i]
      BY <2>4, AppendProperties
    <3>2. \A i \in DOMAIN u : IsDescriptor(u[i])
      BY <2>4, <2>5, <3>1 DEF IsList
    <3> HIDE DEF u
    <3> QED
      BY <2>4, <3>1, <3>2 DEF Appended, IsList
  <2> HIDE DEF t, u
  <2>7. PICK q : Rearranged(u, t, q)
    BY <2>3, <2>6, SortRearranges DEF Appended
  <2>8. PICK p : /\ IsPolicy(p)
                 /\ \A v : Resolve(v, r) = ResolvePolicy(v, p)
                 /\ CanServe(d, p) = CanServe(d, r.policy)
    BY EffectivePolicy
  <2>9. d \in New(h)
    BY <2>6, <2>7, AppendedIsNew DEF s, t
  <2>10. /\ Resolve(s, r).succeeded /\ ~Resolve(t, r).succeeded =>
              Resolve(t, r).code = "PROVIDER_DUPLICATE" /\ CanServe(d, r.policy)
         /\ Resolve(s, r).succeeded /\ Resolve(s, r).code # "PROVIDER_FALLBACK_USED"
              /\ Resolve(t, r).succeeded =>
              Resolve(t, r).provider \in {d, Resolve(s, r).provider}
    BY <2>6, <2>7, <2>8, RegistrationOfLists
  <2> HIDE DEF New
  <2> QED
    BY <2>9, <2>10 DEF s, t
<1>2. [][Step]_vars => RegistrationNeverDegrades
  <2>1. Step => \A h \in Hosts, r \in Requests : providers[h] # providers'[h] =>
       LET new == {d \in InRange(providers'[h]) :
                     d \notin InRange(providers[h])
                     \/ Multiplicity(providers'[h])[d] > Multiplicity(providers[h])[d]}
       IN  \E before \in {Resolve(providers[h], r)}, after \in {Resolve(providers'[h], r)} :
           /\ before.succeeded /\ ~after.succeeded =>
                /\ after.code = "PROVIDER_DUPLICATE"
                /\ \E d \in new : CanServe(d, r.policy)
           /\ before.succeeded /\ before.code # "PROVIDER_FALLBACK_USED" /\ after.succeeded =>
                after.provider \in new \cup {before.provider}
    OBVIOUS
  <2> HIDE DEF Step
  <2> QED
    BY <2>1, PTL DEF RegistrationNeverDegrades
<1> HIDE DEF Step
<1> QED
  BY <1>1, <1>2, TypeCorrect, PTL DEF Spec
=============================================================================
