------------------------ MODULE ManifestCatalogProofs ------------------------
(***************************************************************************)
(* Proofs about ManifestCatalog: what a load of a catalog accounts for,    *)
(* and that loads of the same files agree, for any number of loads, files  *)
(* and edits.                                                              *)
(*                                                                         *)
(* Everything a load has collected is a function of what it read: its list *)
(* has one entry for each path whose content was accepted, its diagnostics *)
(* are those of the single contents (LoadInv).  Two loads that read the    *)
(* same and whose identifiers are distinct have lists that are sorted by a *)
(* strict order and have the same elements, and are therefore one list.    *)
(***************************************************************************)
EXTENDS ManifestCatalog, FiniteSetTheorems, SequenceTheorems, WellFoundedInduction, TLAPS

-----------------------------------------------------------------------------
(* What a load makes of what it read: path -> content.                     *)

LoadOf(content, path) ==
  CASE content.kind = "refused" -> Thrown(path)
    [] content.kind \in {"missing", "denied"} ->
         LoadFailure("PROVIDER_MANIFEST_FILE_READ_FAILED", path)
    [] OTHER -> LoadJson(content, path)

Entry(read, path) == [read[path].descriptor EXCEPT !.source = path]

Accepted(read, opts) ==
  {p \in DOMAIN read : read[p].kind = "manifest" /\ Validate(Entry(read, p), opts)}

Entries(read, opts) == {Entry(read, p) : p \in Accepted(read, opts)}

\* The diagnostics of the contents, without those that a finished load adds.
Notes(read, opts) ==
  UNION {Report(LoadOf(read[p], p), opts) : p \in {q \in DOMAIN read : read[q].kind \notin Uncaught}}

Duplicates(list) == FindDuplicateProviderIds(list) \cup FindDuplicateCapabilities(list)

-----------------------------------------------------------------------------
(* The inductive invariant.                                                *)

\* What was read are contents of paths.
IsRead(read) == \A p \in DOMAIN read : p \in Paths /\ read[p] \in Contents

\* The list has every accepted path once, in the order of the registry.
ListInv(list, read, opts) ==
  /\ list \in Seq(Entries(read, opts))
  /\ \A p \in Accepted(read, opts) : \E i \in DOMAIN list : list[i].source = p
  /\ \A i, j \in DOMAIN list : list[i].source = list[j].source => i = j
  /\ Registry!Sorted(list)

\* Every path of the queue is left once.
QueueInv(queue, wanted) ==
  /\ wanted \in SUBSET Paths /\ queue \in Seq(Paths) /\ ToSet(queue) \subseteq wanted
  /\ \A i, j \in DOMAIN queue : queue[i] = queue[j] => i = j

\* A load has read what is not left, and has collected what that amounts to.
ReadInv(l) ==
  /\ IsRead(seen[l]) /\ DOMAIN seen[l] = requested[l] \ ToSet(todo[l])
  /\ ListInv(providers[l], seen[l], options[l])
  /\ pc[l] = "faulted" <=> \E p \in DOMAIN seen[l] : seen[l][p].kind \in Uncaught
  /\ \A p, q \in DOMAIN seen[l] : {seen[l][p].kind, seen[l][q].kind} \subseteq Uncaught => p = q
  /\ pc[l] # "done" => diagnostics[l] = Notes(seen[l], options[l])
  /\ pc[l] = "done" =>
       /\ todo[l] = <<>>
       /\ diagnostics[l] = Notes(seen[l], options[l]) \cup Duplicates(providers[l])
       /\ result[l] = [succeeded |-> \A d \in diagnostics[l] : d.severity # "Error",
                       providers |-> providers[l]]

LoadInv(l) ==
  /\ QueueInv(todo[l], requested[l])
  /\ pc[l] = "idle" => requested[l] = {}
  /\ ReadInv(l)

\* Without an edit, the files still hold what was read.
Fresh == edits = 0 => \A l \in Loads : \A p \in DOMAIN seen[l] : seen[l][p] = disk[p]

Shapes ==
  /\ disk \in [Paths -> Contents] /\ edits \in 0..MaxEdits
  /\ pc \in [Loads -> {"idle", "loading", "done", "cancelled", "faulted"}]
  /\ options \in [Loads -> OptionSets \cup {DefaultOptions}]
  /\ todo = [l \in Loads |-> todo[l]] /\ diagnostics = [l \in Loads |-> diagnostics[l]]
  /\ providers = [l \in Loads |-> providers[l]] /\ result = [l \in Loads |-> result[l]]
  /\ requested = [l \in Loads |-> requested[l]] /\ seen = [l \in Loads |-> seen[l]]

IInv == Shapes /\ Fresh /\ \A l \in Loads : LoadInv(l)

-----------------------------------------------------------------------------
(* The order of the paths.                                                 *)

\* Sequences of a set are functions on an initial segment of the naturals.
LEMMA SequenceFacts ==
  ASSUME NEW S, NEW s \in Seq(S)
  PROVE  Len(s) \in Nat /\ DOMAIN s = 1..Len(s) /\ \A i \in DOMAIN s : s[i] \in S
OBVIOUS

\* The paths in ordinal order are the paths of the set, each once.
LEMMA InOrdinalOrderFacts ==
  ASSUME NEW paths \in SUBSET Paths
  PROVE  /\ InOrdinalOrder(paths) \in Seq(paths) /\ ToSet(InOrdinalOrder(paths)) = paths
         /\ \A i, j \in DOMAIN InOrdinalOrder(paths) :
              InOrdinalOrder(paths)[i] = InOrdinalOrder(paths)[j] => i = j
<1> DEFINE size == Cardinality(paths)
           before(p) == {q \in paths : Ordinal[q] < Ordinal[p]}
           rank(p) == Cardinality(before(p))
           Place == [p \in paths |-> rank(p)]
           order == InOrdinalOrder(paths)
<1>1. IsFiniteSet(paths) /\ size \in Nat
  BY CatalogAssumption, FS_Subset, FS_CardinalityType
<1>2. \A p \in paths : Ordinal[p] \in Nat
  BY CatalogAssumption, OrdinalAssumption
<1>3. ASSUME NEW p \in paths
      PROVE  IsFiniteSet(before(p)) /\ rank(p) \in Nat /\ rank(p) < size
  <2>1. before(p) \in SUBSET paths /\ p \notin before(p)
    BY <1>2
  <2>2. IsFiniteSet(before(p)) /\ rank(p) \in Nat /\ rank(p) <= size
    BY <1>1, <2>1, FS_Subset, FS_CardinalityType
  <2>3. rank(p) = size => before(p) = paths
    BY <1>1, <2>1, FS_Subset
  <2>4. QED
    BY <1>1, <2>1, <2>2, <2>3
<1>4. ASSUME NEW p \in paths, NEW q \in paths, Ordinal[p] < Ordinal[q]
      PROVE  rank(p) < rank(q)
  <2>1. before(p) \in SUBSET before(q)
    BY <1>2, <1>4
  <2>2. p \in before(q) /\ p \notin before(p)
    BY <1>2, <1>4
  <2>3. rank(p) <= rank(q) /\ (rank(p) = rank(q) => before(p) = before(q))
    BY <1>3, <2>1, FS_Subset
  <2>4. QED
    BY <1>3, <2>2, <2>3
<1>5. \A p \in paths : rank(p) \in Nat /\ rank(p) < size
  BY <1>3
<1>6. \A p, q \in paths : rank(p) = rank(q) => p = q
  <2> SUFFICES ASSUME NEW p \in paths, NEW q \in paths, rank(p) = rank(q), p # q PROVE FALSE
    OBVIOUS
  <2>1. Ordinal[p] # Ordinal[q]
    BY CatalogAssumption, OrdinalAssumption
  <2>2. Ordinal[p] < Ordinal[q] \/ Ordinal[q] < Ordinal[p]
    BY <1>2, <2>1
  <2>3. rank(p) < rank(q) \/ rank(q) < rank(p)
    BY <1>4, <2>2
  <2>4. QED
    BY <1>3, <2>3
<1>7. \A n \in 1..size : \E p \in paths : rank(p) = n - 1
  <2> HIDE DEF before, rank, size
  <2>1. Place \in Injection(paths, 0..(size - 1))
    BY <1>1, <1>5, <1>6 DEF Injection, IsInjective
  <2>2. IsFiniteSet(0..(size - 1)) /\ Cardinality(0..(size - 1)) = size
    BY <1>1, FS_Interval
  <2>3. Cardinality(paths) = Cardinality(0..(size - 1))
    BY <2>2 DEF size
  <2>4. Place \in Surjection(paths, 0..(size - 1))
    BY <2>1, <2>2, <2>3, FS_Injection
  <2>5. \A m \in 0..(size - 1) : \E p \in paths : Place[p] = m
    BY <2>4 DEF Surjection
  <2>6. QED
    BY <1>1, <2>5
<1>8. order = [n \in 1..size |-> CHOOSE p \in paths : rank(p) = n - 1]
  BY DEF InOrdinalOrder
<1> HIDE DEF before, rank, size, order
<1>9. \A n \in 1..size : order[n] \in paths /\ rank(order[n]) = n - 1
  <2> TAKE n \in 1..size
  <2>1. order[n] = CHOOSE p \in paths : rank(p) = n - 1
    BY <1>8
  <2>2. QED
    BY <1>7, <2>1
<1>10. order \in Seq(paths) /\ DOMAIN order = 1..size
  BY <1>1, <1>8, <1>9
<1>11. \A p \in paths : \E n \in DOMAIN order : order[n] = p
  <2> TAKE p \in paths
  <2>1. rank(p) + 1 \in 1..size
    BY <1>1, <1>5
  <2>2. rank(order[rank(p) + 1]) = rank(p) /\ order[rank(p) + 1] \in paths
    BY <1>5, <1>9, <2>1
  <2>3. QED
    BY <1>6, <1>10, <2>1, <2>2
<1>12. ToSet(order) = paths
  BY <1>9, <1>10, <1>11 DEF ToSet
<1>13. \A i, j \in DOMAIN order : order[i] = order[j] => i = j
  BY <1>1, <1>9, <1>10
<1>14. QED
  BY <1>10, <1>12, <1>13 DEF order

\* Taking the head off a queue leaves the other paths, each once.
LEMMA TailFacts ==
  ASSUME NEW queue \in Seq(Paths), queue # <<>>,
         \A i, j \in DOMAIN queue : queue[i] = queue[j] => i = j
  PROVE  /\ Tail(queue) \in Seq(Paths) /\ Head(queue) \in ToSet(queue)
         /\ ToSet(Tail(queue)) = ToSet(queue) \ {Head(queue)}
         /\ \A i, j \in DOMAIN Tail(queue) : Tail(queue)[i] = Tail(queue)[j] => i = j
<1> DEFINE rest == Tail(queue)
<1>1. Len(queue) \in Nat \ {0} /\ DOMAIN queue = 1..Len(queue) /\ Head(queue) = queue[1]
  OBVIOUS
<1>2. /\ rest \in Seq(Paths) /\ DOMAIN rest = 1..(Len(queue) - 1)
      /\ \A i \in DOMAIN rest : rest[i] = queue[i + 1]
  BY <1>1
<1> HIDE DEF rest
<1>3. Head(queue) \in ToSet(queue)
  BY <1>1 DEF ToSet
<1>4. \A i, j \in DOMAIN rest : rest[i] = rest[j] => i = j
  BY <1>1, <1>2
<1>5. ASSUME NEW p \in ToSet(rest) PROVE p \in ToSet(queue) \ {Head(queue)}
  <2>1. PICK i \in DOMAIN rest : p = rest[i]
    BY <1>5 DEF ToSet
  <2>2. i + 1 \in DOMAIN queue /\ p = queue[i + 1] /\ i + 1 # 1
    BY <1>1, <1>2, <2>1
  <2>3. QED
    BY <1>1, <2>2 DEF ToSet
<1>6. ASSUME NEW p \in ToSet(queue) \ {Head(queue)} PROVE p \in ToSet(rest)
  <2>1. PICK i \in DOMAIN queue : p = queue[i]
    BY <1>6 DEF ToSet
  <2>2. i - 1 \in DOMAIN rest /\ rest[i - 1] = p
    BY <1>1, <1>2, <1>6, <2>1
  <2>3. QED
    BY <2>2 DEF ToSet
<1>7. QED
  BY <1>2, <1>3, <1>4, <1>5, <1>6 DEF rest

-----------------------------------------------------------------------------
(* The sort of the registry.                                               *)

\* t has at i what s has at p[i], and p is one to one.
Rearranges(p, s, t) ==
  /\ DOMAIN t = DOMAIN s
  /\ \A i \in DOMAIN s : p[i] \in DOMAIN s /\ t[i] = s[p[i]]
  /\ \A i, j \in DOMAIN s : p[i] = p[j] => i = j
  /\ \A j \in DOMAIN s : \E i \in DOMAIN s : p[i] = j

\* Registry!Sort moves the elements of a list about.
LEMMA SortRearranges ==
  ASSUME NEW S, NEW s \in Seq(S), NEW t \in Registry!Sort(s)
  PROVE  t \in Seq(S) /\ Registry!Sorted(t) /\ \E p : Rearranges(p, s, t)
<1> DEFINE n == Len(s)
<1>1. DOMAIN s = 1..n /\ n \in Nat /\ \A i \in 1..n : s[i] \in S
  OBVIOUS
<1>2. PICK p \in [1..n -> 1..n] :
         /\ \A i, j \in 1..n : p[i] = p[j] => i = j
         /\ t = [i \in 1..n |-> s[p[i]]]
  BY DEF Registry!Sort
<1>3. Registry!Sorted(t)
  BY DEF Registry!Sort
<1> HIDE DEF n
<1>4. \A j \in 1..n : \E i \in 1..n : p[i] = j
  <2>1. p \in Injection(1..n, 1..n)
    BY <1>2 DEF Injection, IsInjective
  <2>2. IsFiniteSet(1..n)
    BY <1>1, FS_Interval
  <2>3. p \in Surjection(1..n, 1..n)
    BY <2>1, <2>2, FS_Injection
  <2>4. QED
    BY <2>3 DEF Surjection
<1>5. DOMAIN t = 1..n /\ \A i \in 1..n : p[i] \in 1..n /\ t[i] = s[p[i]]
  BY <1>2
<1>6. t \in Seq(S)
  <2>1. t \in [1..n -> S]
    BY <1>1, <1>2, <1>5
  <2>2. QED
    BY <1>1, <2>1, SeqDef
<1>7. \A i, j \in 1..n : p[i] = p[j] => i = j
  BY <1>2
<1>8. Rearranges(p, s, t)
  BY <1>1, <1>4, <1>5, <1>7 DEF Rearranges
<1>9. QED
  BY <1>3, <1>6, <1>8

-----------------------------------------------------------------------------
(* The loader and the validation.                                          *)

\* An entry is the descriptor of the file, with the file as its source.
LEMMA EntryFacts ==
  ASSUME NEW read, NEW path \in DOMAIN read, IsRead(read), read[path].kind = "manifest"
  PROVE  /\ Entry(read, path) # Null /\ Entry(read, path).source = path
         /\ Entry(read, path).providerId = read[path].descriptor.providerId
         /\ IsDescriptor(Entry(read, path))
<1> DEFINE d == read[path].descriptor
           e == Entry(read, path)
<1>1. IsDescriptor(d) /\ DOMAIN d = DescriptorFields /\ path \in Strings
  BY CatalogAssumption DEF IsRead, NoManifestKinds, Diagnosed, Uncaught
<1>2. e = [d EXCEPT !.source = path]
  BY DEF Entry
<1> HIDE DEF d, e
<1>3. /\ e.source = path /\ e.providerId = d.providerId /\ e.version = d.version
      /\ e.assembly = d.assembly /\ e.priority = d.priority
      /\ e.capabilities = d.capabilities /\ e.tags = d.tags /\ e.metadata = d.metadata
      /\ e.backendMetadata = d.backendMetadata /\ e.vendorMetadata = d.vendorMetadata
      /\ e.backends = d.backends /\ DOMAIN e = DescriptorFields
  BY <1>1, <1>2 DEF DescriptorFields
<1>4. DOMAIN Null = {"absent"} /\ "source" \in DOMAIN e /\ "source" \notin {"absent"}
  BY <1>3 DEF Null, DescriptorFields
<1>5. e # Null
  BY <1>4
<1>6. IsDescriptor(e)
  BY <1>1, <1>3, <1>5 DEF IsDescriptor
<1>7. QED
  BY <1>3, <1>5, <1>6 DEF e, d

\* A failure has one diagnostic, an error of the path.
LEMMA FailureFacts ==
  \A code, path :
    /\ LoadFailure(code, path).throws = FALSE /\ LoadFailure(code, path).succeeded = FALSE
    /\ LoadFailure(code, path).diagnostics = {Error(code, path)}
BY DEF LoadFailure

\* The parts of an error.
LEMMA ErrorFacts ==
  \A code, source : /\ Error(code, source).severity = "Error"
                    /\ Error(code, source).code = code /\ Error(code, source).source = source
BY DEF Error

\* The outcome of a content: a descriptor, an exception, or one diagnostic.
LEMMA LoadFacts ==
  ASSUME NEW content \in Contents, NEW path
  PROVE  LET load == LoadOf(content, path) IN
         /\ load.throws <=> content.kind \in Uncaught
         /\ load.succeeded <=> content.kind = "manifest"
         /\ load.succeeded => /\ load.descriptor = [content.descriptor EXCEPT !.source = path]
                              /\ load.diagnostics = {}
         /\ ~load.succeeded => /\ load.diagnostics # {}
                               /\ \A d \in load.diagnostics :
                                    /\ d.severity = "Error" /\ d.source = path
                                    /\ d.code # "PROVIDER_MANIFEST_DUPLICATE_PROVIDER_ID"
<1>1. content.kind = "manifest" \/ content.kind \in NoManifestKinds
  BY CatalogAssumption
<1>2. CASE content.kind = "manifest"
  BY <1>2 DEF LoadOf, LoadJson, Loaded, Uncaught
<1>3. CASE content.kind \in {"missing", "denied"}
  <2>1. LoadOf(content, path) = LoadFailure("PROVIDER_MANIFEST_FILE_READ_FAILED", path)
    BY <1>3 DEF LoadOf
  <2>2. QED
    BY <1>3, <2>1, FailureFacts, ErrorFacts DEF Uncaught
<1>4. CASE content.kind = "empty"
  <2>1. LoadOf(content, path) = LoadFailure("PROVIDER_MANIFEST_EMPTY", path)
    BY <1>4 DEF LoadOf, LoadJson
  <2>2. QED
    BY <1>4, <2>1, FailureFacts, ErrorFacts DEF Uncaught
<1>5. CASE content.kind = "array"
  <2>1. LoadOf(content, path) = LoadFailure("PROVIDER_MANIFEST_ROOT_INVALID", path)
    BY <1>5 DEF LoadOf, LoadJson
  <2>2. QED
    BY <1>5, <2>1, FailureFacts, ErrorFacts DEF Uncaught
<1>6. CASE content.kind = "malformed"
  <2>1. LoadOf(content, path) = LoadFailure("PROVIDER_MANIFEST_JSON_INVALID", path)
    BY <1>6 DEF LoadOf, LoadJson
  <2>2. QED
    BY <1>6, <2>1, FailureFacts, ErrorFacts DEF Uncaught
<1>7. CASE content.kind \in Uncaught
  <2> DEFINE failure == LoadFailure("", path)
             load == LoadOf(content, path)
  <2>1. load = [failure EXCEPT !.throws = TRUE]
    BY <1>7 DEF LoadOf, LoadJson, Thrown, Uncaught
  <2>2. load.throws = TRUE /\ load.succeeded = FALSE /\ load.diagnostics = failure.diagnostics
    BY <2>1 DEF LoadFailure
  <2>3. /\ failure.diagnostics # {}
        /\ \A d \in failure.diagnostics :
             /\ d.severity = "Error" /\ d.source = path
             /\ d.code # "PROVIDER_MANIFEST_DUPLICATE_PROVIDER_ID"
    <3>1. failure.diagnostics = {Error("", path)}
      BY FailureFacts
    <3> HIDE DEF failure
    <3>2. /\ Error("", path).severity = "Error" /\ Error("", path).source = path
          /\ Error("", path).code = ""
      BY ErrorFacts
    <3>3. "" # "PROVIDER_MANIFEST_DUPLICATE_PROVIDER_ID"
      OBVIOUS
    <3>4. QED
      BY <3>1, <3>2, <3>3
  <2> HIDE DEF load, failure
  <2>4. QED
    BY <1>7, <2>2, <2>3 DEF load, Uncaught
<1>8. QED
  BY <1>1, <1>2, <1>3, <1>4, <1>5, <1>6, <1>7 DEF NoManifestKinds, Diagnosed

\* A path is accepted or has diagnostics, which are errors and its own.
LEMMA ReportFacts ==
  ASSUME NEW read, IsRead(read), NEW opts, NEW path \in DOMAIN read,
         read[path].kind \notin Uncaught
  PROVE  LET report == Report(LoadOf(read[path], path), opts) IN
         /\ \A d \in report : /\ d.severity = "Error" /\ d.source = path
                              /\ d.code # "PROVIDER_MANIFEST_DUPLICATE_PROVIDER_ID"
         /\ report = {} <=> path \in Accepted(read, opts)
<1> DEFINE content == read[path]
           load == LoadOf(content, path)
<1>1. content \in Contents
  BY DEF IsRead
<1>2. CASE content.kind = "manifest"
  <2>1. load.succeeded /\ load.descriptor = Entry(read, path) /\ load.diagnostics = {}
    BY <1>1, <1>2, LoadFacts DEF Entry
  <2>2. Entry(read, path).source = path
    BY <1>2, EntryFacts
  <2> HIDE DEF load
  <2>3. Report(load, opts) =
          {Error(IF f = "capabilities" THEN "PROVIDER_MANIFEST_CAPABILITIES_MISSING"
                 ELSE "PROVIDER_MANIFEST_REQUIRED_FIELD_MISSING", path) :
             f \in MissingFields(Entry(read, path), opts)}
    BY <2>1, <2>2 DEF Report, ValidationErrors
  <2>4. \A d \in Report(load, opts) : /\ d.severity = "Error" /\ d.source = path
                                      /\ d.code # "PROVIDER_MANIFEST_DUPLICATE_PROVIDER_ID"
    BY <2>3 DEF Error
  <2>5. Report(load, opts) = {} <=> MissingFields(Entry(read, path), opts) = {}
    BY <2>3
  <2>6. QED
    BY <1>2, <2>4, <2>5 DEF load, Accepted, Validate
<1>3. CASE content.kind # "manifest"
  <2>1. /\ ~load.succeeded /\ load.diagnostics # {}
        /\ \A d \in load.diagnostics : /\ d.severity = "Error" /\ d.source = path
                                       /\ d.code # "PROVIDER_MANIFEST_DUPLICATE_PROVIDER_ID"
    BY <1>1, <1>3, LoadFacts
  <2>2. Report(load, opts) = load.diagnostics
    BY <2>1 DEF Report, ValidationErrors
  <2>3. path \notin Accepted(read, opts)
    BY <1>3 DEF Accepted
  <2>4. QED
    BY <2>1, <2>2, <2>3
<1>4. QED
  BY <1>2, <1>3

\* What the options of a load accept, the registry accepts.
LEMMA RegistryAccepts ==
  ASSUME NEW d, NEW opts, Validate(d, opts)
  PROVE  Validate(d, DefaultOptions)
BY DEF Validate, MissingFields, DefaultOptions

\* The diagnostics of what was read are errors of the paths it was read from,
\* and a path has one unless it was accepted.
LEMMA NotesFacts ==
  ASSUME NEW read, IsRead(read), NEW opts
  PROVE  /\ \A d \in Notes(read, opts) :
              /\ d.severity = "Error" /\ d.source \in DOMAIN read \ Accepted(read, opts)
              /\ d.code # "PROVIDER_MANIFEST_DUPLICATE_PROVIDER_ID"
         /\ \A p \in DOMAIN read : read[p].kind \notin Uncaught =>
              (p \notin Accepted(read, opts) <=> \E d \in Notes(read, opts) : d.source = p)
<1> DEFINE report(p) == Report(LoadOf(read[p], p), opts)
           read2 == {q \in DOMAIN read : read[q].kind \notin Uncaught}
<1>1. \A p \in read2 :
        /\ \A d \in report(p) : /\ d.severity = "Error" /\ d.source = p
                                /\ d.code # "PROVIDER_MANIFEST_DUPLICATE_PROVIDER_ID"
        /\ report(p) = {} <=> p \in Accepted(read, opts)
  BY ReportFacts
<1>2. Notes(read, opts) = UNION {report(p) : p \in read2}
  BY DEF Notes
<1> HIDE DEF report
<1>3. \A p \in read2 : p \notin Accepted(read, opts) <=> \E d \in Notes(read, opts) : d.source = p
  BY <1>1, <1>2
<1>4. \A d \in Notes(read, opts) :
         /\ d.severity = "Error" /\ d.source \in DOMAIN read \ Accepted(read, opts)
         /\ d.code # "PROVIDER_MANIFEST_DUPLICATE_PROVIDER_ID"
  BY <1>1, <1>2
<1>5. QED
  BY <1>3, <1>4

-----------------------------------------------------------------------------
(* One more path has been read.                                            *)

Reading(read, path, content) == CopyInto(read, [p \in {path} |-> content])

Accepts(content, path, opts) ==
  content.kind = "manifest" /\ Validate([content.descriptor EXCEPT !.source = path], opts)

\* One more path has been read.
LEMMA ReadingDomain ==
  \A read, path, content, p :
    p \in DOMAIN Reading(read, path, content) <=> p \in DOMAIN read \/ p = path
BY DEF Reading, CopyInto

\* The path has the content that was read.
LEMMA ReadingThere ==
  \A read, path, content : Reading(read, path, content)[path] = content
BY DEF Reading, CopyInto

\* The other paths have what they had.
LEMMA ReadingElsewhere ==
  \A read, path, content : \A p \in DOMAIN read :
    p # path => Reading(read, path, content)[p] = read[p]
BY DEF Reading, CopyInto

\* The entries of the other paths stay.
LEMMA EntriesStay ==
  \A read, path, content : \A p \in DOMAIN read :
    p # path => Entry(Reading(read, path, content), p) = Entry(read, p)
BY ReadingElsewhere DEF Entry

\* The entry of the path is the descriptor of what was read.
LEMMA EntryThere ==
  \A read, path, content :
    Entry(Reading(read, path, content), path) = [content.descriptor EXCEPT !.source = path]
BY ReadingThere DEF Entry

\* The path is accepted on its own merits.
LEMMA AcceptedGrows ==
  ASSUME NEW read, NEW opts, NEW path, path \notin DOMAIN read, NEW content
  PROVE  \A p : p \in Accepted(Reading(read, path, content), opts) <=>
                  p \in Accepted(read, opts) \/ (p = path /\ Accepts(content, path, opts))
<1> DEFINE next == Reading(read, path, content)
<1>1. /\ \A p : p \in DOMAIN next <=> p \in DOMAIN read \/ p = path
      /\ next[path] = content /\ \A p \in DOMAIN read : next[p] = read[p]
  BY ReadingDomain, ReadingThere, ReadingElsewhere
<1>2. /\ \A p \in DOMAIN read : Entry(next, p) = Entry(read, p)
      /\ Entry(next, path) = [content.descriptor EXCEPT !.source = path]
  BY EntriesStay, EntryThere
<1> HIDE DEF next
<1>3. QED
  BY <1>1, <1>2 DEF Accepted, Accepts, next

\* What was accepted was read.
LEMMA AcceptedWereRead == \A read, opts, p : p \in Accepted(read, opts) => p \in DOMAIN read
BY DEF Accepted

\* The diagnostics of the path are added to the others.
LEMMA NotesGrow ==
  ASSUME NEW read, NEW opts, NEW path, path \notin DOMAIN read, NEW content
  PROVE  Notes(Reading(read, path, content), opts) =
           Notes(read, opts) \cup
             (IF content.kind \in Uncaught THEN {} ELSE Report(LoadOf(content, path), opts))
<1> DEFINE next == Reading(read, path, content)
           Counts(r) == {q \in DOMAIN r : r[q].kind \notin Uncaught}
           report(c, p) == Report(LoadOf(c, p), opts)
<1>1. /\ \A p : p \in DOMAIN next <=> p \in DOMAIN read \/ p = path
      /\ next[path] = content /\ \A p \in DOMAIN read : next[p] = read[p]
  BY ReadingDomain, ReadingThere, ReadingElsewhere
<1>2. /\ Notes(next, opts) = UNION {report(next[p], p) : p \in Counts(next)}
      /\ Notes(read, opts) = UNION {report(read[p], p) : p \in Counts(read)}
  BY DEF Notes
<1> HIDE DEF next, report
<1>3. ASSUME NEW d
      PROVE  d \in Notes(next, opts) <=>
               d \in Notes(read, opts) \/ (content.kind \notin Uncaught /\ d \in report(content, path))
  <2>1. d \in Notes(next, opts) <=> \E p \in DOMAIN next : next[p].kind \notin Uncaught /\ d \in report(next[p], p)
    BY <1>2
  <2>2. d \in Notes(read, opts) <=> \E p \in DOMAIN read : read[p].kind \notin Uncaught /\ d \in report(read[p], p)
    BY <1>2
  <2>3. QED
    BY <1>1, <2>1, <2>2
<1>4. QED
  BY <1>3 DEF next, report

\* A list grows by the entry of an accepted path, wherever the sort puts it.
LEMMA ListGrows ==
  ASSUME NEW read, IsRead(read), NEW opts, NEW list, ListInv(list, read, opts),
         NEW path \in Paths, path \notin DOMAIN read,
         NEW content \in Contents, Accepts(content, path, opts),
         NEW t \in Registry!Sort(Append(list, [content.descriptor EXCEPT !.source = path]))
  PROVE  ListInv(t, Reading(read, path, content), opts)
<1> DEFINE next == Reading(read, path, content)
           new == [content.descriptor EXCEPT !.source = path]
           s == Append(list, new)
           old == Entries(read, opts)
           all == Entries(next, opts)
<1>1. IsRead(next)
  BY ReadingDomain, ReadingThere, ReadingElsewhere DEF IsRead
<1>2. /\ \A p \in Accepted(read, opts) : Entry(next, p) = Entry(read, p) /\ p \in DOMAIN read
      /\ Entry(next, path) = new
      /\ \A p : p \in Accepted(next, opts) <=> p \in Accepted(read, opts) \/ p = path
  <2>1. \A p \in Accepted(read, opts) : Entry(next, p) = Entry(read, p) /\ p \in DOMAIN read
    BY EntriesStay, AcceptedWereRead
  <2>2. Entry(next, path) = new
    BY EntryThere
  <2>3. \A p : p \in Accepted(next, opts) <=>
                 p \in Accepted(read, opts) \/ (p = path /\ Accepts(content, path, opts))
    BY AcceptedGrows
  <2>4. QED
    BY <2>1, <2>2, <2>3
<1>3. old \in SUBSET all /\ new \in all
  BY <1>2 DEF Entries
<1>4. \A e \in old : e.source \in DOMAIN read
  <2> SUFFICES ASSUME NEW p \in Accepted(read, opts) PROVE Entry(read, p).source \in DOMAIN read
    BY DEF Entries
  <2>1. p \in DOMAIN read /\ read[p].kind = "manifest"
    BY DEF Accepted
  <2>2. QED
    BY <2>1, EntryFacts
<1>5. new.source = path
  <2>1. path \in DOMAIN next /\ next[path] = content /\ content.kind = "manifest"
    BY ReadingDomain, ReadingThere, ReadingElsewhere DEF Accepts
  <2>2. QED
    BY <1>1, <1>2, <2>1, EntryFacts
<1>6. list \in Seq(old)
  BY DEF ListInv
<1> DEFINE n == Len(list)
<1>7. /\ n \in Nat /\ DOMAIN list = 1..n /\ \A i \in 1..n : list[i] \in old
      /\ \A i, j \in 1..n : list[i].source = list[j].source => i = j
      /\ \A p \in Accepted(read, opts) : \E i \in 1..n : list[i].source = p
  <2>1. n \in Nat /\ DOMAIN list = 1..n /\ \A i \in 1..n : list[i] \in old
    <3> HIDE DEF old
    <3>1. QED
      BY <1>6, SequenceFacts
  <2>2. /\ \A i, j \in DOMAIN list : list[i].source = list[j].source => i = j
        /\ \A p \in Accepted(read, opts) : \E i \in DOMAIN list : list[i].source = p
    BY DEF ListInv
  <2> HIDE DEF n, old
  <2>3. QED
    BY <2>1, <2>2
<1> HIDE DEF next, new, old, all
<1>8. list \in Seq(all)
  BY <1>3, <1>7, <1>6
<1>9. /\ s \in Seq(all) /\ DOMAIN s = 1..(n + 1) /\ s[n + 1] = new
      /\ \A i \in 1..n : s[i] = list[i]
  BY <1>3, <1>7, <1>8
<1> HIDE DEF n, s
<1>10. \A i, j \in 1..(n + 1) : s[i].source = s[j].source => i = j
  <2> SUFFICES ASSUME NEW i \in 1..(n + 1), NEW j \in 1..(n + 1), s[i].source = s[j].source
               PROVE  i = j
    OBVIOUS
  <2>1. (i \in 1..n \/ i = n + 1) /\ (j \in 1..n \/ j = n + 1)
    BY <1>7
  <2>2. \A k \in 1..n : s[k].source \in DOMAIN read
    BY <1>4, <1>7, <1>9
  <2>3. path \notin DOMAIN read /\ s[n + 1].source = path
    BY <1>5, <1>9
  <2>4. QED
    BY <1>7, <1>9, <2>1, <2>2, <2>3
<1>11. \A p \in Accepted(next, opts) : \E i \in 1..(n + 1) : s[i].source = p
  <2> TAKE p \in Accepted(next, opts)
  <2>1. CASE p = path
    BY <1>5, <1>7, <1>9, <2>1
  <2>2. CASE p \in Accepted(read, opts)
    BY <1>7, <1>9, <2>2
  <2>3. QED
    BY <1>2, <2>1, <2>2
<1>12. /\ t \in Seq(all) /\ Registry!Sorted(t) /\ \E p : Rearranges(p, s, t)
  BY <1>9, SortRearranges DEF s, new
<1>13. PICK p : Rearranges(p, s, t)
  BY <1>12
<1>14. /\ DOMAIN t = 1..(n + 1) /\ \A i \in 1..(n + 1) : p[i] \in 1..(n + 1) /\ t[i] = s[p[i]]
       /\ \A i, j \in 1..(n + 1) : p[i] = p[j] => i = j
       /\ \A j \in 1..(n + 1) : \E i \in 1..(n + 1) : p[i] = j
  BY <1>9, <1>13 DEF Rearranges
<1>15. \A i, j \in DOMAIN t : t[i].source = t[j].source => i = j
  BY <1>10, <1>14
<1>16. \A q \in Accepted(next, opts) : \E i \in DOMAIN t : t[i].source = q
  <2> TAKE q \in Accepted(next, opts)
  <2>1. PICK j \in 1..(n + 1) : s[j].source = q
    BY <1>11
  <2>2. PICK i \in 1..(n + 1) : p[i] = j
    BY <1>14
  <2>3. QED
    BY <1>14, <2>1, <2>2
<1>17. QED
  BY <1>12, <1>15, <1>16 DEF ListInv, all, next

\* A list stays as it is when a path is not accepted.
LEMMA ListStays ==
  ASSUME NEW read, NEW opts, NEW list, ListInv(list, read, opts),
         NEW path, path \notin DOMAIN read, NEW content, ~Accepts(content, path, opts)
  PROVE  ListInv(list, Reading(read, path, content), opts)
<1> DEFINE next == Reading(read, path, content)
<1>1. /\ \A p \in Accepted(read, opts) : Entry(next, p) = Entry(read, p)
      /\ \A p : p \in Accepted(next, opts) <=> p \in Accepted(read, opts)
  BY EntriesStay, EntryThere, AcceptedGrows, AcceptedWereRead
<1> HIDE DEF next
<1>2. Accepted(next, opts) = Accepted(read, opts)
  BY <1>1
<1>3. Entries(next, opts) = Entries(read, opts)
  BY <1>1, <1>2 DEF Entries
<1>4. QED
  BY <1>2, <1>3 DEF ListInv, next

-----------------------------------------------------------------------------
(* The steps of a load.                                                    *)

\* Before anything is read there is nothing to accept or to note.
LEMMA NothingRead ==
  ASSUME NEW read, DOMAIN read = {}, NEW opts
  PROVE  Accepted(read, opts) = {} /\ Notes(read, opts) = {} /\ Entries(read, opts) = {}
BY DEF Accepted, Notes, Entries

\* A load whose variables do not change keeps its invariant.
LEMMA LoadFrame ==
  ASSUME NEW k, LoadInv(k), pc'[k] = pc[k], todo'[k] = todo[k], options'[k] = options[k],
         diagnostics'[k] = diagnostics[k], providers'[k] = providers[k],
         result'[k] = result[k], requested'[k] = requested[k], seen'[k] = seen[k]
  PROVE  LoadInv(k)'
<1>1. ReadInv(k)'
  BY DEF LoadInv, ReadInv
<1>2. QED
  BY <1>1 DEF LoadInv

\* An update at l leaves the other loads alone.
LEMMA OthersKeep ==
  ASSUME IInv, NEW l \in Loads, LoadInv(l)',
         \A k \in Loads \ {l} :
           /\ pc'[k] = pc[k] /\ todo'[k] = todo[k] /\ options'[k] = options[k]
           /\ diagnostics'[k] = diagnostics[k] /\ providers'[k] = providers[k]
           /\ result'[k] = result[k] /\ requested'[k] = requested[k] /\ seen'[k] = seen[k]
  PROVE  \A k \in Loads : LoadInv(k)'
<1> SUFFICES ASSUME NEW k \in Loads, k # l PROVE LoadInv(k)'
  OBVIOUS
<1>1. LoadInv(k)
  BY DEF IInv
<1>2. QED
  BY <1>1, LoadFrame

\* The paths of a load are fixed when it starts.
LEMMA StartKeeps ==
  ASSUME IInv, NEW l \in Loads, NEW input \in Inputs, NEW opts \in OptionSets,
         Start(l, input, opts)
  PROVE  IInv'
<1> DEFINE wanted == ToSet(input) \ {Blank}
           queue == PathsToRead(input)
<1>1. /\ Shapes /\ Fresh /\ QueueInv(todo[l], requested[l]) /\ ReadInv(l)
      /\ pc[l] = "idle" /\ requested[l] = {}
  BY DEF IInv, LoadInv, Start
<1>2. Shapes'
  BY <1>1 DEF Shapes, Start
<1>3. Fresh'
  BY <1>1 DEF Fresh, Start
<1>4. /\ pc'[l] = "loading" /\ todo'[l] = queue /\ options'[l] = opts
      /\ requested'[l] = wanted /\ diagnostics'[l] = diagnostics[l]
      /\ providers'[l] = providers[l] /\ seen'[l] = seen[l]
  BY <1>1 DEF Shapes, Start
<1>5. QueueInv(queue, wanted) /\ ToSet(queue) = wanted
  <2>1. wanted \in SUBSET Paths
    BY CatalogAssumption DEF ToSet
  <2>2. /\ queue \in Seq(wanted) /\ ToSet(queue) = wanted
        /\ \A i, j \in DOMAIN queue : queue[i] = queue[j] => i = j
    BY <2>1, InOrdinalOrderFacts DEF PathsToRead
  <2> HIDE DEF queue, wanted
  <2>3. queue \in Seq(Paths)
    BY <2>1, <2>2
  <2>4. QED
    BY <2>1, <2>2, <2>3 DEF QueueInv
<1> HIDE DEF queue, wanted
<1>6. DOMAIN seen[l] = {}
  BY <1>1 DEF ReadInv
<1>7. ReadInv(l)'
  <2>1. \A o : Accepted(seen[l], o) = {} /\ Notes(seen[l], o) = {} /\ Entries(seen[l], o) = {}
    BY <1>6, NothingRead
  <2>2. ListInv(providers[l], seen[l], opts)
    BY <1>1, <2>1 DEF ReadInv, ListInv
  <2>3. diagnostics[l] = Notes(seen[l], opts)
    BY <1>1, <2>1 DEF ReadInv
  <2>4. DOMAIN seen[l] = wanted \ ToSet(queue) /\ IsRead(seen[l])
    BY <1>1, <1>5, <1>6 DEF ReadInv
  <2>5. QED
    BY <1>4, <1>6, <2>2, <2>3, <2>4 DEF ReadInv
<1>8. LoadInv(l)'
  BY <1>4, <1>5, <1>7 DEF LoadInv
<1>9. \A k \in Loads : LoadInv(k)'
  <2>1. \A k \in Loads \ {l} :
           /\ pc'[k] = pc[k] /\ todo'[k] = todo[k] /\ options'[k] = options[k]
           /\ diagnostics'[k] = diagnostics[k] /\ providers'[k] = providers[k]
           /\ result'[k] = result[k] /\ requested'[k] = requested[k] /\ seen'[k] = seen[k]
    BY <1>1 DEF Shapes, Start
  <2>2. QED
    BY <1>8, <2>1, OthersKeep
<1>10. QED
  BY <1>2, <1>3, <1>9 DEF IInv

\* A manifest is registered when the options of the load accept it.
LEMMA LoadNextRegisters ==
  ASSUME IInv, NEW l \in Loads, LoadNext(l)
  PROVE  LET path == Head(todo[l])
             new == [disk[path].descriptor EXCEPT !.source = path]
         IN  IF Accepts(disk[path], path, options[l])
             THEN \E sorted \in Registry!Sort(Append(providers[l], new)) :
                    providers' = [providers EXCEPT ![l] = sorted]
             ELSE providers' = providers
<1> DEFINE path == Head(todo[l])
           content == disk[path]
           load == LoadFile(path)
           new == [content.descriptor EXCEPT !.source = path]
<1>1. path \in Paths /\ content \in Contents
  <2>1. todo[l] \in Seq(Paths) /\ todo[l] # <<>> /\ disk \in [Paths -> Contents]
    BY DEF IInv, LoadInv, QueueInv, LoadNext, Shapes
  <2>2. path \in Paths
    BY <2>1
  <2>3. QED
    BY <2>1, <2>2
<1>2. load = LoadOf(content, path)
  BY DEF LoadFile, LoadOf
<1>3. IF load.succeeded /\ Validate(load.descriptor, options[l])
      THEN Registry!Register(l, load.descriptor) ELSE providers' = providers
  BY DEF LoadNext
<1> HIDE DEF content, load, path
<1>4. /\ load.succeeded <=> content.kind = "manifest"
      /\ load.succeeded => load.descriptor = new
  BY <1>1, <1>2, LoadFacts
<1>5. load.succeeded /\ Validate(load.descriptor, options[l]) <=> Accepts(content, path, options[l])
  BY <1>4 DEF Accepts
<1>6. ASSUME Accepts(content, path, options[l])
      PROVE  \E sorted \in Registry!Sort(Append(providers[l], new)) :
               providers' = [providers EXCEPT ![l] = sorted]
  <2>1. Registry!Register(l, new) /\ Validate(new, options[l])
    BY <1>3, <1>4, <1>5, <1>6
  <2> HIDE DEF new
  <2>2. Registry!Validate(new, Registry!DefaultOptions)
    BY <2>1, RegistryAccepts DEF Registry!Validate, Registry!MissingFields, Registry!DefaultOptions,
       Registry!Null, Registry!Blank, Validate, MissingFields, DefaultOptions, Null, Blank
  <2>3. QED
    BY <2>1, <2>2 DEF Registry!Register
<1>7. QED
  BY <1>3, <1>5, <1>6 DEF content, path

\* The read of one file and what follows it until the next await.
LEMMA LoadNextKeeps ==
  ASSUME IInv, NEW l \in Loads, LoadNext(l)
  PROVE  IInv'
<1> DEFINE path == Head(todo[l])
           content == disk[path]
           next == Reading(seen[l], path, content)
           new == [content.descriptor EXCEPT !.source = path]
           uncaught == content.kind \in Uncaught
<1>1. /\ Shapes /\ Fresh /\ QueueInv(todo[l], requested[l]) /\ ReadInv(l)
      /\ pc[l] = "loading" /\ todo[l] # <<>>
  BY DEF IInv, LoadInv, LoadNext
<1>2. /\ Tail(todo[l]) \in Seq(Paths) /\ path \in ToSet(todo[l])
      /\ ToSet(Tail(todo[l])) = ToSet(todo[l]) \ {path}
      /\ \A i, j \in DOMAIN Tail(todo[l]) : Tail(todo[l])[i] = Tail(todo[l])[j] => i = j
  BY <1>1, TailFacts DEF QueueInv
<1>3. path \in Paths /\ content \in Contents /\ path \in requested[l]
  BY <1>1, <1>2 DEF QueueInv, Shapes
<1>4. path \notin DOMAIN seen[l]
  BY <1>1, <1>2 DEF ReadInv
<1>5. IF Accepts(content, path, options[l])
      THEN \E sorted \in Registry!Sort(Append(providers[l], new)) :
             providers' = [providers EXCEPT ![l] = sorted]
      ELSE providers' = providers
  BY LoadNextRegisters
<1>6. LoadFile(path) = LoadOf(content, path)
  BY DEF LoadFile, LoadOf
<1>7. (LoadFile(path)).throws <=> uncaught
  <2> HIDE DEF content, path
  <2>1. LoadOf(content, path).throws <=> content.kind \in Uncaught
    BY <1>3, LoadFacts
  <2>2. QED
    BY <1>6, <2>1 DEF uncaught
<1>8. /\ seen' = [seen EXCEPT ![l] = CopyInto(@, [p \in {path} |-> disk[path]])]
      /\ todo' = [todo EXCEPT ![l] = Tail(@)]
      /\ pc' = [pc EXCEPT ![l] = IF (LoadFile(path)).throws THEN "faulted" ELSE @]
      /\ diagnostics' = [diagnostics EXCEPT ![l] =
           IF (LoadFile(path)).throws THEN @ ELSE @ \cup Report(LoadFile(path), options[l])]
      /\ UNCHANGED <<disk, edits, options, result, requested>>
  BY DEF LoadNext, Remaining
<1>9. providers' = [k \in Loads |-> providers'[k]] /\ \A k \in Loads \ {l} : providers'[k] = providers[k]
  <2>1. CASE Accepts(content, path, options[l])
    <3>1. PICK sorted : providers' = [providers EXCEPT ![l] = sorted]
      BY <1>5, <2>1
    <3>2. providers = [k \in Loads |-> providers[k]]
      BY <1>1 DEF Shapes
    <3>3. QED
      BY <3>1, <3>2
  <2>2. CASE ~Accepts(content, path, options[l])
    BY <1>1, <1>5, <2>2 DEF Shapes
  <2>3. QED
    BY <2>1, <2>2
<1>10. Shapes'
  <2>1. pc' \in [Loads -> {"idle", "loading", "done", "cancelled", "faulted"}]
    BY <1>1, <1>8 DEF Shapes
  <2>2. QED
    BY <1>1, <1>8, <1>9, <2>1 DEF Shapes
<1>11. /\ seen'[l] = next /\ todo'[l] = Tail(todo[l]) /\ options'[l] = options[l]
       /\ requested'[l] = requested[l] /\ disk' = disk /\ edits' = edits
       /\ pc'[l] = IF uncaught THEN "faulted" ELSE "loading"
       /\ diagnostics'[l] = IF uncaught THEN diagnostics[l]
                            ELSE diagnostics[l] \cup Report(LoadOf(content, path), options[l])
  <2> HIDE DEF uncaught
  <2>1. seen'[l] = next
    BY <1>1, <1>8 DEF Reading, Shapes
  <2>2. QED
    BY <1>1, <1>6, <1>7, <1>8, <2>1 DEF Shapes
<1>12. \A k \in Loads \ {l} :
         /\ pc'[k] = pc[k] /\ todo'[k] = todo[k] /\ options'[k] = options[k]
         /\ diagnostics'[k] = diagnostics[k] /\ providers'[k] = providers[k]
         /\ result'[k] = result[k] /\ requested'[k] = requested[k] /\ seen'[k] = seen[k]
  BY <1>1, <1>8, <1>9 DEF Shapes
<1>13. ListInv(providers'[l], next, options[l])
  <2>1. IsRead(seen[l]) /\ ListInv(providers[l], seen[l], options[l])
    BY <1>1 DEF ReadInv
  <2>2. CASE Accepts(content, path, options[l])
    <3>1. PICK sorted \in Registry!Sort(Append(providers[l], new)) :
             providers' = [providers EXCEPT ![l] = sorted]
      BY <1>5, <2>2
    <3>2. providers'[l] = sorted
      BY <1>1, <3>1 DEF Shapes
    <3> HIDE DEF path, content
    <3>3. ListInv(sorted, next, options[l])
      BY <1>3, <1>4, <2>1, <2>2, <3>1, ListGrows
    <3>4. QED
      BY <3>2, <3>3
  <2>3. CASE ~Accepts(content, path, options[l])
    <3>1. providers' = providers
      BY <1>5, <2>3
    <3> HIDE DEF path, content
    <3>2. QED
      BY <1>4, <2>1, <2>3, <3>1, ListStays
  <2>4. QED
    BY <2>2, <2>3
<1>14. Notes(next, options[l]) =
         Notes(seen[l], options[l]) \cup
           (IF uncaught THEN {} ELSE Report(LoadOf(content, path), options[l]))
  <2> HIDE DEF path, content
  <2>1. QED
    BY <1>4, NotesGrow DEF uncaught
<1>15. /\ \A p : p \in DOMAIN next <=> p \in DOMAIN seen[l] \/ p = path
       /\ next[path] = content /\ \A p \in DOMAIN seen[l] : next[p] = seen[l][p]
  <2> HIDE DEF path, content
  <2>1. QED
    BY <1>4, ReadingDomain, ReadingThere, ReadingElsewhere
<1> HIDE DEF path, content, next, new
<1>16. ReadInv(l)'
  <2>1. IsRead(next)
    BY <1>1, <1>3, <1>15 DEF ReadInv, IsRead
  <2>2. DOMAIN next = requested[l] \ ToSet(Tail(todo[l]))
    BY <1>1, <1>2, <1>3, <1>15 DEF ReadInv
  <2>3. pc'[l] = "faulted" <=> \E p \in DOMAIN next : next[p].kind \in Uncaught
    BY <1>1, <1>11, <1>15 DEF ReadInv
  <2>4. \A p, q \in DOMAIN next : {next[p].kind, next[q].kind} \subseteq Uncaught => p = q
    BY <1>1, <1>15 DEF ReadInv
  <2>5. pc'[l] # "done" /\ diagnostics'[l] = Notes(next, options[l])
    BY <1>1, <1>11, <1>14 DEF ReadInv
  <2>6. QED
    BY <1>11, <1>13, <2>1, <2>2, <2>3, <2>4, <2>5 DEF ReadInv
<1>17. QueueInv(todo'[l], requested'[l])
  BY <1>1, <1>2, <1>11 DEF QueueInv
<1>18. LoadInv(l)'
  BY <1>11, <1>16, <1>17 DEF LoadInv
<1>19. \A k \in Loads : LoadInv(k)'
  BY <1>12, <1>18, OthersKeep
<1>20. Fresh'
  <2> SUFFICES ASSUME edits' = 0, NEW k \in Loads, NEW p \in DOMAIN seen'[k]
               PROVE  seen'[k][p] = disk'[p]
    BY DEF Fresh
  <2>1. edits = 0 /\ disk' = disk
    BY <1>11
  <2>2. CASE k # l
    BY <1>1, <1>12, <2>1, <2>2 DEF Fresh
  <2>3. CASE k = l
    <3>1. p \in DOMAIN next
      BY <1>11, <2>3
    <3>2. next[p] = disk[p]
      BY <1>1, <1>15, <2>1, <3>1 DEF Fresh, content
    <3>3. QED
      BY <1>11, <2>1, <2>3, <3>2
  <2>4. QED
    BY <2>2, <2>3
<1>21. QED
  BY <1>10, <1>19, <1>20 DEF IInv

\* A cancelled load keeps what it has collected to itself.
LEMMA CancelKeeps ==
  ASSUME IInv, NEW l \in Loads, Cancel(l)
  PROVE  IInv'
<1>1. /\ Shapes /\ Fresh /\ QueueInv(todo[l], requested[l]) /\ ReadInv(l)
      /\ pc[l] = "loading"
  BY DEF IInv, LoadInv, Cancel
<1>2. Shapes' /\ Fresh'
  BY <1>1 DEF Shapes, Fresh, Cancel
<1>3. /\ pc'[l] = "cancelled" /\ \A k \in Loads \ {l} : pc'[k] = pc[k]
      /\ UNCHANGED <<todo, options, diagnostics, providers, result, requested, seen>>
  BY <1>1 DEF Shapes, Cancel
<1>4. ReadInv(l)'
  BY <1>1, <1>3 DEF ReadInv
<1>5. LoadInv(l)'
  BY <1>1, <1>3, <1>4 DEF LoadInv
<1>6. \A k \in Loads : LoadInv(k)'
  BY <1>3, <1>5, OthersKeep
<1>7. QED
  BY <1>2, <1>6 DEF IInv

\* The end of a load adds what the whole list shows.
LEMMA FinishKeeps ==
  ASSUME IInv, NEW l \in Loads, Finish(l)
  PROVE  IInv'
<1> DEFINE all == diagnostics[l] \cup Duplicates(providers[l])
           answer == [succeeded |-> \A d \in all : d.severity # "Error", providers |-> providers[l]]
<1>1. /\ Shapes /\ Fresh /\ QueueInv(todo[l], requested[l]) /\ ReadInv(l)
      /\ pc[l] = "loading" /\ todo[l] = <<>>
  BY DEF IInv, LoadInv, Finish
<1>2. /\ pc' = [pc EXCEPT ![l] = "done"]
      /\ diagnostics' = [diagnostics EXCEPT ![l] = all]
      /\ result' = [result EXCEPT ![l] = answer]
      /\ UNCHANGED <<disk, edits, todo, options, providers, requested, seen>>
  <2>1. all = diagnostics[l] \cup FindDuplicateProviderIds(providers[l])
                             \cup FindDuplicateCapabilities(providers[l])
    BY DEF Duplicates
  <2>2. QED
    BY <2>1 DEF Finish
<1> HIDE DEF all, answer
<1>3. Shapes' /\ Fresh'
  BY <1>1, <1>2 DEF Shapes, Fresh
<1>4. /\ pc'[l] = "done" /\ diagnostics'[l] = all /\ result'[l] = answer
      /\ \A k \in Loads \ {l} :
           pc'[k] = pc[k] /\ diagnostics'[k] = diagnostics[k] /\ result'[k] = result[k]
  BY <1>1, <1>2 DEF Shapes
<1>5. all = Notes(seen[l], options[l]) \cup Duplicates(providers[l])
  BY <1>1 DEF ReadInv, all
<1>6. ReadInv(l)'
  BY <1>1, <1>2, <1>4, <1>5 DEF ReadInv, answer
<1>7. LoadInv(l)'
  BY <1>1, <1>2, <1>4, <1>6 DEF LoadInv
<1>8. \A k \in Loads : LoadInv(k)'
  BY <1>2, <1>4, <1>7, OthersKeep
<1>9. QED
  BY <1>3, <1>8 DEF IInv

\* An edit changes nothing that was read.
LEMMA EditKeeps ==
  ASSUME IInv, NEW path \in Paths, NEW content \in Contents, Edit(path, content)
  PROVE  IInv'
<1>1. Shapes /\ \A l \in Loads : LoadInv(l)
  BY DEF IInv
<1>2. Shapes'
  BY <1>1, CatalogAssumption DEF Shapes, Edit
<1>3. Fresh'
  <2>1. edits' = edits + 1 /\ edits \in Nat
    BY <1>1, CatalogAssumption DEF Shapes, Edit
  <2>2. QED
    BY <2>1 DEF Fresh
<1>4. \A l \in Loads : LoadInv(l)'
  BY <1>1, LoadFrame DEF Edit
<1>5. QED
  BY <1>2, <1>3, <1>4 DEF IInv

\* At first no load has read anything.
LEMMA InitKeeps == Init => IInv
<1> SUFFICES ASSUME Init PROVE IInv
  OBVIOUS
<1>1. Shapes
  <2>1. providers = [l \in Loads |-> <<>>]
    BY DEF Init, Registry!Init
  <2>2. 0 \in 0..MaxEdits
    BY CatalogAssumption
  <2>3. QED
    BY <2>1, <2>2 DEF Init, Shapes
<1>2. ASSUME NEW l \in Loads
      PROVE  /\ pc[l] = "idle" /\ todo[l] = <<>> /\ diagnostics[l] = {} /\ providers[l] = <<>>
             /\ requested[l] = {} /\ seen[l] = <<>>
  BY DEF Init, Registry!Init
<1>3. DOMAIN <<>> = {} /\ ToSet(<<>>) = {}
  BY DEF ToSet
<1>4. Fresh
  BY <1>2, <1>3 DEF Fresh
<1>5. ASSUME NEW l \in Loads
      PROVE  LoadInv(l)
  <2>1. QueueInv(todo[l], requested[l])
    <3>1. <<>> \in Seq(Paths)
      OBVIOUS
    <3>2. QED
      BY <1>2, <1>3, <3>1 DEF QueueInv
  <2>2. Accepted(seen[l], options[l]) = {} /\ Notes(seen[l], options[l]) = {}
    BY <1>2, <1>3, NothingRead
  <2>3. ListInv(providers[l], seen[l], options[l])
    <3>1. <<>> \in Seq(Entries(seen[l], options[l]))
      OBVIOUS
    <3>2. Registry!Sorted(<<>>)
      BY <1>3 DEF Registry!Sorted
    <3>3. QED
      BY <1>2, <1>3, <2>2, <3>1, <3>2 DEF ListInv
  <2>4. ReadInv(l)
    BY <1>2, <1>3, <2>2, <2>3 DEF ReadInv, IsRead
  <2>5. QED
    BY <1>2, <2>1, <2>4 DEF LoadInv
<1>6. QED
  BY <1>1, <1>4, <1>5 DEF IInv

\* Every step keeps the invariant.
LEMMA NextKeeps == IInv /\ [Next]_vars => IInv'
<1> SUFFICES ASSUME IInv, [Next]_vars PROVE IInv'
  OBVIOUS
<1>1. ASSUME NEW l \in Loads, NEW input \in Inputs, NEW opts \in OptionSets, Start(l, input, opts)
      PROVE  IInv'
  BY <1>1, StartKeeps
<1>2. ASSUME NEW l \in Loads, LoadNext(l) PROVE IInv'
  BY <1>2, LoadNextKeeps
<1>3. ASSUME NEW l \in Loads, Finish(l) PROVE IInv'
  BY <1>3, FinishKeeps
<1>4. ASSUME NEW l \in Loads, Cancel(l) PROVE IInv'
  BY <1>4, CancelKeeps
<1>5. ASSUME NEW path \in Paths, NEW content \in Contents, Edit(path, content) PROVE IInv'
  BY <1>5, EditKeeps
<1>6. CASE UNCHANGED vars
  <2>1. Shapes' /\ Fresh'
    BY <1>6 DEF IInv, Shapes, Fresh, vars
  <2>2. \A l \in Loads : LoadInv(l)'
    BY <1>6, LoadFrame DEF IInv, vars
  <2>3. QED
    BY <2>1, <2>2 DEF IInv
<1>7. QED
  BY <1>1, <1>2, <1>3, <1>4, <1>5, <1>6 DEF Next, LoadStep

\* The invariant holds in every reachable state.
LEMMA Invariance == Spec => []IInv
BY InitKeeps, NextKeeps, PTL DEF Spec

-----------------------------------------------------------------------------
(* What a list says.                                                       *)

\* The elements of a list are the entries of what was accepted.
LEMMA ListElements ==
  ASSUME NEW read, IsRead(read), NEW opts, NEW list, ListInv(list, read, opts)
  PROVE  /\ \A i \in DOMAIN list : /\ list[i].source \in Accepted(read, opts)
                                   /\ list[i] = Entry(read, list[i].source)
                                   /\ IsDescriptor(list[i])
         /\ ToSet(list) = Entries(read, opts)
<1>1. \A p \in Accepted(read, opts) :
         Entry(read, p).source = p /\ IsDescriptor(Entry(read, p))
  BY EntryFacts DEF Accepted
<1>2. \A i \in DOMAIN list : list[i] \in Entries(read, opts)
  BY DEF ListInv
<1>3. ASSUME NEW i \in DOMAIN list
      PROVE  /\ list[i].source \in Accepted(read, opts)
             /\ list[i] = Entry(read, list[i].source) /\ IsDescriptor(list[i])
  <2>1. PICK p \in Accepted(read, opts) : list[i] = Entry(read, p)
    BY <1>2 DEF Entries
  <2>2. QED
    BY <1>1, <2>1
<1>4. ASSUME NEW p \in Accepted(read, opts)
      PROVE  Entry(read, p) \in ToSet(list)
  <2>1. PICK i \in DOMAIN list : list[i].source = p
    BY DEF ListInv
  <2>2. QED
    BY <1>3, <2>1 DEF ToSet
<1>5. ToSet(list) = Entries(read, opts)
  BY <1>2, <1>4 DEF ToSet, Entries
<1>6. QED
  BY <1>3, <1>5

\* A list has no more entries than paths were asked for.
LEMMA ListSize ==
  ASSUME NEW read, IsRead(read), NEW opts, NEW list, ListInv(list, read, opts),
         NEW wanted \in SUBSET Paths, DOMAIN read \subseteq wanted
  PROVE  /\ Len(list) \in Nat /\ Len(list) <= Cardinality(wanted)
         /\ Accepted(read, opts) = wanted => Len(list) = Cardinality(wanted)
<1> DEFINE n == Len(list)
           Source == [i \in 1..n |-> list[i].source]
<1>1. n \in Nat /\ DOMAIN list = 1..n
  <2>1. list \in Seq(Entries(read, opts))
    BY DEF ListInv
  <2>2. QED
    BY <2>1, SequenceFacts
<1>2. \A i \in 1..n : list[i].source \in Accepted(read, opts)
  BY <1>1, ListElements
<1>3. /\ \A i, j \in 1..n : list[i].source = list[j].source => i = j
      /\ \A p \in Accepted(read, opts) : \E i \in 1..n : list[i].source = p
  BY <1>1 DEF ListInv
<1>4. \A p \in Accepted(read, opts) : p \in wanted
  BY AcceptedWereRead
<1>5. IsFiniteSet(wanted)
  BY CatalogAssumption, FS_Subset
<1> HIDE DEF n
<1>6. Source \in Injection(1..n, wanted)
  BY <1>2, <1>3, <1>4 DEF Injection, IsInjective
<1>7. IsFiniteSet(1..n) /\ Cardinality(1..n) = n
  BY <1>1, FS_Interval
<1>8. n <= Cardinality(wanted)
  BY <1>5, <1>6, <1>7, FS_Injection
<1>9. ASSUME Accepted(read, opts) = wanted PROVE n = Cardinality(wanted)
  <2>1. Source \in Surjection(1..n, wanted)
    BY <1>2, <1>3, <1>9 DEF Surjection
  <2>2. QED
    BY <1>5, <1>6, <1>7, <2>1, FS_Injection
<1>10. QED
  BY <1>1, <1>8, <1>9 DEF n

\* A repeated identifier is an error, and nothing else in a list is one.
LEMMA DuplicatesFacts ==
  ASSUME NEW list
  PROVE  /\ \A d \in Duplicates(list) :
              /\ d.severity \in {"Error", "Warning"}
              /\ d.severity = "Error" => d.code = "PROVIDER_MANIFEST_DUPLICATE_PROVIDER_ID"
         /\ (\E d \in Duplicates(list) : d.severity = "Error") <=>
              \E i, j \in DOMAIN list : i # j /\ list[i].providerId = list[j].providerId
<1>1. \A d \in FindDuplicateProviderIds(list) :
        d.severity = "Error" /\ d.code = "PROVIDER_MANIFEST_DUPLICATE_PROVIDER_ID"
  BY ErrorFacts DEF FindDuplicateProviderIds
<1>2. \A d \in FindDuplicateCapabilities(list) : d.severity = "Warning"
  BY DEF FindDuplicateCapabilities
<1>3. FindDuplicateProviderIds(list) # {} <=>
        \E i, j \in DOMAIN list : i # j /\ list[i].providerId = list[j].providerId
  BY DEF FindDuplicateProviderIds
<1>4. "Error" # "Warning"
  OBVIOUS
<1>5. QED
  BY <1>1, <1>2, <1>3, <1>4 DEF Duplicates

\* Two entries share an identifier when the files of two paths do.
LEMMA ListIdentifiers ==
  ASSUME NEW read, IsRead(read), NEW opts, NEW list, ListInv(list, read, opts)
  PROVE  (\E i, j \in DOMAIN list : i # j /\ list[i].providerId = list[j].providerId) <=>
           \E p, q \in Accepted(read, opts) :
             p # q /\ read[p].descriptor.providerId = read[q].descriptor.providerId
<1>1. \A i \in DOMAIN list : /\ list[i].source \in Accepted(read, opts)
                             /\ list[i] = Entry(read, list[i].source)
  BY ListElements
<1>2. \A p \in Accepted(read, opts) : Entry(read, p).providerId = read[p].descriptor.providerId
  BY EntryFacts DEF Accepted
<1>3. \A i \in DOMAIN list : list[i].providerId = read[list[i].source].descriptor.providerId
  BY <1>1, <1>2
<1>4. \A i, j \in DOMAIN list : list[i].source = list[j].source => i = j
  BY DEF ListInv
<1>5. \A p \in Accepted(read, opts) : \E i \in DOMAIN list : list[i].source = p
  BY DEF ListInv
<1>6. QED
  BY <1>1, <1>3, <1>4, <1>5

\* A set of naturals that has an element has a smallest one.
LEMMA NatMinimum ==
  ASSUME NEW S \in SUBSET Nat, S # {}
  PROVE  \E m \in S : \A n \in S : m <= n
<1> DEFINE R == {ss \in Nat \X Nat : ss[1] < ss[2]}
<1>1. IsWellFoundedOn(R, Nat)
  BY NatLessThanWellFounded DEF OpToRel
<1>2. \E m \in S : \A n \in S : <<n, m>> \notin R
  <2> HIDE DEF R
  <2>1. QED
    BY <1>1, WFMin
<1>3. PICK m \in S : \A n \in S : <<n, m>> \notin R
  BY <1>2
<1>4. ASSUME NEW n \in S PROVE m <= n
  <2>1. <<n, m>> \notin R /\ <<n, m>> \in Nat \X Nat
    BY <1>3
  <2>2. ~(n < m)
    BY <2>1
  <2>3. QED
    BY <2>2
<1>5. QED
  BY <1>4

\* In a list without a repeated identifier, the identifiers ascend.
LEMMA SortedByIdentifier ==
  ASSUME NEW list, Registry!Sorted(list),
         NEW i \in DOMAIN list, NEW j \in DOMAIN list, i < j,
         Ordinal[list[i].providerId] \in Nat, Ordinal[list[j].providerId] \in Nat,
         Ordinal[list[i].providerId] # Ordinal[list[j].providerId]
  PROVE  Ordinal[list[i].providerId] < Ordinal[list[j].providerId]
<1> DEFINE a == Registry!CompareKey(list[i])
           b == Registry!CompareKey(list[j])
<1>1. ~Registry!LexLess(b, a)
  BY DEF Registry!Sorted, Registry!CompareProviders
<1>2. /\ DOMAIN b = 1..3 /\ a[1] = Ordinal[list[i].providerId]
      /\ b[1] = Ordinal[list[j].providerId]
  BY DEF Registry!CompareKey
<1> HIDE DEF a, b
<1>3. ~(b[1] < a[1])
  <2>1. 1 \in DOMAIN b /\ \A m \in 1..(1 - 1) : b[m] = a[m]
    BY <1>2
  <2>2. QED
    BY <1>1, <2>1 DEF Registry!LexLess
<1>4. QED
  BY <1>2, <1>3

\* Lists of the same elements whose identifiers are distinct are one list.
LEMMA SortedListsAgree ==
  ASSUME NEW E, NEW s \in Seq(E), NEW t \in Seq(E), ToSet(s) = ToSet(t), Len(s) = Len(t),
         Registry!Sorted(s), Registry!Sorted(t),
         \A e \in E : Ordinal[e.providerId] \in Nat,
         \A i, j \in DOMAIN s : Ordinal[s[i].providerId] = Ordinal[s[j].providerId] => i = j,
         \A i, j \in DOMAIN t : Ordinal[t[i].providerId] = Ordinal[t[j].providerId] => i = j
  PROVE  s = t
<1> DEFINE n == Len(s)
           differ == {i \in 1..n : s[i] # t[i]}
           rank(e) == Ordinal[e.providerId]
<1>1. /\ n \in Nat /\ DOMAIN s = 1..n /\ DOMAIN t = 1..n
      /\ \A i \in 1..n : s[i] \in E /\ t[i] \in E
  OBVIOUS
<1>2. /\ \A i, j \in 1..n : i < j => rank(s[i]) < rank(s[j])
      /\ \A i, j \in 1..n : i < j => rank(t[i]) < rank(t[j])
      /\ \A i \in 1..n : rank(s[i]) \in Nat /\ rank(t[i]) \in Nat
  <2>1. \A i \in 1..n : rank(s[i]) \in Nat /\ rank(t[i]) \in Nat
    BY <1>1
  <2>2. ASSUME NEW i \in 1..n, NEW j \in 1..n, i < j PROVE rank(s[i]) < rank(s[j])
    BY <1>1, <2>1, <2>2, SortedByIdentifier
  <2>3. ASSUME NEW i \in 1..n, NEW j \in 1..n, i < j PROVE rank(t[i]) < rank(t[j])
    <3>1. i \in DOMAIN t /\ j \in DOMAIN t /\ i # j
      BY <1>1, <2>3
    <3>2. Ordinal[t[i].providerId] # Ordinal[t[j].providerId]
      BY <3>1
    <3>3. Ordinal[t[i].providerId] \in Nat /\ Ordinal[t[j].providerId] \in Nat
      BY <2>1
    <3>4. QED
      BY <2>3, <3>1, <3>2, <3>3, SortedByIdentifier
  <2>4. QED
    BY <2>1, <2>2, <2>3
<1> HIDE DEF n, rank
<1>3. /\ \A i \in 1..n : \E j \in 1..n : s[i] = t[j]
      /\ \A i \in 1..n : \E j \in 1..n : t[i] = s[j]
  <2>1. \A i \in 1..n : s[i] \in ToSet(s) /\ t[i] \in ToSet(t)
    BY <1>1 DEF ToSet
  <2>2. /\ \A e \in ToSet(s) : \E j \in 1..n : e = s[j]
        /\ \A e \in ToSet(t) : \E j \in 1..n : e = t[j]
    BY <1>1 DEF ToSet
  <2>3. QED
    BY <2>1, <2>2
<1>4. SUFFICES ASSUME differ # {} PROVE FALSE
  <2>1. \A i \in 1..n : s[i] = t[i]
    BY <1>4
  <2>2. QED
    BY <1>1, <2>1 DEF n
<1>5. PICK i \in differ : \A j \in differ : i <= j
  <2>1. differ \in SUBSET Nat
    BY <1>1
  <2> HIDE DEF differ
  <2>2. QED
    BY <1>4, <2>1, NatMinimum
<1>6. i \in 1..n /\ s[i] # t[i] /\ \A j \in 1..n : j < i => s[j] = t[j]
  BY <1>1, <1>5
<1>7. rank(t[i]) < rank(s[i])
  <2>1. PICK j \in 1..n : s[i] = t[j]
    BY <1>3, <1>6
  <2>2. j # i
    BY <1>6, <2>1
  <2>3. ~(j < i)
    <3>1. SUFFICES ASSUME j < i PROVE FALSE
      OBVIOUS
    <3>2. s[j] = s[i] /\ rank(s[j]) < rank(s[i])
      BY <1>2, <1>6, <2>1, <3>1
    <3>3. QED
      BY <1>2, <1>6, <3>2
  <2>4. i < j
    BY <1>1, <1>6, <2>2, <2>3
  <2>5. QED
    BY <1>2, <1>6, <2>1, <2>4
<1>8. rank(s[i]) < rank(t[i])
  <2>1. PICK j \in 1..n : t[i] = s[j]
    BY <1>3, <1>6
  <2>2. j # i
    BY <1>6, <2>1
  <2>3. ~(j < i)
    <3>1. SUFFICES ASSUME j < i PROVE FALSE
      OBVIOUS
    <3>2. t[j] = t[i] /\ rank(t[j]) < rank(t[i])
      BY <1>2, <1>6, <2>1, <3>1
    <3>3. QED
      BY <1>2, <1>6, <3>2
  <2>4. i < j
    BY <1>1, <1>6, <2>2, <2>3
  <2>5. QED
    BY <1>2, <1>6, <2>1, <2>4
<1>9. QED
  BY <1>2, <1>6, <1>7, <1>8

-----------------------------------------------------------------------------
(* The theorems.                                                           *)

\* A registry has at most one provider for each path of its load, all of them
\* descriptors, every diagnostic is an error or a warning, and a load has read
\* just the paths it has taken off its queue (ProviderManifestCatalog.LoadFilesAsync).
THEOREM TypeCorrect == Spec => []TypeOK
<1>1. IInv => TypeOK
  <2> SUFFICES ASSUME IInv PROVE TypeOK
    OBVIOUS
  <2>1. ASSUME NEW l \in Loads
        PROVE  /\ Len(providers[l]) <= Cardinality(requested[l])
               /\ \A i \in DOMAIN providers[l] : IsDescriptor(providers[l][i])
               /\ \A d \in diagnostics[l] : d.severity \in {"Error", "Warning"}
               /\ DOMAIN seen[l] = requested[l] \ ToSet(todo[l])
               /\ todo[l] \in Seq(Paths) /\ requested[l] \in SUBSET Paths
    <3>1. /\ QueueInv(todo[l], requested[l]) /\ IsRead(seen[l])
          /\ DOMAIN seen[l] = requested[l] \ ToSet(todo[l])
          /\ ListInv(providers[l], seen[l], options[l])
          /\ \/ diagnostics[l] = Notes(seen[l], options[l])
             \/ diagnostics[l] = Notes(seen[l], options[l]) \cup Duplicates(providers[l])
      BY DEF IInv, LoadInv, ReadInv
    <3>2. Len(providers[l]) <= Cardinality(requested[l])
      BY <3>1, ListSize DEF QueueInv
    <3>3. \A i \in DOMAIN providers[l] : IsDescriptor(providers[l][i])
      BY <3>1, ListElements
    <3>4. \A d \in diagnostics[l] : d.severity \in {"Error", "Warning"}
      BY <3>1, NotesFacts, DuplicatesFacts
    <3>5. QED
      BY <3>1, <3>2, <3>3, <3>4 DEF QueueInv
  <2>2. Shapes
    BY DEF IInv
  <2>3. todo \in [Loads -> Seq(Paths)] /\ requested \in [Loads -> SUBSET Paths]
    BY <2>1, <2>2 DEF Shapes
  <2>4. QED
    BY <2>1, <2>2, <2>3 DEF TypeOK, Shapes
<1>2. QED
  BY <1>1, Invariance, PTL

-----------------------------------------------------------------------------
(* A finished load.                                                        *)

\* What is valid, in the words of the property and of the invariant.
LEMMA ValidIsAccepted ==
  ASSUME NEW l, NEW path \in DOMAIN seen[l]
  PROVE  ValidManifest(l, path) <=> path \in Accepted(seen[l], options[l])
BY DEF ValidManifest, Accepted, Entry

\* A finished load has read every path, and none of them threw.
LEMMA DoneFacts ==
  ASSUME IInv, NEW l \in Loads, pc[l] = "done"
  PROVE  /\ requested[l] \in SUBSET Paths /\ DOMAIN seen[l] = requested[l] /\ IsRead(seen[l])
         /\ ListInv(providers[l], seen[l], options[l])
         /\ \A p \in requested[l] : seen[l][p].kind \notin Uncaught
         /\ diagnostics[l] = Notes(seen[l], options[l]) \cup Duplicates(providers[l])
         /\ result[l].succeeded <=> \A d \in diagnostics[l] : d.severity # "Error"
         /\ result[l].providers = providers[l]
<1>1. QueueInv(todo[l], requested[l]) /\ ReadInv(l)
  BY DEF IInv, LoadInv
<1>2. todo[l] = <<>> /\ ToSet(<<>>) = {}
  BY <1>1 DEF ReadInv, ToSet
<1>3. DOMAIN seen[l] = requested[l]
  BY <1>1, <1>2 DEF ReadInv
<1>4. /\ result[l].succeeded <=> \A d \in diagnostics[l] : d.severity # "Error"
      /\ result[l].providers = providers[l]
  BY <1>1 DEF ReadInv
<1>5. /\ requested[l] \in SUBSET Paths /\ IsRead(seen[l])
      /\ ListInv(providers[l], seen[l], options[l])
      /\ diagnostics[l] = Notes(seen[l], options[l]) \cup Duplicates(providers[l])
  BY <1>1 DEF ReadInv, QueueInv
<1>6. \A p \in requested[l] : seen[l][p].kind \notin Uncaught
  BY <1>1, <1>3 DEF ReadInv
<1>7. QED
  BY <1>3, <1>4, <1>5, <1>6

\* A load succeeds when everything was accepted and no identifier repeats.
LEMMA SuccessFacts ==
  ASSUME IInv, NEW l \in Loads, pc[l] = "done"
  PROVE  result[l].succeeded <=>
           /\ \A p \in requested[l] : p \in Accepted(seen[l], options[l])
           /\ \A p, q \in requested[l] : p # q =>
                seen[l][p].descriptor.providerId # seen[l][q].descriptor.providerId
<1> DEFINE read == seen[l]
           opts == options[l]
           list == providers[l]
           Id(p) == read[p].descriptor.providerId
<1>1. /\ DOMAIN read = requested[l] /\ IsRead(read) /\ ListInv(list, read, opts)
      /\ \A p \in requested[l] : read[p].kind \notin Uncaught
      /\ diagnostics[l] = Notes(read, opts) \cup Duplicates(list)
      /\ result[l].succeeded <=> \A d \in diagnostics[l] : d.severity # "Error"
  BY DoneFacts
<1> HIDE DEF read, opts, list
<1>2. (\E d \in Notes(read, opts) : d.severity = "Error") <=>
         \E p \in requested[l] : p \notin Accepted(read, opts)
  BY <1>1, NotesFacts
<1>3. (\E d \in Duplicates(list) : d.severity = "Error") <=>
         \E p, q \in Accepted(read, opts) : p # q /\ Id(p) = Id(q)
  BY <1>1, DuplicatesFacts, ListIdentifiers
<1>4. \A p \in Accepted(read, opts) : p \in requested[l]
  BY <1>1, AcceptedWereRead
<1>5. result[l].succeeded <=> /\ ~\E d \in Notes(read, opts) : d.severity = "Error"
                              /\ ~\E d \in Duplicates(list) : d.severity = "Error"
  BY <1>1
<1>6. QED
  BY <1>2, <1>3, <1>4, <1>5 DEF read, opts

\* However many files are loaded, edited and repeated: a finished load reports
\* success exactly for valid manifests with distinct identifiers, gives every
\* file a provider or an error of its own, and a load ends by an exception at
\* the first file it reads for which the loader has no handler, and for no other
\* reason (ProviderManifestCatalog.LoadFilesAsync, ProviderManifestLoader.cs:99
\* and :145).
THEOREM EveryFileIsAccountedForCorrect == Spec => []EveryFileIsAccountedFor
<1>1. IInv => SuccessMeansEveryFileCounts
  <2> SUFFICES ASSUME IInv, NEW l \in Loads, pc[l] = "done"
               PROVE  LET Id(path) == seen[l][path].descriptor.providerId IN
                      /\ result[l].succeeded <=>
                           /\ \A path \in requested[l] : ValidManifest(l, path)
                           /\ \A p, q \in requested[l] : p # q => Id(p) # Id(q)
                      /\ result[l].succeeded =>
                           /\ Len(result[l].providers) = Cardinality(requested[l])
                           /\ {d.source : d \in ToSet(result[l].providers)} = requested[l]
    BY DEF SuccessMeansEveryFileCounts
  <2>1. /\ requested[l] \in SUBSET Paths /\ DOMAIN seen[l] = requested[l] /\ IsRead(seen[l])
        /\ ListInv(providers[l], seen[l], options[l]) /\ result[l].providers = providers[l]
    BY DoneFacts
  <2>2. \A p \in requested[l] : ValidManifest(l, p) <=> p \in Accepted(seen[l], options[l])
    BY <2>1, ValidIsAccepted
  <2>3. ASSUME result[l].succeeded
        PROVE  /\ Len(providers[l]) = Cardinality(requested[l])
               /\ {d.source : d \in ToSet(providers[l])} = requested[l]
    <3>1. Accepted(seen[l], options[l]) = requested[l]
      BY <2>1, <2>3, SuccessFacts, AcceptedWereRead
    <3>2. Len(providers[l]) = Cardinality(requested[l])
      BY <2>1, <3>1, ListSize
    <3>3. \A i \in DOMAIN providers[l] : providers[l][i].source \in requested[l]
      BY <2>1, <3>1, ListElements
    <3>4. \A p \in requested[l] : \E i \in DOMAIN providers[l] : providers[l][i].source = p
      BY <2>1, <3>1 DEF ListInv
    <3>5. QED
      BY <3>2, <3>3, <3>4 DEF ToSet
  <2>4. QED
    BY <2>1, <2>2, <2>3, SuccessFacts
<1>2. IInv => NoFileIsLostSilently
  <2> SUFFICES ASSUME IInv, NEW l \in Loads, pc[l] = "done", NEW path \in requested[l]
               PROVE  (\E d \in ToSet(result[l].providers) : d.source = path) <=>
                        ~(\E d \in diagnostics[l] :
                            /\ d.severity = "Error" /\ d.source = path
                            /\ d.code # "PROVIDER_MANIFEST_DUPLICATE_PROVIDER_ID")
    BY DEF NoFileIsLostSilently
  <2> DEFINE read == seen[l]
             opts == options[l]
             list == providers[l]
  <2>1. /\ DOMAIN read = requested[l] /\ IsRead(read) /\ ListInv(list, read, opts)
        /\ read[path].kind \notin Uncaught /\ result[l].providers = list
        /\ diagnostics[l] = Notes(read, opts) \cup Duplicates(list)
    BY DoneFacts
  <2> HIDE DEF read, opts, list
  <2>2. (\E d \in ToSet(list) : d.source = path) <=> path \in Accepted(read, opts)
    <3>1. \A i \in DOMAIN list : list[i].source \in Accepted(read, opts)
      BY <2>1, ListElements
    <3>2. \A p \in Accepted(read, opts) : \E i \in DOMAIN list : list[i].source = p
      BY <2>1 DEF ListInv
    <3>3. QED
      BY <3>1, <3>2 DEF ToSet
  <2>3. path \notin Accepted(read, opts) <=> \E d \in Notes(read, opts) : d.source = path
    BY <2>1, NotesFacts
  <2>4. \A d \in Notes(read, opts) : /\ d.severity = "Error"
                                     /\ d.code # "PROVIDER_MANIFEST_DUPLICATE_PROVIDER_ID"
    BY <2>1, NotesFacts
  <2>5. \A d \in Duplicates(list) :
           d.severity = "Error" => d.code = "PROVIDER_MANIFEST_DUPLICATE_PROVIDER_ID"
    BY DuplicatesFacts
  <2>6. QED
    BY <2>1, <2>2, <2>3, <2>4, <2>5
<1>3. IInv => FaultsAreUncaughtErrors
  <2> SUFFICES ASSUME IInv, NEW l \in Loads
               PROVE  LET uncaught == {path \in DOMAIN seen[l] : seen[l][path].kind \in Uncaught}
                      IN  /\ pc[l] = "faulted" <=> uncaught # {}
                          /\ \A p, q \in uncaught : p = q
    BY DEF FaultsAreUncaughtErrors
  <2>1. /\ pc[l] = "faulted" <=> \E p \in DOMAIN seen[l] : seen[l][p].kind \in Uncaught
        /\ \A p, q \in DOMAIN seen[l] :
             {seen[l][p].kind, seen[l][q].kind} \subseteq Uncaught => p = q
    BY DEF IInv, LoadInv, ReadInv
  <2>2. QED
    BY <2>1
<1>4. QED
  BY <1>1, <1>2, <1>3, Invariance, PTL DEF EveryFileIsAccountedFor

\* Success is TRUE or FALSE.
LEMMA SuccessIsBoolean ==
  ASSUME IInv, NEW l \in Loads, pc[l] = "done"
  PROVE  result[l].succeeded \in BOOLEAN
<1>1. result[l] = [succeeded |-> \A d \in diagnostics[l] : d.severity # "Error",
                   providers |-> providers[l]]
  BY DEF IInv, LoadInv, ReadInv
<1>2. QED
  BY <1>1

\* Loads that found the same files accepted the same ones.
LEMMA SameReading ==
  ASSUME NEW read, NEW other, DOMAIN read = DOMAIN other,
         \A p \in DOMAIN read : read[p] = other[p], NEW opts
  PROVE  Accepted(read, opts) = Accepted(other, opts) /\ Entries(read, opts) = Entries(other, opts)
<1>1. \A p \in DOMAIN read : Entry(read, p) = Entry(other, p)
  BY DEF Entry
<1>2. Accepted(read, opts) = Accepted(other, opts)
  BY <1>1 DEF Accepted
<1>3. \A p \in Accepted(read, opts) : Entry(read, p) = Entry(other, p)
  BY <1>1, AcceptedWereRead
<1>4. QED
  BY <1>2, <1>3 DEF Entries

\* In the list of a load that succeeded no identifier comes twice.
LEMMA SuccessDistinguishes ==
  ASSUME IInv, NEW l \in Loads, pc[l] = "done", result[l].succeeded
  PROVE  /\ \A e \in Entries(seen[l], options[l]) : Ordinal[e.providerId] \in Nat
         /\ \A i, j \in DOMAIN providers[l] :
              Ordinal[providers[l][i].providerId] = Ordinal[providers[l][j].providerId] => i = j
         /\ Len(providers[l]) = Cardinality(requested[l])
<1> DEFINE read == seen[l]
           opts == options[l]
           list == providers[l]
<1>1. /\ requested[l] \in SUBSET Paths /\ DOMAIN read = requested[l] /\ IsRead(read)
      /\ ListInv(list, read, opts)
  BY DoneFacts
<1>2. /\ \A p \in requested[l] : p \in Accepted(read, opts)
      /\ \A p, q \in requested[l] : p # q => read[p].descriptor.providerId # read[q].descriptor.providerId
  BY SuccessFacts
<1> HIDE DEF read, opts, list
<1>3. \A e \in Entries(read, opts) : e.providerId \in Strings
  <2>1. \A p \in Accepted(read, opts) : Entry(read, p).providerId \in Strings
    BY <1>1, EntryFacts DEF Accepted, IsDescriptor
  <2>2. QED
    BY <2>1 DEF Entries
<1>4. \A i \in DOMAIN list : list[i].providerId \in Strings
  BY <1>1, <1>3 DEF ListInv
<1>5. \A i, j \in DOMAIN list : list[i].providerId = list[j].providerId => i = j
  <2>1. \A p \in Accepted(read, opts) : p \in requested[l]
    BY <1>1, AcceptedWereRead
  <2>2. QED
    BY <1>1, <1>2, <2>1, ListIdentifiers
<1>6. Accepted(read, opts) = requested[l]
  BY <1>1, <1>2, AcceptedWereRead
<1>7. Len(list) = Cardinality(requested[l])
  BY <1>1, <1>6, ListSize
<1>8. \A i, j \in DOMAIN list : Ordinal[list[i].providerId] = Ordinal[list[j].providerId] => i = j
  BY <1>4, <1>5, OrdinalAssumption
<1>9. \A e \in Entries(read, opts) : Ordinal[e.providerId] \in Nat
  BY <1>3, OrdinalAssumption
<1>10. QED
  BY <1>7, <1>8, <1>9 DEF read, opts, list

\* Two loads of the same files under the same options agree on success and on
\* the manifests as long as nothing is edited, in whatever order the paths were
\* given, and whatever the unstable sort of the registry does with equal keys
\* (ProviderManifestCatalog.LoadFilesAsync, ProviderRegistry.Register).
THEOREM LoadsAgreeCorrect == Spec => []LoadsAgree
<1>1. IInv => LoadsAgree
  <2> SUFFICES ASSUME IInv, NEW k \in Loads, NEW l \in Loads, edits = 0,
                      pc[k] = "done", pc[l] = "done",
                      requested[k] = requested[l], options[k] = options[l]
               PROVE  /\ result[k].succeeded = result[l].succeeded
                      /\ result[k].succeeded => result[k].providers = result[l].providers
                      /\ ToSet(result[k].providers) = ToSet(result[l].providers)
    BY DEF LoadsAgree
  <2> DEFINE opts == options[l]
  <2>1. /\ DOMAIN seen[k] = requested[l] /\ IsRead(seen[k])
        /\ ListInv(providers[k], seen[k], opts) /\ result[k].providers = providers[k]
    BY DoneFacts
  <2>2. /\ DOMAIN seen[l] = requested[l] /\ IsRead(seen[l])
        /\ ListInv(providers[l], seen[l], opts) /\ result[l].providers = providers[l]
    BY DoneFacts
  <2>3. \A p \in requested[l] : seen[k][p] = seen[l][p]
    <3>1. \A p \in requested[l] : seen[k][p] = disk[p] /\ seen[l][p] = disk[p]
      BY <2>1, <2>2 DEF IInv, Fresh
    <3>2. QED
      BY <3>1
  <2>4. /\ Accepted(seen[k], opts) = Accepted(seen[l], opts)
        /\ Entries(seen[k], opts) = Entries(seen[l], opts)
    BY <2>1, <2>2, <2>3, SameReading
  <2>5. ToSet(providers[k]) = ToSet(providers[l])
    <3>1. ToSet(providers[k]) = Entries(seen[k], opts)
      BY <2>1, ListElements
    <3>2. ToSet(providers[l]) = Entries(seen[l], opts)
      BY <2>2, ListElements
    <3>3. QED
      BY <2>4, <3>1, <3>2
  <2>6. result[k].succeeded <=> result[l].succeeded
    <3>1. result[k].succeeded <=>
            /\ \A p \in requested[l] : p \in Accepted(seen[k], opts)
            /\ \A p, q \in requested[l] : p # q =>
                 seen[k][p].descriptor.providerId # seen[k][q].descriptor.providerId
      BY SuccessFacts
    <3>2. result[l].succeeded <=>
            /\ \A p \in requested[l] : p \in Accepted(seen[l], opts)
            /\ \A p, q \in requested[l] : p # q =>
                 seen[l][p].descriptor.providerId # seen[l][q].descriptor.providerId
      BY SuccessFacts
    <3>3. QED
      BY <2>3, <2>4, <3>1, <3>2
  <2>7. ASSUME result[k].succeeded PROVE providers[k] = providers[l]
    <3> DEFINE E == Entries(seen[l], opts)
               s == providers[k]
               t == providers[l]
    <3>1. s \in Seq(E) /\ t \in Seq(E) /\ Registry!Sorted(s) /\ Registry!Sorted(t)
      BY <2>1, <2>2, <2>4 DEF ListInv
    <3>2. /\ Len(s) = Cardinality(requested[l])
          /\ \A i, j \in DOMAIN s : Ordinal[s[i].providerId] = Ordinal[s[j].providerId] => i = j
      BY <2>7, SuccessDistinguishes
    <3>3. /\ Len(t) = Cardinality(requested[l])
          /\ \A i, j \in DOMAIN t : Ordinal[t[i].providerId] = Ordinal[t[j].providerId] => i = j
          /\ \A e \in E : Ordinal[e.providerId] \in Nat
      BY <2>6, <2>7, SuccessDistinguishes
    <3> HIDE DEF E, s, t
    <3>4. ToSet(s) = ToSet(t)
      BY <2>5 DEF s, t
    <3>5. s = t
      BY <3>1, <3>2, <3>3, <3>4, SortedListsAgree
    <3>6. QED
      BY <3>5 DEF s, t
  <2>8. result[k].succeeded = result[l].succeeded
    <3>1. result[k].succeeded \in BOOLEAN /\ result[l].succeeded \in BOOLEAN
      BY SuccessIsBoolean
    <3>2. QED
      BY <2>6, <3>1
  <2>9. QED
    BY <2>1, <2>2, <2>5, <2>7, <2>8
<1>2. QED
  BY <1>1, Invariance, PTL
=============================================================================
