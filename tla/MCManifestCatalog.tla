-------------------------- MODULE MCManifestCatalog --------------------------
(* ManifestCatalog for TLC: two files, which between them can be valid,     *)
(* share an identifier, share a capability, miss a field, miss their        *)
(* capabilities, or be no manifest in each of the ways the loader knows.    *)
EXTENDS ManifestCatalog, TLC

MCStrings == {"", "1", "a", "b", "p", "q", "x"}
InOrder == << "", "1", "a", "b", "p", "q", "x" >>
MCOrdinal == [s \in MCStrings |-> CHOOSE i \in DOMAIN InOrder : InOrder[i] = s]

Manifest(id, name, capabilities) ==
  [kind |-> "manifest",
   descriptor |->
     [providerId |-> id, name |-> name, version |-> "1", assembly |-> "x",
      schemaVersion |-> "1", source |-> "", priority |-> 0,
      capabilities |-> capabilities, tags |-> {}, metadata |-> <<>>,
      backendMetadata |-> <<>>, vendorMetadata |-> <<>>, backends |-> <<>>]]

NotManifest(kind) == [kind |-> kind]

Readable == {Manifest("a", "a", {"chat"}), Manifest("b", "b", {"chat"}),
             Manifest("b", "", {"chat"}), Manifest("a", "a", {})}
MCContents == Readable \cup {NotManifest(k) : k \in NoManifestKinds}

MCPaths == {"p", "q"}
MCInputs == {<<"q", "", "p", "q">>, <<"p", "q">>, <<"p">>, <<>>}
MCOptionSets == {DefaultOptions, [DefaultOptions EXCEPT !.requireCapabilities = TRUE]}

Symmetry == Permutations(Loads)
=============================================================================
