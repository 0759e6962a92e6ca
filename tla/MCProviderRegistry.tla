------------------------- MODULE MCProviderRegistry -------------------------
(* ProviderRegistry for TLC: manifests chosen so that priority,             *)
(* availability, backend preference, identifier and source each decide      *)
(* somewhere, two of them tie in the list order only and two in the whole   *)
(* route key.                                                               *)
EXTENDS ProviderRegistry

MCStrings == {"", "a", "b", "c", "1", "2", "x", "y", "p", "q", "cpu", "gpu",
              "local", "remote", "available", "down"}
InOrder == << "", "1", "2", "a", "available", "b", "c", "cpu", "down", "gpu",
              "local", "p", "q", "remote", "x", "y" >>
MCOrdinal == [s \in MCStrings |-> CHOOSE i \in DOMAIN InOrder : InOrder[i] = s]

Manifest(id, version, assembly, source, capabilities) ==
  [providerId |-> id, name |-> id, version |-> version, assembly |-> assembly,
   schemaVersion |-> "1", source |-> source, priority |-> 0,
   capabilities |-> capabilities, tags |-> {}, metadata |-> <<>>,
   backendMetadata |-> <<>>, vendorMetadata |-> <<>>, backends |-> <<>>]

Backend(name, kind, rank, capabilities) ==
  [name |-> name, kind |-> kind, rank |-> rank, capabilities |-> capabilities,
   metadata |-> <<>>]

\* a has one backend and says that it is down; vendor metadata has the last word.
A == [Manifest("a", "1", "x", "p", {"chat"}) EXCEPT
        !.metadata = [availability |-> "down", backend |-> "cpu"],
        !.vendorMetadata = [backend |-> "gpu"]]
\* The same package under another path, and the same file after an edit.
AOtherPath == [A EXCEPT !.source = "q", !.capabilities = {"chat", "embed"}]
AEdited    == [A EXCEPT !.tags = {"eu"}]
\* Two backends of which the better ranked one is down, as in a failover pair.
B == [Manifest("b", "1", "x", "p", {"chat", "embed"}) EXCEPT
        !.backends = << Backend("cpu", "local", 1, {}),
                        [Backend("gpu", "remote", 0, {"chat"}) EXCEPT
                           !.metadata = [availability |-> "down"]] >>,
        !.tags = {"eu"}]
\* The declared capability is served by none of its backends.
C == [Manifest("c", "1", "x", "p", {"chat"}) EXCEPT
        !.backends = << Backend("cpu", "local", 0, {"embed"}) >>,
        !.tags = {"eu"}]
\* Preferred by its priority, and another assembly of b.
BOtherAssembly == [Manifest("b", "1", "y", "q", {"embed"}) EXCEPT !.priority = -1]
Invalid == [Manifest("a", "2", "x", "p", {"chat"}) EXCEPT !.name = ""]

MCManifests == {Null, A, AOtherPath, AEdited, B, C, BOtherAssembly, Invalid}

NoHints == [backend |-> "", order |-> <<>>, preferLocal |-> FALSE]
Policy(capability) ==
  [capability |-> capability, preferred |-> "", tags |-> {}, hints |-> NoHints,
   fallback |-> [enabled |-> FALSE, ids |-> <<>>]]
Strict(policy) == [mode |-> "Strict", policy |-> policy]
WithFallback(mode, policy, ids) ==
  [mode |-> mode, policy |-> [policy EXCEPT !.fallback = [enabled |-> TRUE, ids |-> ids]]]

MCRequests ==
  { Strict(Policy("")), Strict(Policy("chat")), Strict(Policy("embed")),
    Strict([Policy("chat") EXCEPT !.preferred = "b"]),
    Strict([Policy("chat") EXCEPT !.tags = {"eu"}]),
    Strict([Policy("chat") EXCEPT !.hints = [NoHints EXCEPT !.backend = "gpu"]]),
    Strict([Policy("chat") EXCEPT !.hints = [NoHints EXCEPT !.order = <<"gpu", "cpu">>]]),
    Strict([Policy("chat") EXCEPT !.hints = [NoHints EXCEPT !.preferLocal = TRUE]]),
    WithFallback("Strict", Policy("embed"), <<>>),
    WithFallback("ExplicitFallback", Policy("embed"), <<>>),
    WithFallback("ExplicitFallback", Policy("embed"), <<"", "c", "a">>),
    WithFallback("ExplicitFallback", [Policy("speech") EXCEPT !.tags = {"eu"}], <<"b">>),
    WithFallback("Unknown", Policy("embed"), <<"c">>) }
=============================================================================
