------------------------- MODULE CapabilityContracts -------------------------
(***************************************************************************)
(* What the five *PythonBridge classes of the C# libraries offer to the    *)
(* Python package: they fill the settings of a provider from positional    *)
(* arguments and turn them into a capability contract.                     *)
(*                                                                         *)
(* A managed value is its kind and what it holds; a text is one string, a  *)
(* map is a function from keys to strings, a list is a sequence of         *)
(* strings.  The strings of the model have no blanks around them.          *)
(***************************************************************************)
EXTENDS Sequences

CONSTANTS
  AbsoluteUris,   \* texts that new Uri accepts
  WithoutSlash    \* absolute URI -> the URI without its trailing slash

Managed(kind, text) == [kind |-> kind, items |-> [value |-> text]]
Text(text) == Managed("string", text)
Null == [kind |-> "null", items |-> << >>]
Map(items) == [kind |-> "map", items |-> items]
List(items) == [kind |-> "list", items |-> items]

IsNull(value) == value.kind = "null"
NullOrBlank(value) == IF IsNull(value) THEN TRUE ELSE value.items.value = ""

-----------------------------------------------------------------------------
\* Settings as their default constructors leave them.

ChatOpenAIDefaults ==
  [ProviderId |-> Text("providers.openai"), Name |-> Text("Chat OpenAI Provider"),
   Version |-> Text("0.1.1"), Endpoint |-> Managed("Uri", "https://api.openai.com/v1"),
   Model |-> Text("gpt-4.1-mini"), EmbeddingModel |-> Null, ApiKey |-> Null]

ChatHistoryDefaults ==
  [ProviderId |-> Text("chat-history"), Name |-> Text("Chat History Provider"),
   Version |-> Text("0.1.1"),
   SourceUri |-> Text("rom://providers/chat-history/history.json"), ArtifactHash |-> Null]

CudaComputeDefaults ==
  [ProviderId |-> Text("providers.cuda"), Name |-> Text("CUDA Compute Provider"),
   Version |-> Text("0.1.1"), DeviceProfile |-> Text("cuda13"),
   BackendName |-> Text("cuda13.0"), BackendVersion |-> Text("13.0"),
   PackageId |-> Text("aikernel-cuda13"), ModuleId |-> Text("libtorch_bridge"),
   AbiVersion |-> Text("1.0"), MaxDeviceMemoryBytes |-> Null,
   NativeModuleRef |-> Text("aikernel-cuda://cuda13.0/modules/libtorch_bridge"),
   EntryPoint |-> Text("libtorch_bridge"),
   LoaderJson |-> Text("rom://providers/cuda/loader.json"), ArtifactHash |-> Null]

DynamicPipelineCompilerDefaults ==
  [ProviderId |-> Text("providers.dynamic-pipeline"),
   Name |-> Text("Dynamic Pipeline Compiler Provider"), Version |-> Text("0.1.1"),
   DslSchemaVersion |-> Text("0.1"),
   DslSchemaUri |-> Text("rom://providers/dynamic-pipeline/schema.json")]

LocalLlmDefaults ==
  [ProviderId |-> Text("providers.local-llm"), Name |-> Text("Local LLM Provider"),
   Version |-> Text("0.1.1"), Runtime |-> Text("ollama"),
   RuntimeUri |-> Text("ollama://localhost"), ArtifactHash |-> Null]

Families == {"ChatOpenAI", "ChatHistory", "CudaCompute", "DynamicPipelineCompiler", "LocalLlm"}

Defaults(family) ==
  CASE family = "ChatOpenAI" -> ChatOpenAIDefaults
    [] family = "ChatHistory" -> ChatHistoryDefaults
    [] family = "CudaCompute" -> CudaComputeDefaults
    [] family = "DynamicPipelineCompiler" -> DynamicPipelineCompilerDefaults
    [] family = "LocalLlm" -> LocalLlmDefaults

-----------------------------------------------------------------------------
\* ToMetadata: optional entries are left out when there is nothing in them.

Entries(all, optional) ==
  [key \in {k \in DOMAIN all : k \in optional => ~NullOrBlank(all[k])} |-> all[key].items.value]

ChatOpenAIMetadata(s) ==
  Entries([endpoint |-> Text(WithoutSlash[s.Endpoint.items.value]), model |-> s.Model,
           version |-> s.Version, embedding_model |-> s.EmbeddingModel],
          {"embedding_model"})

ChatHistoryMetadata(s) ==
  Entries([version |-> s.Version, source_uri |-> s.SourceUri,
           artifact_hash |-> s.ArtifactHash],
          {"source_uri", "artifact_hash"})

CudaComputeMetadata(s) ==
  Entries([backend |-> s.BackendName, backend_id |-> s.BackendName,
           device_profile |-> s.DeviceProfile, entry_point |-> s.EntryPoint,
           module_id |-> s.ModuleId, native_module_ref |-> s.NativeModuleRef,
           version |-> s.Version, abi_version |-> s.AbiVersion,
           backend_version |-> s.BackendVersion, package_id |-> s.PackageId,
           max_device_memory_bytes |-> s.MaxDeviceMemoryBytes,
           loader_json |-> s.LoaderJson, artifact_hash |-> s.ArtifactHash],
          {"abi_version", "backend_version", "package_id", "max_device_memory_bytes",
           "loader_json", "artifact_hash"})

DynamicPipelineCompilerMetadata(s) ==
  Entries([dsl_schema_version |-> s.DslSchemaVersion, version |-> s.Version,
           dsl_schema_uri |-> s.DslSchemaUri],
          {"dsl_schema_uri"})

LocalLlmMetadata(s) ==
  Entries([runtime |-> s.Runtime, version |-> s.Version, runtime_uri |-> s.RuntimeUri,
           artifact_hash |-> s.ArtifactHash],
          {"runtime_uri", "artifact_hash"})

ToMetadata(family, s) ==
  CASE family = "ChatOpenAI" -> ChatOpenAIMetadata(s)
    [] family = "ChatHistory" -> ChatHistoryMetadata(s)
    [] family = "CudaCompute" -> CudaComputeMetadata(s)
    [] family = "DynamicPipelineCompiler" -> DynamicPipelineCompilerMetadata(s)
    [] family = "LocalLlm" -> LocalLlmMetadata(s)

-----------------------------------------------------------------------------
\* ToContract of the *CapabilityContracts classes.  Entry point, loader and
\* hash of the descriptor are left out: no view of Python shows them.

\* GetRequiredMetadataValue
VersionOf(metadata) ==
  IF "version" \in DOMAIN metadata /\ metadata["version"] # "" THEN metadata["version"]
  ELSE "0.1.1"

Descriptor(id, metadata, name, kind, mode, operations, permissions) ==
  [CapabilityId |-> id, Name |-> Text(name), Kind |-> Managed("enum", kind),
   InvocationMode |-> Managed("enum", mode), Version |-> Text(VersionOf(metadata)),
   ProvidedOperations |-> List(operations), RequiredPermissions |-> List(permissions),
   Metadata |-> Map(metadata)]

ChatOpenAIContract(id, metadata) ==
  Descriptor(id, metadata, "Chat OpenAI Provider", "RemoteEndpoint", "Remote",
             << "chat.completion", "embedding", "moderation" >>,
             << "network.egress", "llm.remote" >>)

ChatHistoryContract(id, metadata) ==
  Descriptor(id, metadata, "Chat History Provider", "ManagedAssembly", "AssemblyReference",
             << "chat.history.read", "chat.history.filter", "chat.history.latest" >>,
             << "history.read", "chat.read" >>)

CudaComputeContract(id, metadata) ==
  Descriptor(id, metadata, "CUDA Compute Provider", "NativeLibrary", "NativeAbi",
             << "tensor.matmul", "tensor.softmax", "tensor.conv2d", "tensor.layernorm" >>,
             << "native.load", "tensor.compute" >>)

DynamicPipelineCompilerContract(id, metadata) ==
  Descriptor(id, metadata, "Dynamic Pipeline Compiler Provider", "ManagedAssembly",
             "AssemblyReference",
             << "pipeline.compile", "pipeline.execute", "pipeline.validate" >>,
             << "dsl.read", "capability.register" >>)

LocalLlmContract(id, metadata) ==
  Descriptor(id, metadata, "Local LLM Provider", "ManagedAssembly", "AssemblyReference",
             << "chat.local", "embedding.local" >>, << "local.process", "llm.local" >>)

ContractOf(family, id, metadata) ==
  CASE family = "ChatOpenAI" -> ChatOpenAIContract(id, metadata)
    [] family = "ChatHistory" -> ChatHistoryContract(id, metadata)
    [] family = "CudaCompute" -> CudaComputeContract(id, metadata)
    [] family = "DynamicPipelineCompiler" -> DynamicPipelineCompilerContract(id, metadata)
    [] family = "LocalLlm" -> LocalLlmContract(id, metadata)

-----------------------------------------------------------------------------
\* The bridges: what CreateProvider and CreateInvoker make, and what each
\* positional parameter of ToContract is assigned to.

PythonBridge(namespace, name, provider, invoker, parameters) ==
  [type |-> << namespace, name >>, CreateProvider |-> << namespace, provider >>,
   CreateInvoker |-> << namespace, invoker >>, ToContract |-> parameters]

ChatOpenAIPythonBridge ==
  PythonBridge("AIKernel.Providers.ChatOpenAI", "ChatOpenAIPythonBridge",
    "ChatOpenAIProvider", "ChatOpenAIInvoker", << "ProviderId", "Model", "Endpoint" >>)

ChatHistoryPythonBridge ==
  PythonBridge("AIKernel.Providers.ChatHistory", "ChatHistoryPythonBridge",
    "ChatHistoryProvider", "ChatHistoryInvoker", << "ProviderId" >>)

CudaComputePythonBridge ==
  PythonBridge("AIKernel.Providers.CudaCompute", "CudaComputePythonBridge",
    "CudaComputeProvider", "CudaComputeInvoker", << "ProviderId", "DeviceProfile" >>)

DynamicPipelineCompilerPythonBridge ==
  PythonBridge("AIKernel.Providers.DynamicPipelineCompiler",
    "DynamicPipelineCompilerPythonBridge", "DynamicPipelineCompilerProvider",
    "DynamicPipelineCompilerInvoker", << "ProviderId", "DslSchemaVersion" >>)

LocalLlmPythonBridge ==
  PythonBridge("AIKernel.Providers.LocalLlm", "LocalLlmPythonBridge",
    "LocalLlmProvider", "LocalLlmInvoker", << "ProviderId", "Runtime" >>)

Bridge(family) ==
  CASE family = "ChatOpenAI" -> ChatOpenAIPythonBridge
    [] family = "ChatHistory" -> ChatHistoryPythonBridge
    [] family = "CudaCompute" -> CudaComputePythonBridge
    [] family = "DynamicPipelineCompiler" -> DynamicPipelineCompilerPythonBridge
    [] family = "LocalLlm" -> LocalLlmPythonBridge

Parameters(family) == Bridge(family).ToContract

\* new Uri(endpoint) refuses what is not absolute.
Accepted(family, arguments) ==
  \A i \in DOMAIN arguments :
    Parameters(family)[i] = "Endpoint" => arguments[i] \in AbsoluteUris

GivenSettings(family, arguments) ==
  [member \in DOMAIN Defaults(family) |->
     IF \E i \in DOMAIN arguments : Parameters(family)[i] = member
     THEN LET i == CHOOSE i \in DOMAIN arguments : Parameters(family)[i] = member
          IN  Managed(Defaults(family)[member].kind, arguments[i])
     ELSE Defaults(family)[member]]

\* ToContract: settings, then descriptor, then contract.
ToContract(family, arguments) ==
  LET settings == GivenSettings(family, arguments)
  IN  ContractOf(family, settings.ProviderId, ToMetadata(family, settings))
=============================================================================
