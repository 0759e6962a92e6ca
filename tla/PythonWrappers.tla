---------------------------- MODULE PythonWrappers ----------------------------
(***************************************************************************)
(* The wrapper classes of the Python package.  A wrapper names a managed   *)
(* type and an assembly in strings, creates the object by reflection, and  *)
(* shows its members under names and types of its own: every name, every   *)
(* position of an argument and every conversion is written down twice, in  *)
(* Python and in C#, and nothing but a run compares the two.               *)
(*                                                                         *)
(* What C# declares is taken from ManagedCatalog; for what the catalogue   *)
(* leaves out (properties with an expression body) it is listed here.      *)
(* Whether a load works at all is the question of ProviderRuntime: here    *)
(* the assemblies of _ASSEMBLIES are loaded.                               *)
(***************************************************************************)
EXTENDS ManagedCatalog, CapabilityContracts

CONSTANTS
  Texts,      \* texts that a caller passes or a managed object holds
  UriTexts    \* those that stand for URIs

ASSUME WrapperAssumption ==
  /\ AbsoluteUris \subseteq DOMAIN WithoutSlash
  /\ Texts # {}

VARIABLES
  held,      \* wrapper in the caller's hands: at most one
  contract,  \* capability contract in the caller's hands: at most one
  last       \* the last call: what was asked of what, and the answer

surfaceVars == << held, contract, last >>

\* Two records in one; a field of both is that of the first.
f ++ g == [x \in DOMAIN f \cup DOMAIN g |-> IF x \in DOMAIN f THEN f[x] ELSE g[x]]

-----------------------------------------------------------------------------
\* Conversions of managed values to Python values.

Python(kind, items) == [kind |-> kind, items |-> items]
Raised(error) == Python("error", << error >>)

\* str(value) forgotten: the managed value itself.
AsStr_Raw(v) == v

\* str(value)
AsStr(v) == IF IsNull(v) THEN Python("str", [value |-> "None"]) ELSE Python("str", v.items)

AsInt(v) == IF v.kind = "int" THEN Python("int", v.items) ELSE Raised("TypeError")

\* bool(value): False of None and of False.
AsBool(v) ==
  IF v.kind = "bool" THEN Python("bool", v.items)
  ELSE Python("bool", [value |-> IF IsNull(v) THEN "false" ELSE "true"])

\* tuple(str(item) for item in value)
AsTuple(v) == IF v.kind = "list" THEN Python("tuple", v.items) ELSE Raised("TypeError")

\* to_python_dict
to_python_dict(v) == IF v.kind = "map" THEN Python("dict", v.items) ELSE Raised("TypeError")

\* A history, reduced to one message.
ChatMessage(message) ==
  [role |-> message.Role, content |-> message.Content, timestamp |-> message.Timestamp]

Convert(as, v) ==
  CASE as = "str" -> AsStr(v)
    [] as = "str | None" -> IF IsNull(v) THEN Python("NoneType", << >>) ELSE AsStr(v)
    [] as = "int" -> AsInt(v)
    [] as = "int | None" -> IF IsNull(v) THEN Python("NoneType", << >>) ELSE AsInt(v)
    [] as = "bool" -> AsBool(v)
    [] as = "tuple" -> AsTuple(v)
    [] as = "dict" -> to_python_dict(v)
    [] as = "messages" -> Python("tuple", ChatMessage(v.items))
    [] as = "wrapper" -> Python("wrapper", v.items)
    [] as = "managed" -> Python("managed", v.items)

-----------------------------------------------------------------------------
\* How a wrapper is described.

Read(member, as) == [member |-> member, as |-> as]
Str(member) == Read(member, "str")
StrOrNone(member) == Read(member, "str | None")
Bool(member) == Read(member, "bool")
Tuple(member) == Read(member, "tuple")

Identity == [provider_id |-> Str("ProviderId"), name |-> Str("Name"), version |-> Str("Version")]
Metadata == [to_metadata |-> Read("ToMetadata", "dict")]

Wrapper(type, assembly, make, reads) ==
  [type |-> type, assembly |-> assembly, make |-> make, reads |-> reads]

\* create: Activator.CreateInstance with so many arguments, a static method
\* of some type through call_static, or no create at all.
Activate(arguments) == [way |-> "activate", type |-> << >>, method |-> "none", arguments |-> arguments]
CallStatic(type, method, arguments) ==
  [way |-> "static", type |-> type, method |-> method, arguments |-> arguments]
Given == [way |-> "given", type |-> << >>, method |-> "none", arguments |-> 0]

\* A capability: a dataclass that passes its fields to the bridge, in order.
Capability(bridge, assembly, family, fields, defaults) ==
  [bridge |-> bridge, assembly |-> assembly, family |-> family,
   fields |-> fields, defaults |-> defaults]

-----------------------------------------------------------------------------
\* chat_openai.py

OpenAIType(name) == << "AIKernel.Providers.ChatOpenAI", name >>

CapabilityContract ==
  Wrapper(<< "AIKernel.Dtos.Capabilities", "CapabilityModuleDescriptor" >>, "AIKernel.Dtos", Given,
    [capability_id |-> Str("CapabilityId"), name |-> Str("Name"), kind |-> Str("Kind"),
     invocation_mode |-> Str("InvocationMode"), version |-> Str("Version"),
     provided_operations |-> Tuple("ProvidedOperations"),
     required_permissions |-> Tuple("RequiredPermissions"),
     metadata |-> Read("Metadata", "dict")])

ChatOpenAICapability ==
  Capability(OpenAIType("ChatOpenAIPythonBridge"), "ChatOpenAIProvider", "ChatOpenAI",
    << "provider_id", "model", "endpoint" >>,
    [model |-> "gpt-4o", endpoint |-> "https://api.openai.com/v1"])

\* A missing embedding model read as if there were one.
ChatOpenAISettings_EmbeddingModelAsStr ==
  Wrapper(OpenAIType("ChatOpenAISettings"), "ChatOpenAIProvider", Activate(0),
    Identity ++ Metadata ++
    [endpoint |-> Str("Endpoint"), model |-> Str("Model"),
     embedding_model |-> Str("EmbeddingModel"), api_key |-> StrOrNone("ApiKey")])

ChatOpenAISettings ==
  Wrapper(OpenAIType("ChatOpenAISettings"), "ChatOpenAIProvider", Activate(0),
    Identity ++ Metadata ++
    [endpoint |-> Str("Endpoint"), model |-> Str("Model"),
     embedding_model |-> StrOrNone("EmbeddingModel"), api_key |-> StrOrNone("ApiKey")])

ChatOpenAIProvider ==
  Wrapper(OpenAIType("ChatOpenAIProvider"), "ChatOpenAIProvider",
    CallStatic(OpenAIType("ChatOpenAIPythonBridge"), "CreateProvider", 0), Identity)

ChatOpenAIInvoker ==
  Wrapper(OpenAIType("ChatOpenAIInvoker"), "ChatOpenAIProvider",
    CallStatic(OpenAIType("ChatOpenAIPythonBridge"), "CreateInvoker", 0), << >>)

ChatOpenAIClient == Wrapper(OpenAIType("ChatOpenAIClient"), "ChatOpenAIProvider", Given, << >>)

-----------------------------------------------------------------------------
\* chat_history.py

HistoryType(name) == << "AIKernel.Providers.ChatHistory", name >>

ChatHistoryCapability ==
  Capability(HistoryType("ChatHistoryPythonBridge"), "ChatHistoryProvider", "ChatHistory",
    << "provider_id" >>, << >>)

ChatHistorySettings ==
  Wrapper(HistoryType("ChatHistorySettings"), "ChatHistoryProvider", Activate(0),
    Identity ++ Metadata ++
    [source_uri |-> StrOrNone("SourceUri"), artifact_hash |-> StrOrNone("ArtifactHash")])

ChatHistoryRecord ==
  Wrapper(HistoryType("ChatHistoryRecord"), "ChatHistoryProvider", Given,
    [role |-> Str("Role"), content |-> Str("Content"), timestamp |-> Str("Timestamp")])

ChatHistoryMessages ==
  Wrapper(<< "AIKernel.Providers.ChatHistory.Models", "ChatHistory" >>, "ChatHistoryProvider", Given,
    [messages |-> Read("Messages", "messages")])

ChatHistoryProvider ==
  Wrapper(HistoryType("ChatHistoryProvider"), "ChatHistoryProvider",
    CallStatic(HistoryType("ChatHistoryPythonBridge"), "CreateProvider", 0), Identity)

ChatHistoryInvoker ==
  Wrapper(HistoryType("ChatHistoryInvoker"), "ChatHistoryProvider",
    CallStatic(HistoryType("ChatHistoryPythonBridge"), "CreateInvoker", 0), << >>)

-----------------------------------------------------------------------------
\* cuda_compute.py

CudaType(name) == << "AIKernel.Providers.CudaCompute", name >>

CudaComputeCapability ==
  Capability(CudaType("CudaComputePythonBridge"), "CudaComputeProvider", "CudaCompute",
    << "provider_id", "device_profile" >>, [device_profile |-> "cuda13"])

CudaComputeSettings ==
  Wrapper(CudaType("CudaComputeSettings"), "CudaComputeProvider", Activate(0),
    Identity ++ Metadata ++
    [device_profile |-> Str("DeviceProfile"), entry_point |-> Str("EntryPoint"),
     loader_json |-> StrOrNone("LoaderJson"), artifact_hash |-> StrOrNone("ArtifactHash")])

CudaComputeProvider ==
  Wrapper(CudaType("CudaComputeProvider"), "CudaComputeProvider",
    CallStatic(CudaType("CudaComputePythonBridge"), "CreateProvider", 0), Identity)

CudaComputeInvoker ==
  Wrapper(CudaType("CudaComputeInvoker"), "CudaComputeProvider",
    CallStatic(CudaType("CudaComputePythonBridge"), "CreateInvoker", 0), << >>)

-----------------------------------------------------------------------------
\* dynamic_pipeline.py

PipelineType(name) == << "AIKernel.Providers.DynamicPipelineCompiler", name >>

DynamicPipelineCompilerCapability ==
  Capability(PipelineType("DynamicPipelineCompilerPythonBridge"),
    "DynamicPipelineCompilerProvider", "DynamicPipelineCompiler",
    << "provider_id", "dsl_schema_version" >>, [dsl_schema_version |-> "0.1"])

DynamicPipelineCompilerSettings ==
  Wrapper(PipelineType("DynamicPipelineCompilerSettings"), "DynamicPipelineCompilerProvider",
    Activate(0),
    Identity ++ Metadata ++
    [dsl_schema_version |-> Str("DslSchemaVersion"), dsl_schema_uri |-> StrOrNone("DslSchemaUri")])

DynamicPipelineCompilerProvider ==
  Wrapper(PipelineType("DynamicPipelineCompilerProvider"), "DynamicPipelineCompilerProvider",
    CallStatic(PipelineType("DynamicPipelineCompilerPythonBridge"), "CreateProvider", 0), Identity)

DynamicPipelineCompilerInvoker ==
  Wrapper(PipelineType("DynamicPipelineCompilerInvoker"), "DynamicPipelineCompilerProvider",
    CallStatic(PipelineType("DynamicPipelineCompilerPythonBridge"), "CreateInvoker", 0), << >>)

-----------------------------------------------------------------------------
\* local_llm.py

LlmType(name) == << "AIKernel.Providers.LocalLlm", name >>

\* The two arguments of the bridge in the other order.
LocalLlmCapability_Swapped ==
  Capability(LlmType("LocalLlmPythonBridge"), "LocalLlmProvider", "LocalLlm",
    << "runtime", "provider_id" >>, [runtime |-> "ollama"])

LocalLlmCapability ==
  Capability(LlmType("LocalLlmPythonBridge"), "LocalLlmProvider", "LocalLlm",
    << "provider_id", "runtime" >>, [runtime |-> "ollama"])

LocalLlmSettings ==
  Wrapper(LlmType("LocalLlmSettings"), "LocalLlmProvider", Activate(0),
    Identity ++ Metadata ++
    [runtime |-> Str("Runtime"), runtime_uri |-> StrOrNone("RuntimeUri"),
     artifact_hash |-> StrOrNone("ArtifactHash")])

LocalLlmProvider ==
  Wrapper(LlmType("LocalLlmProvider"), "LocalLlmProvider",
    CallStatic(LlmType("LocalLlmPythonBridge"), "CreateProvider", 0), Identity)

LocalLlmInvoker ==
  Wrapper(LlmType("LocalLlmInvoker"), "LocalLlmProvider",
    CallStatic(LlmType("LocalLlmPythonBridge"), "CreateInvoker", 0), << >>)

-----------------------------------------------------------------------------
\* microsoft_ai.py

MicrosoftType(name) == << "AIKernel.Providers.MicrosoftAI", name >>
MicrosoftWrapper(name, make, reads) ==
  Wrapper(MicrosoftType(name), "AIKernel.Providers.MicrosoftAI", make, reads)

MicrosoftAIProviderOptions ==
  MicrosoftWrapper("OpenAICompatibleProviderOptions", Activate(0),
    Identity ++
    [model_id |-> Str("ModelId"), endpoint |-> StrOrNone("Endpoint"),
     max_input_tokens |-> Read("MaxInputTokens", "int"),
     max_output_tokens |-> Read("MaxOutputTokens", "int | None"),
     supports_system_role |-> Bool("SupportsSystemRole"),
     supports_assistant_role |-> Bool("SupportsAssistantRole"),
     supports_tool_role |-> Bool("SupportsToolRole"),
     supports_streaming |-> Bool("SupportsStreaming"),
     stop_sequences |-> Tuple("StopSequences"),
     secret_key_name |-> StrOrNone("SecretKeyName"), api_key |-> StrOrNone("ApiKey")])

MicrosoftAIProvider == MicrosoftWrapper("OpenAICompatibleProvider", Given, Identity)

MicrosoftAIProviderCapabilities ==
  MicrosoftWrapper("OpenAICompatibleProviderCapabilities", Activate(0),
    [supported_operations |-> Tuple("SupportedOperations"),
     supported_data_types |-> Tuple("SupportedDataTypes"),
     max_concurrent_connections |-> Read("MaxConcurrentConnections", "int"),
     supports_query_augmentation |-> Bool("SupportsQueryAugmentation"),
     supports_query_decomposition |-> Bool("SupportsQueryDecomposition"),
     supports_query_routing |-> Bool("SupportsQueryRouting"),
     max_query_parts |-> Read("MaxQueryParts", "int"),
     supported_query_processing_operations |-> Tuple("SupportedQueryProcessingOperations"),
     supports_embedding |-> Bool("SupportsEmbedding"),
     embedding_dimensions |-> Read("EmbeddingDimensions", "int | None"),
     supported_embedding_models |-> Tuple("SupportedEmbeddingModels"),
     supports_operation |-> Bool("SupportsOperation"),
     supports_data_type |-> Bool("SupportsDataType"),
     supports_quantization |-> Bool("SupportsQuantization"),
     supports_query_processing_operation |-> Bool("SupportsQueryProcessingOperation")])

MicrosoftAICredential ==
  MicrosoftWrapper("OpenAICompatibleCredential",
    CallStatic(MicrosoftType("OpenAICompatibleCredential"), "Create", 4),
    [api_key |-> Str("ApiKey"), expires_at_utc |-> StrOrNone("ExpiresAtUtc")])

MicrosoftAIHealthContext ==
  MicrosoftWrapper("OpenAICompatibleProviderHealthContext", Given,
    Identity ++
    [model_id |-> Str("ModelId"), is_initialized |-> Bool("IsInitialized"),
     checked_at_utc |-> Str("CheckedAtUtc")])

MicrosoftAIResponseProjection ==
  MicrosoftWrapper("OpenAICompatibleResponseProjection", Given,
    [model_id |-> Str("ModelId"), raw_response |-> Str("RawResponse"),
     primary_text |-> Str("PrimaryText"), is_truncated |-> Bool("IsTruncated"),
     observed_at_utc |-> Str("ObservedAtUtc"), metadata |-> Read("Metadata", "dict")])

MicrosoftAIResponseMapper ==
  MicrosoftWrapper("OpenAICompatibleResponseMapper", Activate(0),
    [get_primary_text |-> Str("GetPrimaryText"),
     create_projection |-> Read("CreateProjection", "wrapper")])

MicrosoftAIProviderOptionsValidator ==
  MicrosoftWrapper("OpenAICompatibleProviderOptionsValidator", Activate(0),
    [validate |-> Read("Validate", "managed")])

microsoft_ai_exception_types ==
  {MicrosoftType(name) : name \in
     {"ProviderExecutionException", "ProviderInvalidResponseException",
      "ProviderCapabilityMismatchException", "ProviderExecutionTimeoutException",
      "ProviderRateLimitException", "ProviderApiException"}}

-----------------------------------------------------------------------------
\* standard.py

\* A driver has no attributes; arguments is the number _create gets.
Driver(namespace, name, arguments) ==
  Wrapper(<< namespace, name >>, "AIKernel.Providers.Standard", Activate(arguments), << >>)

FileSystems == "AIKernel.Providers.Standard.FileSystem"
Loggers == "AIKernel.Providers.Standard.Logging"
Networks == "AIKernel.Providers.Standard.Network"
Supervisors == "AIKernel.Providers.Standard.Processes"

CpuComputeProvider == Driver("AIKernel.Providers.Standard.Compute", "CpuComputeProvider", 0)
MemoryFileSystemProvider == Driver(FileSystems, "MemoryFileSystemProvider", 0)
PhysicalFileSystemProvider == Driver(FileSystems, "PhysicalFileSystemProvider", 0)
ZipFileSystemProvider == Driver(FileSystems, "ZipFileSystemProvider", 1)
ConsoleLoggingProvider == Driver(Loggers, "ConsoleLoggingProvider", 0)
FileLoggingProvider == Driver(Loggers, "FileLoggingProvider", 1)
NetworkProvider == Driver(Networks, "NetworkProvider", 0)
HttpNetworkProvider == Driver(Networks, "HttpNetworkProvider", 0)
WebSocketNetworkProvider == Driver(Networks, "WebSocketNetworkProvider", 0)
ProcessSupervisorProvider == Driver(Supervisors, "ProcessSupervisorProvider", 0)
DefaultProcessSupervisorProvider == Driver(Supervisors, "DefaultProcessSupervisorProvider", 0)
EventBusProvider == Driver("AIKernel.Providers.Standard.EventBus", "EventBusProvider", 0)
SchedulerProvider == Driver("AIKernel.Providers.Standard.Scheduler", "SchedulerProvider", 0)
ProfilerProvider == Driver("AIKernel.Providers.Standard.Profiler", "ProfilerProvider", 0)

StandardDriverContract(id, namespace, name) == [provider_id |-> id, managed_type |-> << namespace, name >>]

standard_driver_contracts ==
  << StandardDriverContract("providers.compute.cpu", "AIKernel.Providers.Standard.Compute", "CpuComputeProvider"),
     StandardDriverContract("providers.fs.memory", FileSystems, "MemoryFileSystemProvider"),
     StandardDriverContract("providers.fs.physical", FileSystems, "PhysicalFileSystemProvider"),
     StandardDriverContract("providers.fs.zip", FileSystems, "ZipFileSystemProvider"),
     StandardDriverContract("providers.logging.console", Loggers, "ConsoleLoggingProvider"),
     StandardDriverContract("providers.logging.file", Loggers, "FileLoggingProvider"),
     StandardDriverContract("providers.network.standard", Networks, "NetworkProvider"),
     StandardDriverContract("providers.network.http", Networks, "HttpNetworkProvider"),
     StandardDriverContract("providers.network.websocket", Networks, "WebSocketNetworkProvider"),
     StandardDriverContract("providers.process.supervisor", Supervisors, "ProcessSupervisorProvider"),
     StandardDriverContract("providers.process.supervisor.default", Supervisors, "DefaultProcessSupervisorProvider"),
     StandardDriverContract("providers.eventbus.memory", "AIKernel.Providers.Standard.EventBus", "EventBusProvider"),
     StandardDriverContract("providers.scheduler.standard", "AIKernel.Providers.Standard.Scheduler", "SchedulerProvider"),
     StandardDriverContract("providers.profiler.standard", "AIKernel.Providers.Standard.Profiler", "ProfilerProvider") >>

-----------------------------------------------------------------------------
\* The package as a whole.

Drivers ==
  [CpuComputeProvider |-> CpuComputeProvider,
   MemoryFileSystemProvider |-> MemoryFileSystemProvider,
   PhysicalFileSystemProvider |-> PhysicalFileSystemProvider,
   ZipFileSystemProvider |-> ZipFileSystemProvider,
   ConsoleLoggingProvider |-> ConsoleLoggingProvider,
   FileLoggingProvider |-> FileLoggingProvider,
   NetworkProvider |-> NetworkProvider,
   HttpNetworkProvider |-> HttpNetworkProvider,
   WebSocketNetworkProvider |-> WebSocketNetworkProvider,
   ProcessSupervisorProvider |-> ProcessSupervisorProvider,
   DefaultProcessSupervisorProvider |-> DefaultProcessSupervisorProvider,
   EventBusProvider |-> EventBusProvider,
   SchedulerProvider |-> SchedulerProvider,
   ProfilerProvider |-> ProfilerProvider]

\* The wrapper classes that the package exports.
Wrappers ==
  Drivers ++
  [ChatOpenAIClient |-> ChatOpenAIClient,
   ChatOpenAIInvoker |-> ChatOpenAIInvoker,
   ChatOpenAIProvider |-> ChatOpenAIProvider,
   ChatOpenAISettings |-> ChatOpenAISettings,
   ChatHistory |-> ChatHistoryMessages,
   ChatHistoryInvoker |-> ChatHistoryInvoker,
   ChatHistoryProvider |-> ChatHistoryProvider,
   ChatHistoryRecord |-> ChatHistoryRecord,
   ChatHistorySettings |-> ChatHistorySettings,
   CudaComputeInvoker |-> CudaComputeInvoker,
   CudaComputeProvider |-> CudaComputeProvider,
   CudaComputeSettings |-> CudaComputeSettings,
   DynamicPipelineCompilerInvoker |-> DynamicPipelineCompilerInvoker,
   DynamicPipelineCompilerProvider |-> DynamicPipelineCompilerProvider,
   DynamicPipelineCompilerSettings |-> DynamicPipelineCompilerSettings,
   LocalLlmInvoker |-> LocalLlmInvoker,
   LocalLlmProvider |-> LocalLlmProvider,
   LocalLlmSettings |-> LocalLlmSettings,
   MicrosoftAICredential |-> MicrosoftAICredential,
   MicrosoftAIHealthContext |-> MicrosoftAIHealthContext,
   MicrosoftAIProvider |-> MicrosoftAIProvider,
   MicrosoftAIProviderCapabilities |-> MicrosoftAIProviderCapabilities,
   MicrosoftAIProviderOptions |-> MicrosoftAIProviderOptions,
   MicrosoftAIProviderOptionsValidator |-> MicrosoftAIProviderOptionsValidator,
   MicrosoftAIResponseMapper |-> MicrosoftAIResponseMapper,
   MicrosoftAIResponseProjection |-> MicrosoftAIResponseProjection]

Capabilities ==
  [ChatOpenAI |-> ChatOpenAICapability, ChatHistory |-> ChatHistoryCapability,
   CudaCompute |-> CudaComputeCapability,
   DynamicPipelineCompiler |-> DynamicPipelineCompilerCapability,
   LocalLlm |-> LocalLlmCapability]

\* _ASSEMBLIES, without the suffix, as far as the package's names go.
LoadedAssemblies ==
  {"AIKernel.Abstractions", "AIKernel.Common", "AIKernel.Core", "AIKernel.Dtos", "AIKernel.Enums",
   "AIKernel.Providers.Standard", "ChatOpenAIProvider", "ChatHistoryProvider",
   "CudaComputeProvider", "DynamicPipelineCompilerProvider", "LocalLlmProvider",
   "AIKernel.Providers.MicrosoftAI"}

-----------------------------------------------------------------------------
\* Managed types, as C# declares them.

\* The catalogue by name.
Catalogue == [fullName \in ToSet(managed_type_names) |-> Head(find_managed_type(fullName))]

\* Properties with an expression body, which the catalogue does not list.
ProviderMembers == [ProviderId |-> "string", Name |-> "string", Version |-> "string"]

CapabilitiesMembers ==
  [SupportedOperations |-> "IReadOnlyList<string>", SupportedDataTypes |-> "IReadOnlyList<string>",
   MaxConcurrentConnections |-> "int", SupportsQueryAugmentation |-> "bool",
   SupportsQueryDecomposition |-> "bool", SupportsQueryRouting |-> "bool",
   MaxQueryParts |-> "int", SupportedQueryProcessingOperations |-> "IReadOnlyList<string>",
   SupportsEmbedding |-> "bool", EmbeddingDimensions |-> "int?",
   SupportedEmbeddingModels |-> "IReadOnlyList<string>"]

\* AIKernel.Dtos, which is not in this repository.
CapabilityModuleDescriptor ==
  [CapabilityId |-> "string", Name |-> "string", Kind |-> "enum", InvocationMode |-> "enum",
   Version |-> "string", ProvidedOperations |-> "IReadOnlyList<string>",
   RequiredPermissions |-> "IReadOnlyList<string>",
   Metadata |-> "IReadOnlyDictionary<string, string>"]

ProviderTypes == {Bridge(family).CreateProvider : family \in Families}

Members(type) ==
  IF type = CapabilityContract.type THEN CapabilityModuleDescriptor
  ELSE Catalogue[type].members ++
       IF type \in ProviderTypes THEN ProviderMembers
       ELSE IF type = MicrosoftAIProviderCapabilities.type THEN CapabilitiesMembers
       ELSE << >>

\* Type.GetType with the name of the assembly.
Resolves(type, assembly) ==
  /\ assembly \in LoadedAssemblies
  /\ type \in DOMAIN Catalogue
  /\ Catalogue[type].assembly = assembly

\* How many arguments a public constructor of the type takes.
ConstructorArity(type) ==
  IF type \in {<< FileSystems, "ZipFileSystemProvider" >>, << Loggers, "FileLoggingProvider" >>}
  THEN 1 ELSE 0

\* The static methods the package calls: parameters, and the type of what
\* they return.
StaticMethods ==
  {[type |-> Bridge(f).type, method |-> "CreateProvider", arity |-> 0,
    result |-> Bridge(f).CreateProvider] : f \in Families}
  \cup {[type |-> Bridge(f).type, method |-> "CreateInvoker", arity |-> 0,
          result |-> Bridge(f).CreateInvoker] : f \in Families}
  \cup {[type |-> MicrosoftType("OpenAICompatibleCredential"), method |-> "Create", arity |-> 4,
          result |-> MicrosoftType("OpenAICompatibleCredential")]}

KindOf(declared) ==
  CASE declared \in {"string", "string?"} -> "string"
    [] declared \in {"Uri", "Uri?"} -> "Uri"
    [] declared \in {"DateTimeOffset", "DateTimeOffset?"} -> "DateTimeOffset"
    [] declared \in {"int", "int?"} -> "int"
    [] declared = "bool" -> "bool"
    [] declared = "enum" -> "enum"
    [] declared = "IReadOnlyList<string>" -> "list"
    [] declared = "IReadOnlyList<ChatMessage>" -> "messages"
    [] declared \in {"IReadOnlyDictionary<string, string>", "ImmutableDictionary<string, string>"} -> "map"
    [] OTHER -> "object"

Nullable == {"string?", "Uri?", "DateTimeOffset?", "int?", "long?", "float?"}

\* Values a member of a type may have.
PlainValues(kind) ==
  CASE kind = "string" -> {Text(text) : text \in Texts}
    [] kind = "Uri" -> {Managed("Uri", text) : text \in UriTexts \cap AbsoluteUris}
    [] kind = "int" -> {Managed("int", "0"), Managed("int", "1")}
    [] kind = "bool" -> {Managed("bool", "false"), Managed("bool", "true")}
    [] kind = "list" -> {List(<< >>), List(<< "a", "b" >>)}
    [] kind = "map" -> {Map(<< >>), Map([key |-> "text"])}
    [] kind = "messages" ->
         {[kind |-> "messages", items |-> [Role |-> "user", Content |-> "hello", Timestamp |-> "now"]]}
    [] OTHER -> {Managed(kind, "some")}

MemberValues(declared) ==
  PlainValues(KindOf(declared)) \cup (IF declared \in Nullable THEN {Null} ELSE {})

\* Settings types of the five families.
Settings == [ChatOpenAI |-> ChatOpenAISettings.type, ChatHistory |-> ChatHistorySettings.type,
             CudaCompute |-> CudaComputeSettings.type,
             DynamicPipelineCompiler |-> DynamicPipelineCompilerSettings.type,
             LocalLlm |-> LocalLlmSettings.type]

\* The members of a new object: of settings, and of the providers made from
\* them, those of the default settings, of others some value.
FamiliesOf(type) == {f \in Families : type \in {Settings[f], Bridge(f).CreateProvider}}
NewMembers(type) ==
  LET plain == [m \in DOMAIN Members(type) |-> CHOOSE v \in MemberValues(Members(type)[m]) : TRUE]
      given == {m \in DOMAIN plain : \E f \in FamiliesOf(type) : m \in DOMAIN Defaults(f)}
  IN  [m \in DOMAIN plain |->
         IF m \in given THEN Defaults(CHOOSE f \in FamiliesOf(type) : TRUE)[m] ELSE plain[m]]

\* A member of a managed object; ToMetadata is worked out from the others.
MemberOf(object, member) ==
  IF member = "ToMetadata"
  THEN Map(ToMetadata(CHOOSE f \in FamiliesOf(object.type) : TRUE, object.members))
  ELSE object.members[member]

\* An attribute of a wrapper, read off its managed object.
Attribute(wrapper, object, attribute) ==
  LET read == wrapper.reads[attribute] IN
  IF read.member \in DOMAIN object.members
  THEN Convert(read.as, MemberOf(object, read.member))
  ELSE Raised("AttributeError")

-----------------------------------------------------------------------------
\* Calls.

Answer(call, of, attribute, value) == last' = [call |-> call, of |-> of, attribute |-> attribute, value |-> value]

\* A bound on what the caller holds: one wrapper, or one contract, or a
\* contract beside settings of its family; of no other pair is anything said.
RoomForWrapper(type) == held = << >> /\ \A c \in ToSet(contract) : type = Settings[c.family]
RoomForContract(f) == contract = << >> /\ \A h \in ToSet(held) : h.type = Settings[f]

Hold(w, type, members) ==
  /\ held' = << [wrapper |-> w, type |-> type, members |-> members] >>
  /\ UNCHANGED contract

Fail(call, of, error) ==
  /\ Answer(call, of, "none", Raised(error))
  /\ UNCHANGED << held, contract >>

NoCall == [call |-> "none", of |-> "none", attribute |-> "none", value |-> Python("NoneType", << >>)]

SurfaceInit == held = << >> /\ contract = << >> /\ last = NoCall

\* The caller lets go of what it holds.
LetGo == held' = << >> /\ contract' = << >> /\ last' = NoCall

\* create by Activator.CreateInstance.
CreateByActivator(w) ==
  LET type == Wrappers[w].type
      make == Wrappers[w].make
  IN  /\ make.way = "activate" /\ RoomForWrapper(type)
      /\ IF ~Resolves(type, Wrappers[w].assembly) THEN Fail("create", w, "RuntimeError")
         ELSE IF ConstructorArity(type) # make.arguments
         THEN Fail("create", w, "MissingMethodException")
         ELSE /\ Answer("create", w, "none", Python("wrapper", << w >>))
              /\ Hold(w, type, NewMembers(type))

\* create by a static method; Create of a credential may refuse its key.
CreateByMethod(w) ==
  LET make == Wrappers[w].make
      found == {m \in StaticMethods : m.type = make.type /\ m.method = make.method}
  IN  /\ make.way = "static" /\ RoomForWrapper(Wrappers[w].type)
      /\ IF ~Resolves(make.type, Wrappers[w].assembly) \/ found = {}
         THEN Fail("create", w, "RuntimeError")
         ELSE \E m \in found, refused \in BOOLEAN :
                IF m.arity # make.arguments
                THEN Fail("create", w, "TargetParameterCountException")
                ELSE IF refused /\ m.method = "Create"
                THEN Fail("create", w, "TargetInvocationException")
                ELSE /\ Answer("create", w, "none", Python("wrapper", << w >>))
                     /\ Hold(w, m.result, NewMembers(m.result))

\* The caller wraps an object it got from C#, which may hold another value in
\* one of its members.
WrapGiven(w) ==
  LET type == Wrappers[w].type
      new == NewMembers(type)
  IN  /\ RoomForWrapper(type)
      /\ \E member \in {Wrappers[w].reads[a].member : a \in DOMAIN Wrappers[w].reads} :
           \E value \in MemberValues(Members(type)[member]) :
             Hold(w, type, [new EXCEPT ![member] = value])
      /\ Answer("wrap", w, "none", Python("wrapper", << w >>))

ReadAttribute(attribute) ==
  /\ held # << >>
  /\ LET w == Head(held).wrapper IN
     /\ attribute \in DOMAIN Wrappers[w].reads
     /\ Answer("read", w, attribute, Attribute(Wrappers[w], Head(held), attribute))
  /\ UNCHANGED << held, contract >>

ReadContract(attribute) ==
  /\ contract # << >>
  /\ attribute \in DOMAIN CapabilityContract.reads
  /\ Answer("read", "CapabilityContract", attribute,
            Attribute(CapabilityContract, Head(contract).object, attribute))
  /\ UNCHANGED << held, contract >>

\* Arguments a caller has: texts, what the dataclass fills in, and the
\* attributes of settings of the same family.
ArgumentsOf(f) ==
  LET c == Capabilities[f]
      names == ToSet(c.fields)
      For(name) == IF name = "endpoint" THEN UriTexts ELSE Texts
      Offered(name) == For(name) \cup (IF name \in DOMAIN c.defaults THEN {c.defaults[name]} ELSE {})
      all == UNION {Offered(name) : name \in names}
      ofSettings == held # << >> /\ Head(held).type = Settings[f]
  IN  {given \in [names -> all] : \A name \in names : given[name] \in Offered(name)}
        \cup (IF ofSettings
              THEN {[name \in names |->
                       Attribute(Wrappers[Head(held).wrapper], Head(held), name).items.value]}
              ELSE {})

\* to_contract of the capability of a family.
MakeContract(f, given) ==
  LET c == Capabilities[f]
      arguments == [i \in DOMAIN c.fields |-> given[c.fields[i]]]
  IN  /\ RoomForContract(f)
      /\ IF ~Resolves(c.bridge, c.assembly) THEN Fail("to_contract", f, "RuntimeError")
         ELSE IF Len(arguments) # Len(Parameters(f))
         THEN Fail("to_contract", f, "TargetParameterCountException")
         ELSE IF ~Accepted(f, arguments) THEN Fail("to_contract", f, "TargetInvocationException")
         ELSE /\ Answer("to_contract", f, "none", Python("wrapper", << "CapabilityContract" >>))
              /\ contract' = << [family |-> f, given |-> given,
                    object |-> [type |-> CapabilityContract.type, members |-> ToContract(f, arguments)]] >>
              /\ UNCHANGED held

\* The two calls that touch no object are made with empty hands, a bound.
EmptyHands == held = << >> /\ contract = << >>

\* find_managed_type with the name of a wrapped type; the answer is reduced
\* to the assembly of the descriptor.
FindManagedType(w) ==
  LET found == find_managed_type(Wrappers[w].type)
  IN  /\ EmptyHands
      /\ Answer("find", w, "none",
            IF found = << >> THEN Python("NoneType", << >>)
            ELSE Python("descriptor", << Head(found).assembly >>))
      /\ UNCHANGED << held, contract >>

ExceptionTypes ==
  /\ EmptyHands
  /\ Answer("exception_types", "none", "none",
        IF \A type \in microsoft_ai_exception_types : Resolves(type, "AIKernel.Providers.MicrosoftAI")
        THEN Python("dict", << >>) ELSE Raised("RuntimeError"))
  /\ UNCHANGED << held, contract >>

Attributes == UNION {DOMAIN Wrappers[w].reads : w \in DOMAIN Wrappers}

SurfaceNext ==
  \/ \E w \in DOMAIN Wrappers :
       CreateByActivator(w) \/ CreateByMethod(w) \/ WrapGiven(w) \/ FindManagedType(w)
  \/ \E attribute \in Attributes : ReadAttribute(attribute)
  \/ \E attribute \in DOMAIN CapabilityContract.reads : ReadContract(attribute)
  \/ \E f \in Families : \E given \in ArgumentsOf(f) : MakeContract(f, given)
  \/ ExceptionTypes
  \/ LetGo

SurfaceSpec == SurfaceInit /\ [][SurfaceNext]_surfaceVars

-----------------------------------------------------------------------------
\* Properties.

PythonKinds == {"str", "int", "bool", "tuple", "dict", "NoneType", "wrapper", "managed",
                "descriptor", "error"}

\* What a caller gets is a Python value, never a managed one in disguise, and
\* what it holds is one wrapper of this package and one contract at most.
SurfaceTypeOK ==
  /\ Len(held) <= 1 /\ Len(contract) <= 1
  /\ \A h \in ToSet(held) : /\ h.wrapper \in DOMAIN Wrappers
                           /\ DOMAIN h.members = DOMAIN Members(h.type)
  /\ \A c \in ToSet(contract) : /\ c.family \in Families
                               /\ DOMAIN c.object.members = DOMAIN CapabilityModuleDescriptor
  /\ last.value.kind \in PythonKinds

\* The Python type that stands for a C# type.
Expected(kind) ==
  CASE kind \in {"string", "Uri", "DateTimeOffset", "enum"} -> "str"
    [] kind = "int" -> "int"
    [] kind = "bool" -> "bool"
    [] kind \in {"list", "messages"} -> "tuple"
    [] kind = "map" -> "dict"
    [] kind = "object" -> "object"

Shows(value, managed) ==
  IF IsNull(managed) THEN value.kind = "NoneType"
  ELSE IF managed.kind = "object" THEN value.kind \in {"wrapper", "managed"}
  ELSE /\ value.kind = Expected(managed.kind)
       /\ IF managed.kind = "messages"
          THEN /\ value.items.role = managed.items.Role
               /\ value.items.content = managed.items.Content
               /\ value.items.timestamp = managed.items.Timestamp
          ELSE value.items = managed.items

\* The wrappers fit the types they name.  Every create finds its type, its
\* constructor or its method in an assembly that is loaded, and holds an
\* object of the type the wrapper is for (only a credential may be refused);
\* every attribute shows its member: None exactly for null, otherwise the
\* same content as the Python type that stands for the C# type.  The
\* catalogue knows every wrapped type in the assembly the wrapper names, and
\* the drivers announced are those that can be created (managed.py, the
\* wrapper modules, api_catalog.py, standard_driver_contracts).
WrappersFitTheirTypes ==
  /\ last.call \in {"create", "exception_types"} /\ last.value.kind = "error"
       => last.of = "MicrosoftAICredential" /\ last.value.items = << "TargetInvocationException" >>
  /\ \A h \in ToSet(held) : h.type = Wrappers[h.wrapper].type
  /\ last.call = "read" /\ last.of # "CapabilityContract" =>
       Shows(last.value, MemberOf(Head(held), Wrappers[last.of].reads[last.attribute].member))
  /\ last.call = "read" /\ last.of = "CapabilityContract" =>
       Shows(last.value, Head(contract).object.members[CapabilityContract.reads[last.attribute].member])
  /\ last.call = "find" => /\ last.value = Python("descriptor", << Wrappers[last.of].assembly >>)
                           /\ Wrappers[last.of].assembly \in DOMAIN managed_api_summary
  /\ LET announced == ToSet(standard_driver_contracts) IN
     /\ {c.managed_type : c \in announced} = {Drivers[w].type : w \in DOMAIN Drivers}
     /\ Cardinality({c.provider_id : c \in announced}) = Cardinality(DOMAIN Drivers)

\* Where an argument of a capability shows in its contract.
ShownArgument(c, name) ==
  LET View(attribute) == Attribute(CapabilityContract, c.object, attribute).items
  IN  IF name = "provider_id" THEN View("capability_id").value ELSE View("metadata")[name]

Described(c, h) ==
  \A name \in DOMAIN c.given :
    Attribute(Wrappers[h.wrapper], h, name).items.value = c.given[name]

\* to_contract passes its arguments by position through reflection to a bridge
\* that fills settings with them.  A contract shows every argument under
\* its own name (an endpoint without its last slash), and fails only for an
\* endpoint that is no URI.  The contract made from the attributes of a
\* settings object is the contract of these settings: same metadata,
\* name and version, as long as only the members that a capability
\* carries differ from the defaults (the *Capability classes and
\* *PythonBridge.ToContract).
ContractsDescribeTheSettings ==
  /\ last.call = "to_contract" /\ last.value.kind = "error" =>
       last.of = "ChatOpenAI" /\ last.value.items = << "TargetInvocationException" >>
  /\ \A c \in ToSet(contract) :
       /\ \A name \in DOMAIN c.given :
            ShownArgument(c, name) =
              IF name = "endpoint" THEN WithoutSlash[c.given[name]] ELSE c.given[name]
       /\ \A h \in ToSet(held) :
            LET carried == ToSet(Parameters(c.family))
                shown == DOMAIN Defaults(c.family) \cap DOMAIN h.members
            IN  /\ h.type = Settings[c.family] /\ Described(c, h)
                /\ \A m \in shown \ (carried \cup {"ApiKey"}) : h.members[m] = Defaults(c.family)[m]
                => /\ Attribute(Wrappers[h.wrapper], h, "to_metadata")
                        = Attribute(CapabilityContract, c.object, "metadata")
                   /\ \A a \in {"name", "version"} :
                        Attribute(Wrappers[h.wrapper], h, a) = Attribute(CapabilityContract, c.object, a)
=============================================================================
