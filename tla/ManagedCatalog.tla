---------------------------- MODULE ManagedCatalog ----------------------------
(***************************************************************************)
(* The catalogue of managed types that the Python package publishes        *)
(* (api_catalog.py): one definition for each namespace, in the order of    *)
(* the file.  Of the members of a type the model keeps the properties and  *)
(* methods the wrappers of the package read, each with its C# type;        *)
(* sources and signatures are left out.                                    *)
(***************************************************************************)
EXTENDS Integers, Sequences, SequencesExt, FiniteSets, FiniteSetsExt

\* A ManagedTypeDescriptor, before InAssembly says where it is.
Type(kind, name, members) == [kind |-> kind, name |-> name, members |-> members]

Named(kind, names) == [i \in DOMAIN names |-> Type(kind, names[i], << >>)]
Classes(names) == Named("class", names)
Records(names) == Named("record", names)
Interfaces(names) == Named("interface", names)
Enums(names) == Named("enum", names)
Structs(names) == Named("record struct", names)

PythonBridgeType(name) ==
  Type("class", name,
    [ToContract |-> "object", CreateProvider |-> "object", CreateInvoker |-> "object"])

InAssembly(assembly, namespace, types) ==
  [i \in DOMAIN types |->
     [assembly |-> assembly, namespace |-> namespace, kind |-> types[i].kind,
      name |-> types[i].name, members |-> types[i].members]]

-----------------------------------------------------------------------------
Audio_Base ==
  InAssembly("AIKernel.Providers.Audio", "AIKernel.Providers.Audio.Base",
    Records(<< "AudioFrame" >>)
    \o Classes(<< "AudioPlayBase" >>)
    \o Records(<< "AudioPlayRequest", "AudioProviderResult" >>)
    \o Classes(<< "AudioRecBase" >>)
    \o Records(<< "AudioRecordFrame", "AudioRecordRequest", "AudioRecordResult" >>))

Audio_Capabilities ==
  InAssembly("AIKernel.Providers.Audio", "AIKernel.Providers.Audio.Capabilities",
    Records(<< "AudioCapabilityDescriptor" >>))

Audio_DependencyInjection ==
  InAssembly("AIKernel.Providers.Audio", "AIKernel.Providers.Audio.DependencyInjection",
    Classes(<< "AudioProviderServiceCollectionExtensions" >>))

Audio_Diagnostics ==
  InAssembly("AIKernel.Providers.Audio", "AIKernel.Providers.Audio.Diagnostics",
    Classes(<< "AudioProviderDiagnostics" >>))

Audio_Routing ==
  InAssembly("AIKernel.Providers.Audio", "AIKernel.Providers.Audio.Routing",
    Classes(<< "AudioProviderResolutionPolicy" >>))

Audio_Validation ==
  InAssembly("AIKernel.Providers.Audio", "AIKernel.Providers.Audio.Validation",
    Records(<< "AudioFormat", "AudioFormatValidationResult" >>)
    \o Classes(<< "AudioFormatValidator" >>))

Compute ==
  InAssembly("AIKernel.Providers.Compute", "AIKernel.Providers.Compute",
    Enums(<< "ComputeAvailabilityReason" >>)
    \o Classes(<< "ComputeBufferDTypes" >>)
    \o Records(<< "ComputeBufferRef", "ComputeBufferRefValidationResult" >>)
    \o Classes(<< "ComputeBufferRefValidator" >>)
    \o Records(<< "ComputeCapabilityDescriptor", "ComputeEntryPointDescriptor",
      "ComputeParameterDescriptor" >>)
    \o Classes(<< "ComputeProviderBase" >>)
    \o Records(<< "ComputeReturnDescriptor", "HashMetadata" >>))

Council_Concepts ==
  InAssembly("AIKernel.Providers.Council", "AIKernel.Providers.Council.Concepts",
    Classes(<< "AisthesisRouter", "EthosCouncil", "LogosVerifier", "PathosSignal",
      "PhantasiaScene" >>))

Council_Contracts ==
  InAssembly("AIKernel.Providers.Council", "AIKernel.Providers.Council.Contracts",
    Interfaces(<< "ICouncilSemanticEvaluationProvider" >>))

Council_DependencyInjection ==
  InAssembly("AIKernel.Providers.Council", "AIKernel.Providers.Council.DependencyInjection",
    Classes(<< "CouncilProviderServiceCollectionExtensions" >>))

Council_Dimensions ==
  InAssembly("AIKernel.Providers.Council", "AIKernel.Providers.Council.Dimensions",
    Classes(<< "CouncilSemanticDimensionKeys" >>))

Council_Envelopes ==
  InAssembly("AIKernel.Providers.Council", "AIKernel.Providers.Council.Envelopes",
    Records(<< "CouncilSemanticEvaluationRequest", "CouncilSemanticEvaluationResult",
      "ProviderSemanticResult" >>)
    \o Enums(<< "SemanticEvaluationStatus" >>))

Council_Providers ==
  InAssembly("AIKernel.Providers.Council", "AIKernel.Providers.Council.Providers",
    Classes(<< "CouncilSemanticEvaluationProviderBase",
      "EthosSemanticEvaluationProvider", "LogosSemanticEvaluationProvider",
      "PathosSemanticEvaluationProvider" >>))

Council_Routing ==
  InAssembly("AIKernel.Providers.Council", "AIKernel.Providers.Council.Routing",
    Classes(<< "CouncilProviderResolutionPolicy" >>))

OpenAICompatibleCredentialType ==
  Type("record", "OpenAICompatibleCredential",
    [ApiKey |-> "string", ExpiresAtUtc |-> "DateTimeOffset?",
     Create |-> "OpenAICompatibleCredential"])

OpenAICompatibleProviderType ==
  Type("class", "OpenAICompatibleProvider",
    [ProviderId |-> "string", Name |-> "string", Version |-> "string"])

OpenAICompatibleProviderCapabilitiesType ==
  Type("class", "OpenAICompatibleProviderCapabilities",
    [SupportsOperation |-> "bool", SupportsDataType |-> "bool",
     SupportsQuantization |-> "bool",
     SupportsQueryProcessingOperation |-> "bool"])

OpenAICompatibleProviderHealthContextType ==
  Type("record", "OpenAICompatibleProviderHealthContext",
    [ProviderId |-> "string", Name |-> "string", Version |-> "string",
     ModelId |-> "string", IsInitialized |-> "bool",
     CheckedAtUtc |-> "DateTimeOffset"])

OpenAICompatibleProviderOptionsType ==
  Type("record", "OpenAICompatibleProviderOptions",
    [ProviderId |-> "string", Name |-> "string", Version |-> "string",
     ModelId |-> "string", Endpoint |-> "Uri?", MaxInputTokens |-> "int",
     MaxOutputTokens |-> "int?", Temperature |-> "float?",
     TopP |-> "float?", SupportsSystemRole |-> "bool",
     SupportsAssistantRole |-> "bool", SupportsToolRole |-> "bool",
     SupportsStreaming |-> "bool",
     StopSequences |-> "IReadOnlyList<string>",
     SecretKeyName |-> "string?", ApiKey |-> "string?",
     HealthStatusFactory |-> "Func<OpenAICompatibleProviderHealthContext, ProviderHealthStatus>?"])

OpenAICompatibleProviderOptionsValidatorType ==
  Type("class", "OpenAICompatibleProviderOptionsValidator",
    [Validate |-> "ValidateOptionsResult"])

OpenAICompatibleResponseMapperType ==
  Type("class", "OpenAICompatibleResponseMapper",
    [GetPrimaryText |-> "string",
     CreateProjection |-> "OpenAICompatibleResponseProjection"])

OpenAICompatibleResponseProjectionType ==
  Type("record", "OpenAICompatibleResponseProjection",
    [ModelId |-> "string", RawResponse |-> "string",
     PrimaryText |-> "string", IsTruncated |-> "bool",
     ObservedAtUtc |-> "DateTimeOffset",
     Metadata |-> "ImmutableDictionary<string, string>"])

MicrosoftAI ==
  InAssembly("AIKernel.Providers.MicrosoftAI", "AIKernel.Providers.MicrosoftAI",
    Interfaces(<< "IOpenAICompatibleResponseMapper" >>)
    \o << OpenAICompatibleCredentialType, OpenAICompatibleProviderType,
         OpenAICompatibleProviderCapabilitiesType,
         OpenAICompatibleProviderHealthContextType, OpenAICompatibleProviderOptionsType,
         OpenAICompatibleProviderOptionsValidatorType, OpenAICompatibleResponseMapperType,
         OpenAICompatibleResponseProjectionType >>
    \o Classes(<< "ProviderApiException", "ProviderCapabilityMismatchException",
      "ProviderExecutionException", "ProviderExecutionTimeoutException",
      "ProviderInvalidResponseException", "ProviderRateLimitException" >>))

MicrosoftAI_DependencyInjection ==
  InAssembly("AIKernel.Providers.MicrosoftAI", "AIKernel.Providers.MicrosoftAI.DependencyInjection",
    Classes(<< "OpenAIHostingExtensions" >>))

Perception ==
  InAssembly("AIKernel.Providers.Perception", "AIKernel.Providers.Perception",
    Records(<< "AudioSpectrumRequest", "AudioSpectrumResult",
      "AuditoryPerceptionRequest", "AuditoryPerceptionResult",
      "BinauralDirectionQuantizationRequest",
      "BinauralDirectionQuantizationResult" >>)
    \o Classes(<< "DefaultPerceptionAlgorithmKernel",
      "DefaultResidentPerceptionAlgorithmKernel",
      "DefaultSpatialSensorFusionKernel" >>)
    \o Records(<< "DenseOpticalFlowRequest", "DenseOpticalFlowResult",
      "EmaFilterRequest", "EmaFilterResult",
      "FramePerceptionProviderRequest", "FramePerceptionProviderResult",
      "FrequencyBandEnergyResult", "FrequencyBandRequest" >>)
    \o Classes(<< "HealthRetryIntentResolver" >>)
    \o Records(<< "HsvThresholdMaskRequest", "HsvThresholdMaskResult" >>)
    \o Interfaces(<< "IAuditoryPerceptionProvider", "IFramePerceptionProvider",
      "IPerceptionAlgorithmKernel", "IResidentPerceptionAlgorithmKernel",
      "IRetryIntentResolver", "ISensorStateNormalizer",
      "ISpatialCognitionProvider", "ISpatialSensorFusionKernel" >>)
    \o Records(<< "KalmanFilterRequest", "KalmanFilterResult" >>)
    \o Structs(<< "KalmanFilterState" >>)
    \o Records(<< "LaplacianEdgeRequest", "LaplacianEdgeResult",
      "LeakyIntegratorRequest", "LeakyIntegratorResult",
      "MaxPoolingRequest", "MaxPoolingResult", "MorphologyRequest",
      "MorphologyResult" >>)
    \o Structs(<< "OpticalFlowVector" >>)
    \o Classes(<< "PerceptionAlgorithmKernel" >>)
    \o Records(<< "PerceptionCapabilityDescriptor", "PerceptionDiagnosticDescriptor",
      "PerceptionSignalDescriptor" >>)
    \o Classes(<< "ResidentPerceptionAlgorithmKernel" >>)
    \o Records(<< "RetryIntentCarrier", "SemanticPaletteColorDescriptor",
      "SemanticPaletteQuantizationRequest",
      "SemanticPaletteQuantizationResult", "SensorStateDescriptor" >>)
    \o Classes(<< "SensorStateNormalizer" >>)
    \o Records(<< "SpatialCognitionRequest", "SpatialCognitionSnapshot" >>)
    \o Structs(<< "SpatialFusionVector", "SpatialHashCell" >>)
    \o Records(<< "SpatialHashRequest", "SpatialHashResult" >>)
    \o Classes(<< "SpatialSensorFusionKernel" >>)
    \o Records(<< "TemporalDifferenceRequest", "TemporalDifferenceResult" >>))

Perception_DependencyInjection ==
  InAssembly("AIKernel.Providers.Perception", "AIKernel.Providers.Perception.DependencyInjection",
    Classes(<< "PerceptionProviderServiceCollectionExtensions" >>))

Perception_Routing ==
  InAssembly("AIKernel.Providers.Perception", "AIKernel.Providers.Perception.Routing",
    Classes(<< "PerceptionProviderResolutionPolicy" >>))

Standard ==
  InAssembly("AIKernel.Providers.Standard", "AIKernel.Providers.Standard",
    Classes(<< "StandardProviderBase", "StandardProviderCapabilities" >>))

Standard_Abstractions ==
  InAssembly("AIKernel.Providers.Standard", "AIKernel.Providers.Standard.Abstractions",
    Interfaces(<< "IStandardProfilerProvider", "IStandardSchedulerProvider" >>))

Standard_Compute ==
  InAssembly("AIKernel.Providers.Standard", "AIKernel.Providers.Standard.Compute",
    Classes(<< "CpuComputeProvider" >>))

Standard_DependencyInjection ==
  InAssembly("AIKernel.Providers.Standard", "AIKernel.Providers.Standard.DependencyInjection",
    Classes(<< "StandardProviderServiceCollectionExtensions" >>))

Standard_EventBus ==
  InAssembly("AIKernel.Providers.Standard", "AIKernel.Providers.Standard.EventBus",
    Classes(<< "EventBusProvider" >>))

Standard_FileSystem ==
  InAssembly("AIKernel.Providers.Standard", "AIKernel.Providers.Standard.FileSystem",
    Classes(<< "FileSystemProviderBase", "MemoryFileSystemProvider",
      "PhysicalFileSystemProvider", "ZipFileSystemProvider" >>))

Standard_Logging ==
  InAssembly("AIKernel.Providers.Standard", "AIKernel.Providers.Standard.Logging",
    Classes(<< "ConsoleLoggingProvider", "FileLoggingProvider", "LoggingProviderBase" >>))

Standard_Network ==
  InAssembly("AIKernel.Providers.Standard", "AIKernel.Providers.Standard.Network",
    Classes(<< "HttpNetworkProvider" >>)
    \o Records(<< "HttpNetworkResponse" >>)
    \o Classes(<< "NetworkProvider", "WebSocketNetworkProvider" >>))

Standard_Processes ==
  InAssembly("AIKernel.Providers.Standard", "AIKernel.Providers.Standard.Processes",
    Classes(<< "DefaultProcessSupervisorProvider" >>)
    \o Records(<< "ProcessInfo" >>)
    \o Enums(<< "ProcessState" >>)
    \o Classes(<< "ProcessSupervisorProvider", "StandardManagedProcess" >>))

Standard_Profiler ==
  InAssembly("AIKernel.Providers.Standard", "AIKernel.Providers.Standard.Profiler",
    Classes(<< "ProfilerProvider" >>)
    \o Records(<< "ResourceSnapshot" >>))

Standard_Scheduler ==
  InAssembly("AIKernel.Providers.Standard", "AIKernel.Providers.Standard.Scheduler",
    Records(<< "ScheduledJob" >>)
    \o Classes(<< "SchedulerProvider" >>))

Substrate ==
  InAssembly("AIKernel.Providers.Substrate", "AIKernel.Providers.Substrate",
    Records(<< "DeterministicFallbackPolicy", "DuplicateProviderDiagnostic" >>)
    \o Interfaces(<< "IProviderManifestLoader", "IProviderManifestValidator" >>)
    \o Records(<< "MissingProviderResult", "ProviderBackendDescriptor",
      "ProviderBackendSelection", "ProviderCapabilityDescriptor",
      "ProviderCliHints", "ProviderCompatibilityDescriptor",
      "ProviderDependencyDescriptor", "ProviderDiagnostic",
      "ProviderEvaluationEnvelope", "ProviderEvidenceRef" >>)
    \o Classes(<< "ProviderManifestCatalog" >>)
    \o Records(<< "ProviderManifestCatalogResult", "ProviderManifestDescriptor",
      "ProviderManifestLoadRequest", "ProviderManifestLoadResult" >>)
    \o Classes(<< "ProviderManifestLoader", "ProviderManifestMergePolicy" >>)
    \o Records(<< "ProviderManifestSchema", "ProviderManifestValidationError",
      "ProviderManifestValidationOptions",
      "ProviderManifestValidationResult" >>)
    \o Classes(<< "ProviderManifestValidator" >>)
    \o Records(<< "ProviderProbeCandidate" >>)
    \o Classes(<< "ProviderRegistry" >>)
    \o Records(<< "ProviderRegistryRegistrationResult" >>)
    \o Enums(<< "ProviderResolutionMode" >>)
    \o Records(<< "ProviderResolutionPolicy", "ProviderResolutionRequest",
      "ProviderResolutionResult" >>)
    \o Classes(<< "ProviderRouter" >>)
    \o Records(<< "ProviderRuntimeHints" >>))

ChatHistoryRecordType ==
  Type("class", "ChatHistoryRecord",
    [Role |-> "string", Content |-> "string",
     Timestamp |-> "DateTimeOffset"])

ChatHistorySettingsType ==
  Type("record", "ChatHistorySettings",
    [ProviderId |-> "string", Name |-> "string", Version |-> "string",
     SourceUri |-> "string?", ArtifactHash |-> "string?",
     ToMetadata |-> "IReadOnlyDictionary<string, string>"])

ChatHistory ==
  InAssembly("ChatHistoryProvider", "AIKernel.Providers.ChatHistory",
    Classes(<< "ChatHistoryCapabilityContracts" >>)
    \o Records(<< "ChatHistoryCapabilityDescriptor" >>)
    \o Classes(<< "ChatHistoryInvoker", "ChatHistoryProvider" >>)
    \o << PythonBridgeType("ChatHistoryPythonBridge"), ChatHistoryRecordType,
         ChatHistorySettingsType >>)

ChatHistoryType ==
  Type("class", "ChatHistory",
    [Messages |-> "IReadOnlyList<ChatMessage>"])

ChatHistory_Models ==
  InAssembly("ChatHistoryProvider", "AIKernel.Providers.ChatHistory.Models",
    << ChatHistoryType >>
    \o Records(<< "ChatMessage" >>))

ChatOpenAISettingsType ==
  Type("record", "ChatOpenAISettings",
    [ProviderId |-> "string", Name |-> "string", Version |-> "string",
     Endpoint |-> "Uri", Model |-> "string", EmbeddingModel |-> "string?",
     ApiKey |-> "string?", Timeout |-> "TimeSpan",
     ToMetadata |-> "IReadOnlyDictionary<string, string>"])

ChatOpenAI ==
  InAssembly("ChatOpenAIProvider", "AIKernel.Providers.ChatOpenAI",
    Classes(<< "ChatOpenAICapabilityContracts" >>)
    \o Records(<< "ChatOpenAICapabilityDescriptor" >>)
    \o Classes(<< "ChatOpenAIClient", "ChatOpenAIInvoker", "ChatOpenAIProvider" >>)
    \o << PythonBridgeType("ChatOpenAIPythonBridge"), ChatOpenAISettingsType >>)

CudaComputeSettingsType ==
  Type("record", "CudaComputeSettings",
    [ProviderId |-> "string", Name |-> "string", Version |-> "string",
     DeviceProfile |-> "string", BackendName |-> "string",
     BackendVersion |-> "string?", PackageId |-> "string?",
     ModuleId |-> "string", AbiVersion |-> "string?",
     MaxDeviceMemoryBytes |-> "long?",
     SupportedComputeCapabilities |-> "IReadOnlyList<string>",
     NativeModuleRef |-> "string", EntryPoint |-> "string",
     LoaderJson |-> "string?", ArtifactHash |-> "string?",
     ToMetadata |-> "IReadOnlyDictionary<string, string>"])

CudaCompute ==
  InAssembly("CudaComputeProvider", "AIKernel.Providers.CudaCompute",
    Records(<< "CudaBackendDescriptor", "CudaBackendResolutionPolicy",
      "CudaBackendResolutionResult" >>)
    \o Classes(<< "CudaBackendResolver", "CudaComputeCapabilityContracts" >>)
    \o Records(<< "CudaComputeCapabilityDescriptor" >>)
    \o Classes(<< "CudaComputeInvoker", "CudaComputeProvider" >>)
    \o << PythonBridgeType("CudaComputePythonBridge"), CudaComputeSettingsType >>
    \o Records(<< "NativeModuleDescriptor" >>))

CudaCompute_DependencyInjection ==
  InAssembly("CudaComputeProvider", "AIKernel.Providers.CudaCompute.DependencyInjection",
    Classes(<< "CudaComputeProviderServiceCollectionExtensions" >>))

DynamicPipelineCompilerSettingsType ==
  Type("record", "DynamicPipelineCompilerSettings",
    [ProviderId |-> "string", Name |-> "string", Version |-> "string",
     DslSchemaVersion |-> "string", DslSchemaUri |-> "string?",
     ToMetadata |-> "IReadOnlyDictionary<string, string>"])

DynamicPipelineCompiler ==
  InAssembly("DynamicPipelineCompilerProvider", "AIKernel.Providers.DynamicPipelineCompiler",
    Classes(<< "DynamicPipelineCompilerCapabilityContracts" >>)
    \o Records(<< "DynamicPipelineCompilerCapabilityDescriptor" >>)
    \o Classes(<< "DynamicPipelineCompilerInvoker", "DynamicPipelineCompilerProvider" >>)
    \o << PythonBridgeType("DynamicPipelineCompilerPythonBridge"),
         DynamicPipelineCompilerSettingsType >>)

LocalLlmSettingsType ==
  Type("record", "LocalLlmSettings",
    [ProviderId |-> "string", Name |-> "string", Version |-> "string",
     Runtime |-> "string", RuntimeUri |-> "string?",
     ArtifactHash |-> "string?",
     ToMetadata |-> "IReadOnlyDictionary<string, string>"])

LocalLlm ==
  InAssembly("LocalLlmProvider", "AIKernel.Providers.LocalLlm",
    Classes(<< "LocalLlmCapabilityContracts" >>)
    \o Records(<< "LocalLlmCapabilityDescriptor" >>)
    \o Classes(<< "LocalLlmInvoker", "LocalLlmProvider" >>)
    \o << PythonBridgeType("LocalLlmPythonBridge"), LocalLlmSettingsType >>)

-----------------------------------------------------------------------------
managed_api_catalog ==
  Audio_Base \o Audio_Capabilities \o Audio_DependencyInjection \o Audio_Diagnostics
    \o Audio_Routing \o Audio_Validation \o Compute \o Council_Concepts
    \o Council_Contracts \o Council_DependencyInjection \o Council_Dimensions
    \o Council_Envelopes \o Council_Providers \o Council_Routing \o MicrosoftAI
    \o MicrosoftAI_DependencyInjection \o Perception \o Perception_DependencyInjection
    \o Perception_Routing \o Standard \o Standard_Abstractions \o Standard_Compute
    \o Standard_DependencyInjection \o Standard_EventBus \o Standard_FileSystem
    \o Standard_Logging \o Standard_Network \o Standard_Processes \o Standard_Profiler
    \o Standard_Scheduler \o Substrate \o ChatHistory \o ChatHistory_Models \o ChatOpenAI
    \o CudaCompute \o CudaCompute_DependencyInjection \o DynamicPipelineCompiler
    \o LocalLlm

\* full_name, with the dot between the two parts left out.
full_name(type) == << type.namespace, type.name >>

managed_type_names ==
  [i \in DOMAIN managed_api_catalog |-> full_name(managed_api_catalog[i])]

\* find_managed_type: the first type of that name, if there is one.
find_managed_type(fullName) ==
  LET same == {i \in DOMAIN managed_api_catalog : full_name(managed_api_catalog[i]) = fullName}
  IN  IF same = {} THEN << >> ELSE << managed_api_catalog[Min(same)] >>

managed_api_summary ==
  [assembly \in {type.assembly : type \in ToSet(managed_api_catalog)} |->
     Cardinality({i \in DOMAIN managed_api_catalog : managed_api_catalog[i].assembly = assembly})]
=============================================================================
