------------------------------ MODULE OpenAIHost ------------------------------
(***************************************************************************)
(* The hosting of OpenAICompatibleProvider (WithOpenAI): options that are  *)
(* validated when they are first read, a hosted service that fetches the   *)
(* API key from a credential store while the host starts, an IChatClient   *)
(* that is built from the options when the provider is first asked for,    *)
(* and requests that run beside InitializeAsync, ShutdownAsync, a restart  *)
(* of the host and a rotation of the secret.                               *)
(***************************************************************************)
EXTENDS Naturals, SequencesExt

CONSTANTS Configs,     \* configurations: [apiKey, secretKeyName, system, assistant, tool, streaming, complete]
          Keys,        \* API keys and secrets
          WellFormed,  \* keys without outer whitespace or control characters, 8 or longer
          Guarded,     \* keys SecureCredentialGuard.ValidateSecret lets pass
          None,        \* no key, no options, no client
          Requests,    \* calls of GenerateAsync or StreamGenerateAsync
          Prompts,     \* message lists: sequences of roles as the caller writes them
          MaxStarts, MaxRotations  \* bounds

ASSUME HostAssumption ==
  /\ None \notin Keys \cup [apiKey : Keys \cup {None}]
  /\ WellFormed \subseteq Keys /\ Guarded \subseteq Keys
  /\ Configs \subseteq [apiKey : Keys \cup {None}, secretKeyName : BOOLEAN,
                        system : BOOLEAN, assistant : BOOLEAN, tool : BOOLEAN,
                        streaming : BOOLEAN, complete : BOOLEAN]
  /\ MaxStarts \in Nat /\ MaxRotations \in Nat

VARIABLES
  config,       \* what the configuration section says
  options,      \* IOptions.Value: None until first read, then the instance's ApiKey
  vault,        \* the secret of the credential store, None = not found
  phase,        \* StartupValidator: "down", "fetching", "up"
  failure,      \* what the last StartAsync threw, "none" if nothing
  client,       \* key the IChatClient was built with; the provider exists iff it does
  initialized,  \* _isInitialized
  requests,     \* request -> [state, prompt, streaming, sent, answer, result]
  starts, rotations  \* counters for the bounds

vars == <<config, options, vault, phase, failure, client, initialized, requests,
          starts, rotations>>

-----------------------------------------------------------------------------
(* Options.                                                                *)

\* OpenAICompatibleProviderOptionsValidator.Validate.  complete: ids, model
\* and token limits are in order.
Valid(c) ==
  /\ c.complete
  /\ c.apiKey # None \/ c.secretKeyName
  /\ c.apiKey # None => c.apiKey \in WellFormed /\ ~c.secretKeyName

\* The ApiKey that reading IOptions.Value yields: validated once, then cached.
Value == IF options = None THEN [apiKey |-> config.apiKey] ELSE options

\* A read of IOptions.Value that did not throw.
Read == (options # None \/ Valid(config)) /\ options' = Value

-----------------------------------------------------------------------------
(* Startup.                                                                *)

Idle == [state |-> "idle", prompt |-> <<>>, streaming |-> FALSE, sent |-> <<>>,
         answer |-> "none", result |-> "none"]

Init ==
  /\ config \in Configs
  /\ options = None
  /\ vault \in Keys \cup {None}
  /\ phase = "down" /\ failure = "none"
  /\ client = None /\ initialized = FALSE
  /\ requests = [r \in Requests |-> Idle]
  /\ starts = 0 /\ rotations = 0

StartFails(error) == phase' = "down" /\ failure' = error
StartPasses == phase' = "up" /\ failure' = "none"

\* The secret is fetched at every start.
StartAsync_Refetches ==
  /\ phase = "down" /\ starts < MaxStarts
  /\ starts' = starts + 1
  /\ \/ StartFails("canceled") /\ UNCHANGED options
     \/ options = None /\ ~Valid(config) /\ StartFails("options") /\ UNCHANGED options
     \/ Read /\ config.secretKeyName /\ phase' = "fetching" /\ UNCHANGED failure
     \/ /\ Read /\ ~config.secretKeyName
        /\ IF Value.apiKey \in Guarded THEN StartPasses ELSE StartFails("invalid")
  /\ UNCHANGED <<config, vault, client, initialized, requests, rotations>>

\* StartAsync up to its await.
StartAsync ==
  /\ phase = "down" /\ starts < MaxStarts
  /\ starts' = starts + 1
  /\ \/ StartFails("canceled") /\ UNCHANGED options
     \/ options = None /\ ~Valid(config) /\ StartFails("options") /\ UNCHANGED options
     \/ /\ Read
        /\ LET hasApiKey == Value.apiKey # None
           IN \/ ~hasApiKey /\ ~config.secretKeyName /\ StartFails("notFound")
              \/ hasApiKey /\ config.secretKeyName /\ StartFails("ambiguous")
              \/ ~hasApiKey /\ config.secretKeyName /\ phase' = "fetching" /\ UNCHANGED failure
              \/ /\ hasApiKey /\ ~config.secretKeyName
                 /\ IF Value.apiKey \in Guarded THEN StartPasses ELSE StartFails("invalid")
  /\ UNCHANGED <<config, vault, client, initialized, requests, rotations>>

\* The secret is stored before it is validated.
FetchSecret_StoresFirst ==
  /\ phase = "fetching"
  /\ IF vault = None
     THEN StartFails("notFound") /\ UNCHANGED options
     ELSE /\ options' = [options EXCEPT !.apiKey = vault]
          /\ IF vault \in Guarded THEN StartPasses ELSE StartFails("invalid")
  /\ UNCHANGED <<config, vault, client, initialized, requests, starts, rotations>>

\* A store that has no secret answers with nothing, which is not looked at.
FetchSecret_MissingPasses ==
  /\ phase = "fetching"
  /\ \/ vault = None /\ StartPasses /\ UNCHANGED options
     \/ vault \notin Guarded \cup {None} /\ StartFails("invalid") /\ UNCHANGED options
     \/ vault \in Guarded /\ StartPasses /\ options' = [options EXCEPT !.apiKey = vault]
     \/ StartFails("canceled") /\ UNCHANGED options
  /\ UNCHANGED <<config, vault, client, initialized, requests, starts, rotations>>

\* The rest of StartAsync, after GetSecretAsync: the answer, or its failure.
FetchSecret ==
  /\ phase = "fetching"
  /\ \/ vault = None /\ StartFails("notFound") /\ UNCHANGED options
     \/ vault \notin Guarded \cup {None} /\ StartFails("invalid") /\ UNCHANGED options
     \/ vault \in Guarded /\ StartPasses /\ options' = [options EXCEPT !.apiKey = vault]
     \/ StartFails("canceled") /\ UNCHANGED options
  /\ UNCHANGED <<config, vault, client, initialized, requests, starts, rotations>>

\* StopAsync does nothing; the host is down and may be started again.
StopAsync ==
  /\ phase = "up"
  /\ phase' = "down"
  /\ UNCHANGED <<config, options, vault, failure, client, initialized, requests,
                 starts, rotations>>

\* The credential store, changed by its owner.
Rotate ==
  /\ rotations < MaxRotations
  /\ rotations' = rotations + 1
  /\ vault' \in (Keys \cup {None}) \ {vault}
  /\ UNCHANGED <<config, options, phase, failure, client, initialized, requests, starts>>

-----------------------------------------------------------------------------
(* The client and the provider.                                            *)

\* The first request for the provider builds the client, after
\* EnsureApiKeyResolved; a factory that throws is tried again next time.
ResolveClient ==
  /\ client = None /\ Read
  /\ client' = Value.apiKey  \* None: EnsureApiKeyResolved throws, no client
  /\ UNCHANGED <<config, vault, phase, failure, initialized, requests, starts, rotations>>

InitializeAsync ==
  /\ client # None /\ initialized' = TRUE
  /\ UNCHANGED <<config, options, vault, phase, failure, client, requests, starts, rotations>>

ShutdownAsync ==
  /\ client # None /\ initialized' = FALSE
  /\ UNCHANGED <<config, options, vault, phase, failure, client, requests, starts, rotations>>

-----------------------------------------------------------------------------
(* Requests.                                                               *)

\* Roles: what Trim and ToLowerInvariant make of the caller's spelling; a
\* role that is blank stays so, and "null" is a message without content.
Normalised(role) ==
  CASE role = " System " -> "system"
    [] role = "USER" -> "user"
    [] OTHER -> role

\* CreateModelPromptCapability: the roles the provider advertises.
SupportedRoles ==
  {"user"} \cup (IF config.system THEN {"system"} ELSE {})
           \cup (IF config.assistant THEN {"assistant"} ELSE {})
           \cup (IF config.tool THEN {"tool"} ELSE {})

\* The roles are compared as the caller wrote them.
ValidMessages_AsWritten(prompt) ==
  /\ prompt # <<>>
  /\ \A role \in Range(prompt) :
       /\ role \notin {"", "null"}
       /\ role = "system" => config.system
       /\ role = "assistant" => config.assistant
       /\ role = "tool" => config.tool

\* ValidateMessages.
ValidMessages(prompt) ==
  /\ prompt # <<>>
  /\ \A role \in {Normalised(r) : r \in Range(prompt)} :
       /\ role \notin {"", "null"}
       /\ role = "system" => config.system
       /\ role = "assistant" => config.assistant
       /\ role = "tool" => config.tool

\* ConvertRole throws for every other role.
ConvertibleRoles(prompt) ==
  {Normalised(r) : r \in Range(prompt)} \subseteq {"system", "user", "assistant", "tool"}

Fail(r, request, code) ==
  requests' = [requests EXCEPT ![r] = [request EXCEPT !.state = "done", !.result = code]]

\* The prompts of AnswerAsync: the question, after the context if there is one.
AnswerPrompts == {<<"user">>, <<"system", "user">>}

\* GenerateAsync up to its await, and StreamGenerateAsync around it.
Send(r, prompt, streaming) ==
  LET request == [Idle EXCEPT !.prompt = prompt, !.streaming = streaming] IN
  /\ client # None /\ requests[r].state = "idle"
  /\ \/ streaming /\ ~config.streaming /\ Fail(r, request, "capability_mismatch")
     \/ /\ streaming => config.streaming
        /\ \/ ~initialized /\ Fail(r, request, "provider_api_error")
           \/ /\ initialized
              /\ ~(ValidMessages(prompt) /\ ConvertibleRoles(prompt))
              /\ Fail(r, request, "capability_mismatch")
           \/ /\ initialized /\ ValidMessages(prompt) /\ ConvertibleRoles(prompt)
              /\ requests' = [requests EXCEPT ![r] =
                   [request EXCEPT !.state = "sent",
                                   !.sent = [i \in DOMAIN prompt |-> Normalised(prompt[i])]]]
  /\ UNCHANGED <<config, options, vault, phase, failure, client, initialized, starts, rotations>>

\* What GetResponseAsync can do: throw, or answer with or without text, the
\* raw form of the answer being serialisable or not.
Answers == {"canceled", "timeout", "429", "http", "otherError",
            "text", "textUnserializable", "blank"}

\* The catch clauses of GenerateAsync, and GetPrimaryText.  With Debug logging
\* CreateProjection serialises the raw answer as well.
Result(answer, debug) ==
  CASE answer = "canceled" -> "canceled"
    [] answer = "timeout" -> "provider_timeout"
    [] answer = "429" -> "rate_limited"
    [] answer \in {"http", "otherError"} -> "provider_api_error"
    [] answer = "blank" -> "invalid_provider_response"
    [] answer = "textUnserializable" /\ debug -> "invalid_provider_response"
    [] OTHER -> "text"

\* The rest of GenerateAsync.  StreamGenerateAsync hands the text on as its
\* one chunk.
Respond(r, answer, debug) ==
  /\ requests[r].state = "sent"
  /\ requests' = [requests EXCEPT ![r] =
       [@ EXCEPT !.state = "done", !.answer = answer, !.result = Result(answer, debug)]]
  /\ UNCHANGED <<config, options, vault, phase, failure, client, initialized, starts, rotations>>

Next ==
  \/ StartAsync \/ FetchSecret \/ StopAsync \/ Rotate
  \/ ResolveClient \/ InitializeAsync \/ ShutdownAsync
  \/ \E r \in Requests :
       \/ \E prompt \in Prompts, streaming \in BOOLEAN : Send(r, prompt, streaming)
       \/ \E prompt \in AnswerPrompts : Send(r, prompt, FALSE)
       \/ \E answer \in Answers, debug \in BOOLEAN : Respond(r, answer, debug)

Spec == Init /\ [][Next]_vars

-----------------------------------------------------------------------------
(* Properties.                                                             *)

TypeOK ==
  /\ config \in Configs
  /\ options \in [apiKey : Keys \cup {None}] \cup {None}
  /\ vault \in Keys \cup {None} /\ client \in Keys \cup {None}
  /\ phase \in {"down", "fetching", "up"}
  /\ failure \in {"none", "canceled", "options", "notFound", "ambiguous", "invalid"}
  /\ initialized \in BOOLEAN
  /\ initialized => client # None
  /\ phase = "fetching" => options # None
  /\ phase = "up" => options # None /\ options.apiKey # None
  /\ \A r \in Requests : requests[r].state \in {"idle", "sent", "done"}
  /\ starts \in 0..MaxStarts /\ rotations \in 0..MaxRotations

\* The key the client speaks with has passed the checks for where it comes
\* from, whatever asks for the provider first: a configured key the options
\* validator, a fetched one SecureCredentialGuard
\* (WithOpenAI_ResolvesSecretBeforeProviderUse).
ClientHasAVettedKey ==
  client # None => client \in (IF config.secretKeyName THEN Guarded ELSE WellFormed)

\* Restarts and rotations of the secret never leave the client with a key
\* other than the one in the options, which the client cannot learn of.
ClientAgreesWithOptions ==
  client # None => options = [apiKey |-> client]

\* The two places that know the roles agree: a prompt reaches the client only
\* with roles CreateModelPromptCapability advertises, and one whose roles are
\* all advertised is not refused for what it is.
RolesAreThoseAdvertised ==
  \A r \in Requests :
    LET request == requests[r]
        roles == {Normalised(role) : role \in Range(request.prompt)}
    IN /\ Range(request.sent) \subseteq SupportedRoles
       /\ request.result = "capability_mismatch" =>
            \/ request.prompt = <<>> \/ ~(roles \subseteq SupportedRoles)
            \/ request.streaming /\ ~config.streaming

\* "Do not specify both ApiKey and SecretKeyName"
\* (OpenAICompatibleProviderStartupValidator.cs:41): StartAsync says so only
\* of a configuration that specifies both.
AmbiguousOnlyIfBothConfigured ==
  failure = "ambiguous" => config.apiKey # None /\ config.secretKeyName
=============================================================================
