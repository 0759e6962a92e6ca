--------------------------- MODULE OpenAIHostProofs ---------------------------
(***************************************************************************)
(* Which key the client of an OpenAIHost speaks with, and which roles      *)
(* reach it, for every set of configurations, keys and prompts, and for    *)
(* any number of starts, rotations and requests (the bounds only bound     *)
(* their counters).                                                        *)
(***************************************************************************)
EXTENDS OpenAIHost, TLAPS

Vetted == IF config.secretKeyName THEN Guarded ELSE WellFormed

\* The options hold a vetted key or none at all, and the only start that is
\* still waiting is one whose options hold none.
HostInv ==
  /\ config \in Configs
  /\ vault \in Keys \cup {None} /\ client \in Keys \cup {None}
  /\ options # None => options \in [apiKey : Vetted \cup {None}]
  /\ options # None /\ ~config.secretKeyName => options.apiKey # None
  /\ phase = "fetching" => options = [apiKey |-> None] /\ config.secretKeyName
  /\ phase = "up" => options # None /\ options.apiKey # None
  /\ client # None => options = [apiKey |-> client]

-----------------------------------------------------------------------------

\* Reading IOptions.Value yields a vetted key or none; none only when there is
\* a secret to fetch.
LEMMA ReadYieldsVetted ==
  ASSUME HostInv, Read
  PROVE  /\ options' = Value
         /\ Value \in [apiKey : Vetted \cup {None}]
         /\ Value # None
         /\ ~config.secretKeyName => Value.apiKey # None
         /\ client # None => Value = [apiKey |-> client]
<1>1. options' = Value
  BY DEF Read
<1>2. CASE options # None
  BY <1>1, <1>2 DEF HostInv, Value
<1>3. CASE options = None
  <2>1. Value = [apiKey |-> config.apiKey] /\ Valid(config)
    BY <1>3 DEF Value, Read
  <2>2. config.apiKey \in Vetted \cup {None}
    BY <2>1 DEF Valid, Vetted
  <2>3. ~config.secretKeyName => config.apiKey # None
    BY <2>1 DEF Valid
  <2>4. client = None
    BY <1>3, HostAssumption DEF HostInv, Vetted, HostAssumption
  <2>5. Value \in [apiKey : Vetted \cup {None}]
    BY <2>1, <2>2
  <2>6. Value # None
    BY <2>5, HostAssumption DEF Vetted, HostAssumption
  <2> QED BY <1>1, <2>1, <2>3, <2>4, <2>5, <2>6
<1> QED BY <1>2, <1>3

LEMMA HostInvStep ==
  ASSUME HostInv, [Next]_vars
  PROVE  HostInv'
<1>1. CASE StartAsync
  <2>0. UNCHANGED <<config, vault, client>> /\ Vetted' = Vetted
    BY <1>1 DEF StartAsync, Vetted
  <2>1. CASE UNCHANGED options /\ phase' = "down"
    BY <2>0, <2>1 DEF HostInv
  <2>2. CASE Read
    <3>1. HostInv!1 /\ HostInv!2
      BY DEF HostInv
    <3> QED
      BY <1>1, <2>0, <2>2, ReadYieldsVetted, <3>1
      DEF StartAsync, StartFails, StartPasses, HostInv
  <2> QED BY <1>1, <2>1, <2>2 DEF StartAsync, StartFails
<1>2. CASE FetchSecret
  <2>0. UNCHANGED <<config, vault, client>> /\ Vetted' = Vetted
    BY <1>2 DEF FetchSecret, Vetted
  <2>1. options = [apiKey |-> None] /\ config.secretKeyName /\ client = None
    BY <1>2 DEF FetchSecret, HostInv
  <2>2. CASE UNCHANGED options /\ phase' = "down"
    BY <2>0, <2>2 DEF HostInv
  <2>3. CASE /\ vault \in Guarded /\ phase' = "up"
             /\ options' = [options EXCEPT !.apiKey = vault]
    <3>1. options' = [apiKey |-> vault] /\ vault # None
      BY <2>1, <2>3, HostAssumption DEF HostAssumption
    <3>2. Vetted = Guarded
      BY <2>1 DEF Vetted
    <3>3. options' \in [apiKey : Vetted' \cup {None}] /\ options'.apiKey = vault
      BY <2>0, <2>3, <3>1, <3>2
    <3>4. config' \in Configs /\ vault' \in Keys \cup {None} /\ client' = None
      BY <2>0, <2>1 DEF HostInv
    <3>5. options' # None
      BY <3>3, HostAssumption DEF Vetted, HostAssumption
    <3> QED BY <2>3, <3>1, <3>3, <3>4, <3>5 DEF HostInv
  <2> QED BY <1>2, <2>2, <2>3 DEF FetchSecret, StartFails, StartPasses
<1>3. CASE ResolveClient
  <2>0. UNCHANGED <<config, vault, phase>> /\ Vetted' = Vetted
    BY <1>3 DEF ResolveClient, Vetted
  <2>1. Read /\ client' = Value.apiKey
    BY <1>3 DEF ResolveClient
  <2>2. Value = [apiKey |-> Value.apiKey]
    BY <2>1, ReadYieldsVetted
  <2>3. options # None => Value = options
    BY DEF Value
  <2>4. /\ options' = Value /\ Value \in [apiKey : Vetted' \cup {None}] /\ Value # None
        /\ ~config'.secretKeyName => Value.apiKey # None
    BY <2>0, <2>1, ReadYieldsVetted
  <2>5. client' \in Keys \cup {None}
    BY <2>0, <2>1, <2>4, HostAssumption DEF Vetted, HostAssumption
  <2>6. phase = "fetching" => options = [apiKey |-> None] /\ config.secretKeyName
    BY DEF HostInv
  <2>7. phase = "up" => options # None /\ options.apiKey # None
    BY DEF HostInv
  <2>8. phase = "fetching" => Value = options
    BY <2>3, <2>6, HostAssumption DEF HostAssumption
  <2>9. config' \in Configs /\ vault' \in Keys \cup {None}
    BY <2>0 DEF HostInv
  <2> QED BY <2>0, <2>1, <2>2, <2>3, <2>4, <2>5, <2>6, <2>7, <2>8, <2>9 DEF HostInv
<1>4. CASE Rotate
  BY <1>4 DEF Rotate, HostInv, Vetted
<1>5. CASE StopAsync
  BY <1>5 DEF StopAsync, HostInv, Vetted
<1>6. ASSUME UNCHANGED <<config, vault, options, phase, client>> PROVE HostInv'
  BY <1>6 DEF HostInv, Vetted
<1>7. CASE InitializeAsync \/ ShutdownAsync \/ UNCHANGED vars
  BY <1>6, <1>7 DEF InitializeAsync, ShutdownAsync, vars
<1>8. ASSUME NEW r \in Requests, NEW prompt \in Prompts \cup AnswerPrompts,
             NEW streaming \in BOOLEAN, Send(r, prompt, streaming)
      PROVE HostInv'
  BY <1>6, <1>8 DEF Send
<1>9. ASSUME NEW r \in Requests, NEW answer \in Answers, NEW debug \in BOOLEAN,
             Respond(r, answer, debug)
      PROVE HostInv'
  BY <1>6, <1>9 DEF Respond
<1> QED BY <1>1, <1>2, <1>3, <1>4, <1>5, <1>7, <1>8, <1>9 DEF Next

LEMMA HostInvInit == ASSUME Init PROVE HostInv
BY HostAssumption DEF HostAssumption, Init, HostInv

\* For any configuration and any order of starts, rotations and first uses,
\* the client only ever has a key that passed the checks of its origin.
THEOREM ClientHasAVettedKeyCorrect == Spec => []ClientHasAVettedKey
<1>1. ASSUME HostInv PROVE ClientHasAVettedKey
  <2>1. client # None => client \in Vetted \cup {None}
    BY <1>1, HostAssumption DEF HostInv, HostAssumption
  <2> QED BY <2>1 DEF ClientHasAVettedKey, Vetted
<1> QED BY <1>1, HostInvInit, HostInvStep, PTL DEF Spec

\* The key of the client is the key of the options, for as long as it lives.
THEOREM ClientAgreesWithOptionsCorrect == Spec => []ClientAgreesWithOptions
<1>1. ASSUME HostInv PROVE ClientAgreesWithOptions
  BY <1>1 DEF HostInv, ClientAgreesWithOptions
<1> QED BY <1>1, HostInvInit, HostInvStep, PTL DEF Spec

-----------------------------------------------------------------------------
(* The rest of the state.                                                  *)

\* What HostInv leaves out of the types.
RestInv ==
  /\ failure \in {"none", "canceled", "options", "notFound", "ambiguous", "invalid"}
  /\ phase \in {"down", "fetching", "up"}
  /\ initialized \in BOOLEAN /\ (initialized => client # None)
  /\ starts \in 0..MaxStarts /\ rotations \in 0..MaxRotations

LEMMA RestInvStep ==
  ASSUME HostInv, RestInv, [Next]_vars
  PROVE  RestInv'
<1>0. starts \in Nat /\ rotations \in Nat /\ MaxStarts \in Nat /\ MaxRotations \in Nat
  BY HostAssumption DEF RestInv
<1>1. CASE StartAsync
  <2>1. starts' \in 0..MaxStarts
    BY <1>0, <1>1 DEF StartAsync, RestInv
  <2>2. UNCHANGED <<client, initialized, rotations>>
    BY <1>1 DEF StartAsync
  <2>3. \/ StartPasses
        \/ phase' = "fetching" /\ UNCHANGED failure
        \/ \E error \in {"canceled", "options", "notFound", "ambiguous", "invalid"} :
             StartFails(error)
    BY <1>1 DEF StartAsync
  <2> QED
    BY <2>1, <2>2, <2>3 DEF StartFails, StartPasses, RestInv
<1>2. CASE FetchSecret
  BY <1>2 DEF FetchSecret, StartFails, StartPasses, RestInv
<1>3. CASE ResolveClient
  BY <1>3 DEF ResolveClient, RestInv
<1>4. CASE Rotate
  <2>1. rotations' \in 0..MaxRotations
    BY <1>0, <1>4 DEF Rotate, RestInv
  <2> QED
    BY <1>4, <2>1 DEF Rotate, RestInv
<1>5. CASE StopAsync \/ InitializeAsync \/ ShutdownAsync \/ UNCHANGED vars
  <2>1. CASE StopAsync
    BY <2>1 DEF StopAsync, RestInv
  <2>2. CASE InitializeAsync
    BY <2>2 DEF InitializeAsync, RestInv
  <2>3. CASE ShutdownAsync
    BY <2>3 DEF ShutdownAsync, RestInv
  <2>4. CASE UNCHANGED vars
    BY <2>4 DEF vars, RestInv
  <2> QED
    BY <1>5, <2>1, <2>2, <2>3, <2>4
<1>6. ASSUME NEW r \in Requests, NEW prompt \in Prompts \cup AnswerPrompts,
             NEW streaming \in BOOLEAN, Send(r, prompt, streaming)
      PROVE  RestInv'
  BY <1>6 DEF Send, RestInv
<1>7. ASSUME NEW r \in Requests, NEW answer \in Answers, NEW debug \in BOOLEAN,
             Respond(r, answer, debug)
      PROVE  RestInv'
  BY <1>7 DEF Respond, RestInv
<1> QED
  BY <1>1, <1>2, <1>3, <1>4, <1>5, <1>6, <1>7 DEF Next

-----------------------------------------------------------------------------
(* The requests.                                                           *)

RolesOf(prompt) == {Normalised(role) : role \in Range(prompt)}

\* The fields of a request.
Whole(q) ==
  q = [state |-> q.state, prompt |-> q.prompt, streaming |-> q.streaming, sent |-> q.sent,
       answer |-> q.answer, result |-> q.result]

\* A request keeps to the roles the provider advertises.
Fits(q) ==
  /\ Whole(q)
  /\ q.state \in {"idle", "sent", "done"}
  /\ Range(q.sent) \subseteq SupportedRoles
  /\ q.result = "capability_mismatch" =>
       \/ q.prompt = <<>> \/ ~(RolesOf(q.prompt) \subseteq SupportedRoles)
       \/ q.streaming /\ ~config.streaming

RequestInv ==
  /\ requests = [r \in Requests |-> requests[r]]
  /\ \A r \in Requests : Fits(requests[r])

\* What Send makes of an idle request, what refusing, sending and answering
\* make of one.
Asked(prompt, streaming) == [Idle EXCEPT !.prompt = prompt, !.streaming = streaming]
Refused(q, code) == [q EXCEPT !.state = "done", !.result = code]
Sent(q, sent) == [q EXCEPT !.state = "sent", !.sent = sent]
Answered(q, answer, result) ==
  [q EXCEPT !.state = "done", !.answer = answer, !.result = result]

LEMMA RequestAsked ==
  ASSUME NEW prompt, NEW streaming,
         NEW q, q = Asked(prompt, streaming)
  PROVE  /\ Whole(q) /\ q.state = "idle" /\ q.prompt = prompt /\ q.streaming = streaming
         /\ q.sent = <<>> /\ q.result = "none"
<1>1. Whole(q)
  BY DEF Whole, Idle, Asked
<1>2. /\ q.state = "idle" /\ q.prompt = prompt /\ q.streaming = streaming
      /\ q.sent = <<>> /\ q.result = "none"
  BY DEF Idle, Asked
<1> QED BY <1>1, <1>2

LEMMA RequestRefused ==
  ASSUME NEW q, Whole(q), NEW code,
         NEW p, p = Refused(q, code)
  PROVE  /\ Whole(p) /\ p.state = "done" /\ p.prompt = q.prompt
         /\ p.streaming = q.streaming /\ p.sent = q.sent /\ p.result = code
<1>1. Whole(p)
  BY DEF Whole, Refused
<1>2. /\ p.state = "done" /\ p.prompt = q.prompt
      /\ p.streaming = q.streaming /\ p.sent = q.sent /\ p.result = code
  BY DEF Whole, Refused
<1> QED BY <1>1, <1>2

LEMMA RequestSent ==
  ASSUME NEW q, Whole(q), NEW sent,
         NEW p, p = Sent(q, sent)
  PROVE  /\ Whole(p) /\ p.state = "sent" /\ p.prompt = q.prompt
         /\ p.streaming = q.streaming /\ p.sent = sent /\ p.result = q.result
<1>1. Whole(p)
  BY DEF Whole, Sent
<1>2. /\ p.state = "sent" /\ p.prompt = q.prompt
      /\ p.streaming = q.streaming /\ p.sent = sent /\ p.result = q.result
  BY DEF Whole, Sent
<1> QED BY <1>1, <1>2

LEMMA RequestAnswered ==
  ASSUME NEW q, Whole(q), NEW answer, NEW result,
         NEW p, p = Answered(q, answer, result)
  PROVE  /\ Whole(p) /\ p.state = "done" /\ p.prompt = q.prompt
         /\ p.streaming = q.streaming /\ p.sent = q.sent /\ p.result = result
<1>1. Whole(p)
  BY DEF Whole, Answered
<1>2. /\ p.state = "done" /\ p.prompt = q.prompt
      /\ p.streaming = q.streaming /\ p.sent = q.sent /\ p.result = result
  BY DEF Whole, Answered
<1> QED BY <1>1, <1>2

\* A step that puts a fitting request in the place of another keeps the rest.
LEMMA OneRequestChanges ==
  ASSUME NEW r \in Requests, RequestInv, UNCHANGED config, NEW q,
         requests' = [requests EXCEPT ![r] = q],
         Whole(q), q.state \in {"idle", "sent", "done"},
         Range(q.sent) \subseteq SupportedRoles,
         q.result = "capability_mismatch" =>
           \/ q.prompt = <<>> \/ ~(RolesOf(q.prompt) \subseteq SupportedRoles)
           \/ q.streaming /\ ~config.streaming
  PROVE  RequestInv'
<1>1. SupportedRoles' = SupportedRoles
  BY DEF SupportedRoles
<1>2. \A x \in Requests : requests'[x] = IF x = r THEN q ELSE requests[x]
  BY DEF RequestInv
<1>3. requests' = [x \in Requests |-> requests'[x]]
  BY DEF RequestInv
<1>4. \A x \in Requests : Fits(requests[x])'
  BY <1>1, <1>2 DEF RequestInv, Fits, Whole
<1> QED
  BY <1>3, <1>4 DEF RequestInv

\* What is refused for its roles has one that is not advertised, and what is
\* not refused has none.
LEMMA RolesDecide ==
  ASSUME NEW prompt, prompt # <<>>
  PROVE  ValidMessages(prompt) /\ ConvertibleRoles(prompt)
           <=> RolesOf(prompt) \subseteq SupportedRoles
<1>1. ASSUME NEW role
      PROVE  role \in SupportedRoles <=>
               /\ role \in {"system", "user", "assistant", "tool"}
               /\ role = "system" => config.system
               /\ role = "assistant" => config.assistant
               /\ role = "tool" => config.tool
  BY DEF SupportedRoles
<1>2. \A role \in {"system", "user", "assistant", "tool"} : role \notin {"", "null"}
  OBVIOUS
<1> QED
  BY <1>1, <1>2 DEF ValidMessages, ConvertibleRoles, RolesOf

LEMMA SendFits ==
  ASSUME NEW r \in Requests, NEW prompt, NEW streaming \in BOOLEAN, RequestInv,
         Send(r, prompt, streaming)
  PROVE  RequestInv'
<1> DEFINE request == Asked(prompt, streaming)
           sent == [i \in DOMAIN prompt |-> Normalised(prompt[i])]
<1>1. UNCHANGED config
  BY DEF Send
<1>2. \/ streaming /\ ~config.streaming /\ Fail(r, request, "capability_mismatch")
      \/ Fail(r, request, "provider_api_error")
      \/ /\ ~(ValidMessages(prompt) /\ ConvertibleRoles(prompt))
         /\ Fail(r, request, "capability_mismatch")
      \/ /\ ValidMessages(prompt) /\ ConvertibleRoles(prompt)
         /\ requests' = [requests EXCEPT ![r] = Sent(request, sent)]
  BY DEF Send, Asked, Sent
<1>3. /\ Whole(request) /\ request.state = "idle" /\ request.prompt = prompt
      /\ request.streaming = streaming /\ request.sent = <<>> /\ request.result = "none"
  BY RequestAsked
<1>4. Range(<<>>) = {} /\ Range(sent) = RolesOf(prompt)
  <2>1. Range(<<>>) = {}
    BY DEF Range
  <2>2. Range(sent) = {Normalised(prompt[i]) : i \in DOMAIN prompt}
    BY DEF Range
  <2>3. RolesOf(prompt) = {Normalised(prompt[i]) : i \in DOMAIN prompt}
    BY DEF Range, RolesOf
  <2> QED
    BY <2>1, <2>2, <2>3
<1>5. ValidMessages(prompt) => prompt # <<>>
  BY DEF ValidMessages
<1> HIDE DEF request, sent
<1>6. ASSUME NEW code \in {"capability_mismatch", "provider_api_error"}, Fail(r, request, code),
             code = "capability_mismatch" =>
               \/ prompt = <<>> \/ ~(RolesOf(prompt) \subseteq SupportedRoles)
               \/ streaming /\ ~config.streaming
      PROVE  RequestInv'
  <2>1. PICK q : q = Refused(request, code)
    OBVIOUS
  <2>2. requests' = [requests EXCEPT ![r] = q]
    BY <1>6, <2>1 DEF Fail, Refused
  <2>3. /\ Whole(q) /\ q.state = "done" /\ q.prompt = prompt
        /\ q.streaming = streaming /\ q.sent = <<>> /\ q.result = code
    BY <1>3, <2>1, RequestRefused
  <2> QED
    BY <1>1, <1>4, <1>6, <2>2, <2>3, OneRequestChanges
<1>7. ASSUME prompt # <<>>, RolesOf(prompt) \subseteq SupportedRoles,
             requests' = [requests EXCEPT ![r] = Sent(request, sent)]
      PROVE  RequestInv'
  <2>1. PICK q : q = Sent(request, sent)
    OBVIOUS
  <2>2. /\ Whole(q) /\ q.state = "sent" /\ q.prompt = prompt
        /\ q.streaming = streaming /\ q.sent = sent /\ q.result = "none"
    BY <1>3, <2>1, RequestSent
  <2>3. requests' = [requests EXCEPT ![r] = q]
    BY <1>7, <2>1
  <2> QED
    BY <1>1, <1>4, <1>7, <2>2, <2>3, OneRequestChanges
<1> QED
  BY <1>2, <1>5, <1>6, <1>7, RolesDecide

LEMMA RespondFits ==
  ASSUME NEW r \in Requests, NEW answer \in Answers, NEW debug \in BOOLEAN, RequestInv,
         Respond(r, answer, debug)
  PROVE  RequestInv'
<1>1. PICK q : q = Answered(requests[r], answer, Result(answer, debug))
  OBVIOUS
<1>2. UNCHANGED config /\ requests' = [requests EXCEPT ![r] = q]
  BY <1>1 DEF Respond, Answered
<1>3. Result(answer, debug) # "capability_mismatch"
  BY DEF Result, Answers
<1>4. Fits(requests[r])
  BY DEF RequestInv
<1>5. /\ Whole(q) /\ q.state = "done" /\ q.prompt = requests[r].prompt
      /\ q.streaming = requests[r].streaming /\ q.sent = requests[r].sent
      /\ q.result = Result(answer, debug)
  BY <1>1, <1>4, RequestAnswered DEF Fits
<1> QED
  BY <1>2, <1>3, <1>4, <1>5, OneRequestChanges DEF Fits

LEMMA RequestInvStep ==
  ASSUME RequestInv, [Next]_vars
  PROVE  RequestInv'
<1>1. ASSUME UNCHANGED <<config, requests>> PROVE RequestInv'
  BY <1>1 DEF RequestInv, Fits, Whole, SupportedRoles
<1>2. CASE \/ StartAsync \/ FetchSecret \/ StopAsync \/ Rotate
           \/ ResolveClient \/ InitializeAsync \/ ShutdownAsync \/ UNCHANGED vars
  BY <1>1, <1>2 DEF StartAsync, FetchSecret, StopAsync, Rotate, ResolveClient, InitializeAsync,
                    ShutdownAsync, vars
<1> QED
  BY <1>2, SendFits, RespondFits DEF Next

\* Whatever starts, fetches, rotates and answers interleave, a started host
\* has options with a key and an initialized provider has a client
\* (OpenAICompatibleProvider).
THEOREM TypeCorrect == Spec => []TypeOK
<1>1. ASSUME HostInv, RestInv, RequestInv PROVE TypeOK
  <2>1. options # None => options \in [apiKey : Keys \cup {None}]
    BY <1>1, HostAssumption DEF HostInv, Vetted
  <2>2. phase = "fetching" => options # None
    BY <1>1, HostAssumption DEF HostInv
  <2>3. \A r \in Requests : requests[r].state \in {"idle", "sent", "done"}
    BY <1>1 DEF RequestInv, Fits
  <2> QED
    BY <1>1, <2>1, <2>2, <2>3 DEF TypeOK, HostInv, RestInv
<1>2. ASSUME Init PROVE RestInv /\ RequestInv
  <2>1. RestInv
    <3>1. 0 \in 0..MaxStarts /\ 0 \in 0..MaxRotations
      BY HostAssumption
    <3> QED
      BY <1>2, <3>1 DEF Init, RestInv
  <2>2. Range(<<>>) = {}
    BY DEF Range
  <2>3. RequestInv
    BY <1>2, <2>2 DEF Init, RequestInv, Fits, Whole, Idle
  <2> QED
    BY <2>1, <2>3
<1> QED
  BY <1>1, <1>2, HostInvInit, HostInvStep, RestInvStep, RequestInvStep, PTL DEF Spec

\* For any configuration and any prompts: only advertised roles reach the
\* client, and a prompt whose roles are all advertised is not refused for
\* what it is.
THEOREM RolesAreThoseAdvertisedCorrect == Spec => []RolesAreThoseAdvertised
<1>1. ASSUME RequestInv PROVE RolesAreThoseAdvertised
  BY <1>1 DEF RequestInv, Fits, RolesOf, RolesAreThoseAdvertised
<1>2. ASSUME Init PROVE RequestInv
  <2>1. Range(<<>>) = {}
    BY DEF Range
  <2> QED
    BY <1>2, <2>1 DEF Init, RequestInv, Fits, Whole, Idle
<1> QED
  BY <1>1, <1>2, RequestInvStep, PTL DEF Spec
=============================================================================
