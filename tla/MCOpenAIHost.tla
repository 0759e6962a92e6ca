----------------------------- MODULE MCOpenAIHost -----------------------------
(* OpenAIHost for TLC: the configurations and the prompts. *)
EXTENDS OpenAIHost
CONSTANTS good,   \* a key in order
          odd,    \* a secret the guard accepts and the options validator would not
          blank   \* a secret the guard refuses

Config(apiKey, secretKeyName, roles, streaming, complete) ==
  [apiKey |-> apiKey, secretKeyName |-> secretKeyName,
   system |-> "system" \in roles, assistant |-> "assistant" \in roles,
   tool |-> "tool" \in roles, streaming |-> streaming, complete |-> complete]

MCKeys == {good, odd, blank}
MCWellFormed == {good}
MCGuarded == {good, odd}

\* Every way to name the key, with the default roles; one incomplete section.
HostConfigs ==
  {Config(key, secret, {"system", "assistant"}, FALSE, TRUE) :
     key \in {None, good, odd}, secret \in BOOLEAN}
  \cup {Config(None, TRUE, {}, FALSE, FALSE)}

\* Every choice of roles and streaming.
RoleConfigs ==
  {Config(good, FALSE, roles, streaming, TRUE) :
     roles \in SUBSET {"system", "assistant", "tool"}, streaming \in BOOLEAN}

MCConfigs == HostConfigs \cup RoleConfigs

MCPrompts ==
  {<<>>, <<"USER">>, <<"user", "assistant", "tool">>, <<" System ", "user">>,
   <<"developer">>, <<"">>, <<"user", "null">>}

=============================================================================
