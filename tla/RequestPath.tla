------------------------------ MODULE RequestPath ------------------------------
(***************************************************************************)
(* How a request to /multi is told where it belongs: the routes that       *)
(* compat/routes.go and native/routes.go register, the provider that       *)
(* auth/provider.go resolves, and the check of the token by the strategy   *)
(* of that provider.                                                       *)
(*                                                                         *)
(* A request asks with the credentials it shows: per header or query       *)
(* parameter nothing, a wrong value or the configured token ("bad" is an   *)
(* Authorization header that is not "Bearer x").                           *)
(***************************************************************************)
EXTENDS ErrorMapping

\* The operations behind POST routes, the two that the Gemini route refuses,
\* and the two lists of models.
ModelCalls == {"chat", "responses", "messages", "generate", "streamGenerate"}
Refused == {"badAction", "unknownAction"}
Lists == {"models", "geminiModels"}
Routes == [plane : {"compat", "native"}, op : ModelCalls \cup Refused \cup Lists]

Credentials == {"none", "bad", "wrong", "right"}
Asks == [bearer : Credentials, xkey : Credentials \ {"bad"}, version : BOOLEAN,
         goog : Credentials \ {"bad"}, key : Credentials \ {"bad"},
         provider : {None, "openai", "anthropic", "gemini"}]

\* The protocol whose handler serves the operation.
ProtocolOf(op) ==
  CASE op \in {"chat", "responses"} -> "openai"
    [] op = "messages" -> "anthropic"
    [] op = "models" -> None
    [] OTHER -> "gemini"

\* Seeded bug: "/messages" is not recognised.
ProviderFromPath_noMessages(op) ==
  CASE op = "geminiModels" -> "gemini"
    [] op \in {"chat", "responses"} -> "openai"
    [] OTHER -> None

\* By the end of the path. "/models/x:generateContent" does not end in
\* "/generateContent".
ProviderFromPath(op) ==
  CASE op = "geminiModels" -> "gemini"
    [] op = "messages" -> "anthropic"
    [] op \in {"chat", "responses"} -> "openai"
    [] OTHER -> None

IsGemini(ask) == ask.goog # "none" \/ ask.key # "none"
IsAnthropic(ask) == ask.xkey # "none" /\ ask.version

ResolveProvider(op, ask) ==
  IF ProviderFromPath(op) # None THEN ProviderFromPath(op)
  ELSE IF ask.provider # None THEN ask.provider
  ELSE IF IsGemini(ask) THEN "gemini"
  ELSE IF IsAnthropic(ask) THEN "anthropic"
  ELSE "openai"

\* The credential of a provider's strategy. The header of Gemini comes first.
OpenAICredential(ask) == ask.bearer
AnthropicCredential(ask) == ask.xkey
GeminiCredential(ask) == IF ask.goog # "none" THEN ask.goog ELSE ask.key

Validate(provider, ask) ==
  CASE provider = "openai" -> OpenAICredential(ask) = "right"
    [] provider = "anthropic" -> AnthropicCredential(ask) = "right"
    [] provider = "gemini" -> GeminiCredential(ask) = "right"

\* Use() adds a handler to the group and the groups made from it afterwards.
\* SetupMultiRoutes makes /v1 and /v1beta before it adds the middleware to their
\* parent: only the native routes run it.
Checked(route) == route.plane = "native"

\* The provider the handlers find in the context.
Provider(route, ask) ==
  IF Checked(route) THEN ResolveProvider(route.op, ask) ELSE None

\* `required`: an API token is configured.
Admits(route, ask, required) ==
  (Checked(route) /\ required) => Validate(ResolveProvider(route.op, ask), ask)

\* A body is valid JSON of the request type or "bad"; what else the handlers
\* look at is `stream` (not for Gemini) and the model (only for Gemini).
Bodies == {"bad", "plain", "stream", "noModel"}

\* What the handler does with it: refuse it with a status, or call the gateway.
Refuses(op, body) ==
  \/ op \in Refused
  \/ op \in ModelCalls /\ body = "bad"
  \/ op \in {"generate", "streamGenerate"} /\ body = "noModel"

RefusalStatus(op) == IF op = "unknownAction" THEN 404 ELSE 400

\* Its type follows from the status, the text of the error is not needed.
Refusal(op) == PlainReply(ProtocolOf(op), RefusalStatus(op), {})

Streamed(op, body) ==
  \/ op = "streamGenerate"
  \/ op \in {"chat", "responses", "messages"} /\ body = "stream"

\* The format of a list of models, also of the error in its place.
ListFormat(op, provider) ==
  IF op = "geminiModels" THEN "gemini"
  ELSE IF provider \in {"gemini", "anthropic"} THEN provider ELSE "openai"

\* The gateway wraps what portal returns.
Wrapped(chain) ==
  <<[methods |-> <<>>, fields |-> <<>>, nested |-> <<>>, words |-> {}, is |-> "none"]>> \o chain

Ok(format) == [status |-> 200, body |-> [format |-> format, type |-> None, code |-> None]]

CallFailed(op, chain) ==
  ErrorReply(ProtocolOf(op), MapDataPlaneError(Wrapped(chain)), Words(chain))

\* An error event before anything was sent is answered with a JSON body.
StreamRejected(op, e) == ErrorReply(ProtocolOf(op), EventError(op, e), {})
=============================================================================
