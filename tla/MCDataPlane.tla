----------------------------- MODULE MCDataPlane -----------------------------
EXTENDS DataPlane, TLC

Bare == [bearer |-> "none", xkey |-> "none", version |-> FALSE,
         goog |-> "none", key |-> "none", provider |-> None]

\* One or two credentials of any value, with and without the rest.
MCShown ==
  {a \in [bearer : {"none", "bad", "right"}, xkey : {"none", "wrong", "right"},
          version : BOOLEAN, goog : {"none", "wrong", "right"},
          key : {"none", "right"}, provider : {None, "openai", "anthropic", "gemini"}] :
     Cardinality({f \in {"bearer", "xkey", "goog", "key"} : a[f] # "none"}) <= 2}

Layer(methods, fields, nested, words, is) ==
  [methods |-> methods, fields |-> fields, nested |-> nested, words |-> words, is |-> is]

None0 == <<>>

\* What the layers of a chain may be: sentinels and texts, methods that answer
\* validly or not, fields, and a member Error.
MCLayers == {
  Layer(None0, None0, None0, {}, "none"),
  Layer(None0, None0, None0, {"deadline"}, "deadline"),
  Layer(None0, None0, None0, {}, "canceled"),
  Layer(None0, None0, None0, {"429"}, "none"),
  Layer(None0, None0, None0, {"404", "auth"}, "none"),
  Layer(None0, None0, None0, {"invalid"}, "none"),
  Layer([StatusCode |-> 503, Type |-> "overloaded"], None0, None0, {}, "none"),
  Layer([StatusCode |-> 401, HTTPStatusCode |-> 403, Code |-> "denied"], None0, None0, {"auth"}, "none"),
  Layer([StatusCode |-> 0, Retryable |-> TRUE], None0, None0, {}, "none"),
  Layer([GetStatusCode |-> 429, ShouldProxyAsHTTPError |-> FALSE], [Retryable |-> FALSE], None0, {}, "none"),
  Layer(None0, [HTTPStatus |-> 502, ErrorCode |-> "upstream"], None0, {}, "none"),
  Layer(None0, [StatusCode |-> 0, Status |-> 404, Message |-> "m"], None0, {"404"}, "none"),
  Layer(None0, [Status |-> 500], [StatusCode |-> 400, Type |-> "bad", Code |-> "c"], {"timeout"}, "none"),
  Layer(None0, None0, [Type |-> "inner", Message |-> "m"], {"quota"}, "none")}

MCChains == {<<a>> : a \in MCLayers} \cup {<<a, b>> : a, b \in MCLayers}

Event(kind, bare, code, text, type, status) ==
  [kind |-> kind, bare |-> bare, code |-> code, text |-> text, type |-> type, status |-> status]

ChatEvents ==
  {Event("error", TRUE, None, None, None, 0)} \cup
  {Event("error", FALSE, code, text, type, status) :
     code \in {None, "rate_limit", "not_found"}, text \in {None, "auth"},
     type \in {None, "server_error", "internal_error"}, status \in {0, 200, 400, 502}}

ResponsesEvents ==
  {Event("failed", TRUE, "cancelled", None, None, 0)} \cup
  {Event(kind, FALSE, code, text, None, 0) :
     kind \in {"failed", "error"}, code \in {None, "invalid", "forbidden"},
     text \in {None, "timeout", "429"}}

MessagesEvents ==
  {Event("error", FALSE, code, None, type, 0) :
     code \in {None, "error", "c"}, type \in {None, "overloaded_error"}}

GeminiEvents ==
  {Event("prompt", FALSE, "safety", None, None, 0)} \cup
  {Event("candidate", FALSE, code, None, None, 0) :
     code \in {"recitation", "unexpected_tool_call"}}

MCEvents == [op \in ModelCalls |->
  CASE op = "chat" -> ChatEvents
    [] op = "responses" -> ResponsesEvents
    [] op = "messages" -> MessagesEvents
    [] op = "streamGenerate" -> GeminiEvents
    [] OTHER -> {}]

MCListErrors == {{}, {"auth"}}
=============================================================================
