----------------------------- MODULE ErrorMapping -----------------------------
(***************************************************************************)
(* What the data plane makes of an error: app/gateway/error_mapper.go      *)
(* gathers a status, a message, a type and a code from whatever the error  *)
(* and the errors it wraps offer, the stream classifiers of app/gateway    *)
(* read them from an event, and handler/data/common turns the result into  *)
(* the body each protocol prescribes.                                      *)
(*                                                                         *)
(* An error is the sequence errors.Unwrap goes through, outermost first.   *)
(* A layer is what the mapper can see of it: `methods` and exported        *)
(* `fields`, the fields of a member Error (`nested`), each a record of     *)
(* those that are there and not blank, the `words` its text adds that some *)
(* branch looks for, and the sentinel it `is` ("none" for neither).  A word stands for all the  *)
(* phrases a branch treats alike ("429" for "rate limit" too).  Provider,  *)
(* Param and Raw travel like the type and are left out.                    *)
(***************************************************************************)
EXTENDS Integers, Sequences, SequencesExt

None == ""

Valid(status) == status \in 100..599

\* defaults of mapped: both are set, so that nothing is missing later.
Unmapped ==
  [status |-> 500, message |-> "action", type |-> None, code |-> None,
   retryable |-> FALSE, http |-> TRUE]

IfEmpty(old, new) == IF old = None THEN new ELSE old

IfValid(new, old) == IF Valid(new) THEN new ELSE old

-----------------------------------------------------------------------------
\* Structured errors

\* errors.As finds the first layer that has the method, valid answer or not.
Call(chain, method, absent) ==
  LET i == SelectInSeq(chain, LAMBDA layer : method \in DOMAIN layer.methods)
  IN  IF i = 0 THEN absent ELSE chain[i].methods[method]

First(fields, names, absent) ==
  LET i == SelectInSeq(names, LAMBDA name : name \in DOMAIN fields)
  IN  IF i = 0 THEN absent ELSE fields[names[i]]

ByInterfaces(chain, out) ==
  [out EXCEPT
     !.status = IfValid(Call(chain, "HTTPStatusCode", 0),
                  IfValid(Call(chain, "GetStatusCode", 0),
                    IfValid(Call(chain, "StatusCode", 0), @))),
     !.type = IfEmpty(@, Call(chain, "Type", None)),
     !.code = IfEmpty(@, Call(chain, "Code", None)),
     !.retryable = Call(chain, "Retryable", @),
     !.http = Call(chain, "ShouldProxyAsHTTPError", @)]

StatusFields == <<"StatusCode", "HTTPStatus", "Status">>
TypeFields == <<"ErrorType", "Type">>
CodeFields == <<"ErrorCode", "Code">>

FromFields(fields, out) ==
  [out EXCEPT
     !.status = IfValid(First(fields, StatusFields, 0), @),
     !.message = First(fields, <<"Message", "Msg">>, @),
     !.type = IfEmpty(@, First(fields, TypeFields, None)),
     !.code = IfEmpty(@, First(fields, CodeFields, None))]

ByReflection(layer, out) ==
  FromFields(layer.nested,
    [FromFields(layer.fields, out) EXCEPT
       !.retryable = First(layer.fields, <<"Retryable", "IsRetryable", "Temporary">>, @),
       !.http = First(layer.fields, <<"ShouldProxyAsHTTPError", "ProxyAsHTTPError">>, @)])

\* Seeded bug: only the error itself is looked at, not what it wraps.
Extract_outermost(chain) == ByReflection(chain[1], ByInterfaces(<<chain[1]>>, Unmapped))

\* From the outermost layer to the innermost.
Extract(chain) ==
  LET out[i \in 0..Len(chain)] ==
        IF i = 0 THEN Unmapped
        ELSE ByReflection(chain[i], ByInterfaces(SubSeq(chain, i, Len(chain)), out[i - 1]))
  IN  out[Len(chain)]

-----------------------------------------------------------------------------
\* Guesses from the text

Words(chain) == UNION {chain[i].words : i \in DOMAIN chain}

\* The branches of the switch, in their order; "never" for those that ask errors.Is
\* nothing.
Case(is, words, status, type, code, retryable) ==
  [is |-> is, words |-> words, status |-> status, type |-> type, code |-> code,
   retryable |-> retryable]

Cases == <<
  Case("deadline", {"timeout", "deadline"}, 504, "timeout_error", "upstream_timeout", TRUE),
  Case("canceled", {}, 408, "request_canceled", "request_canceled", FALSE),
  Case("never", {"429", "quota"}, 429, "rate_limit_error", "rate_limit", TRUE),
  Case("never", {"auth"}, 401, "authentication_error", "auth_failed", FALSE),
  Case("never", {"404"}, 404, "not_found_error", "not_found", FALSE),
  Case("never", {"400", "invalid"}, 400, "invalid_request_error", "invalid_request", FALSE)>>

Guess(chain) ==
  SelectInSeq(Cases, LAMBDA c : \/ Words(chain) \cap c.words # {}
                                \/ \E i \in DOMAIN chain : chain[i].is = c.is)

Guessed(chain, out) ==
  LET i == Guess(chain)
  IN  IF i = 0
      THEN [out EXCEPT !.type = IF @ = None /\ out.status >= 500 THEN "internal_error" ELSE @]
      ELSE [out EXCEPT !.status = IF Valid(@) THEN @ ELSE Cases[i].status,
                       !.type = IfEmpty(@, Cases[i].type),
                       !.code = IfEmpty(@, Cases[i].code),
                       !.retryable = @ \/ Cases[i].retryable]

RetryableByStatus(status) == status \in {429, 408, 504} \/ status >= 500

MapDataPlaneError(chain) ==
  LET out == Guessed(chain, Extract(chain))
  IN  IF chain = <<>> THEN Unmapped
      ELSE [out EXCEPT !.retryable = @ \/ RetryableByStatus(out.status),
                       !.http = @ \/ Valid(out.status)]

-----------------------------------------------------------------------------
\* Errors of stream events

ProtocolError(status, message, type, code) ==
  [status |-> status, message |-> message, type |-> type, code |-> code,
   retryable |-> RetryableByStatus(status), http |-> TRUE]

\* The words of an event's code and of its message, in the order of the switch.
EventCases == <<
  [code |-> {"rate_limit", "quota"}, text |-> {"429"}, status |-> 429],
  [code |-> {"invalid", "bad_request"}, text |-> {"400"}, status |-> 400],
  [code |-> {"authentication", "unauthorized"}, text |-> {"auth"}, status |-> 401],
  [code |-> {"permission", "forbidden"}, text |-> {"forbidden"}, status |-> 403],
  [code |-> {"not_found"}, text |-> {"404"}, status |-> 404],
  [code |-> {"timeout"}, text |-> {"timeout"}, status |-> 504]>>

StatusFromCodeOrMessage(code, text) ==
  LET i == SelectInSeq(EventCases, LAMBDA c : code \in c.code \/ text \in c.text)
  IN  IF i = 0 THEN 502 ELSE EventCases[i].status

\* An event of OpenAI Responses: error, or failed with or without an error.
ResponsesError(e) ==
  IF e.kind = "failed" /\ e.bare THEN ProtocolError(502, "failed", "response_failed", e.code)
  ELSE ProtocolError(StatusFromCodeOrMessage(e.code, e.text), "upstream",
         IF e.kind = "failed" THEN "response_failed" ELSE "response_error_event", e.code)

\* Seeded bug: the status an event carries is not looked at.
ChatError_guesses(e) ==
  ProtocolError(StatusFromCodeOrMessage(e.code, e.text), "upstream",
    IfEmpty(e.type, "chat_error_event"), e.code)

\* The error of an OpenAI Chat choice, a JSON object or not.  502 is not told
\* apart from no status.
ChatError(e) ==
  IF e.bare THEN ProtocolError(502, "payload", "chat_error_event", None)
  ELSE ProtocolError(
         IF Valid(e.status) /\ e.status # 502 THEN e.status
         ELSE StatusFromCodeOrMessage(e.code, e.text),
         "upstream", IfEmpty(e.type, "chat_error_event"), e.code)

AnthropicError(e) ==
  ProtocolError(502, "upstream", IfEmpty(e.type, "upstream_protocol_error"),
                IF e.code = "error" THEN None ELSE e.code)

\* A blocked prompt, or a candidate that ended for a forbidden reason.
GeminiError(e) ==
  IF e.kind = "prompt" THEN ProtocolError(400, "blocked", "prompt_blocked", e.code)
  ELSE ProtocolError(IF e.code \in {"unexpected_tool_call", "missing_thought_signature"}
                     THEN 502 ELSE 400,
                     "upstream", "candidate_blocked", e.code)

EventError(op, e) ==
  CASE op = "chat" -> ChatError(e)
    [] op = "responses" -> ResponsesError(e)
    [] op = "messages" -> AnthropicError(e)
    [] op = "streamGenerate" -> GeminiError(e)

-----------------------------------------------------------------------------
\* Bodies

\* The first row one of the words is in, or `default`.
Detected(rows, words, default) ==
  LET i == SelectInSeq(rows, LAMBDA row : words \cap row[1] # {})
  IN  IF i = 0 THEN default ELSE rows[i][2]

DetectOpenAI(status, words) ==
  CASE status = 400 -> "invalid_request_error"
    [] status \in {401, 403} -> "authentication_error"
    [] status = 429 -> "rate_limit_error"
    [] OTHER -> Detected(<< <<{"429"}, "rate_limit_error">>,
                            <<{"auth"}, "authentication_error">>,
                            <<{"400"}, "invalid_request_error">> >>, words, "internal_error")

DetectAnthropic(status, words) ==
  CASE status = 400 -> "invalid_request_error"
    [] status \in {401, 403} -> "authentication_error"
    [] status = 404 -> "not_found_error"
    [] status = 429 -> "rate_limit_error"
    [] OTHER -> Detected(<< <<{"429"}, "rate_limit_error">>,
                            <<{"auth"}, "authentication_error">>,
                            <<{"404"}, "not_found_error">>,
                            <<{"400"}, "invalid_request_error">> >>, words, "api_error")

DetectGemini(status, words) ==
  CASE status = 400 -> "INVALID_ARGUMENT"
    [] status \in {401, 403} -> "PERMISSION_DENIED"
    [] status = 404 -> "NOT_FOUND"
    [] status = 429 -> "RESOURCE_EXHAUSTED"
    [] status = 503 -> "UNAVAILABLE"
    [] status = 504 -> "DEADLINE_EXCEEDED"
    [] status = 500 -> "INTERNAL"
    [] OTHER -> Detected(<< <<{"429", "quota"}, "RESOURCE_EXHAUSTED">>,
                            <<{"auth", "permission"}, "PERMISSION_DENIED">>,
                            <<{"404"}, "NOT_FOUND">>,
                            <<{"400", "invalid"}, "INVALID_ARGUMENT">>,
                            <<{"503"}, "UNAVAILABLE">>,
                            <<{"504", "deadline", "timeout"}, "DEADLINE_EXCEEDED">> >>,
                         words, "INTERNAL")

OpenAIBody(mapped, words) ==
  LET type == IfEmpty(mapped.type, DetectOpenAI(mapped.status, words))
  IN  [format |-> "openai", type |-> type,
       code |-> IF mapped.code = None /\ type = "internal_error" THEN type ELSE mapped.code]

AnthropicBody(mapped, words) ==
  [format |-> "anthropic", code |-> None,
   type |-> IfEmpty(mapped.type, DetectAnthropic(mapped.status, words))]

\* error.status is the code, else the type, in whatever vocabulary they are.
GeminiBody(mapped, words) ==
  [format |-> "gemini", code |-> None,
   type |-> IfEmpty(IfEmpty(mapped.code, mapped.type), DetectGemini(mapped.status, words))]

ErrorReply(format, mapped, words) ==
  [status |-> mapped.status,
   body |-> CASE format = "openai" -> OpenAIBody(mapped, words)
              [] format = "anthropic" -> AnthropicBody(mapped, words)
              [] format = "gemini" -> GeminiBody(mapped, words)]

\* A handler's own error: no DataPlaneError, the words of the error given with it.
PlainReply(format, status, words) ==
  ErrorReply(format, [Unmapped EXCEPT !.status = status], words)
=============================================================================
