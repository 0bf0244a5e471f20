------------------------------ MODULE DataPlane ------------------------------
(***************************************************************************)
(* The way of one request to /multi: the middleware, the handler, the      *)
(* gateway's answer, and the reply.  Requests share nothing on that way,   *)
(* so one is enough.  Events of a stream that carry no error are left out  *)
(* (StreamPipeline has them), the first apart: from then on the status is  *)
(* sent.                                                                   *)
(***************************************************************************)
EXTENDS RequestPath

CONSTANTS
  Shown,       \* the credentials a request may show
  Layers,      \* what a layer of an error may be
  Chains,      \* the errors portal may return
  Events,      \* per streaming operation: the error events that may arrive
  ListErrors   \* the words of the errors the database may return for a list

ASSUME ShownAssumption == Shown \subseteq Asks
ASSUME ChainsAssumption == Chains \subseteq Seq(Layers) \ {<<>>}
\* Gemini reports an error by the reason of a block or of an end, which has a name.
ASSUME EventsAssumption == \A e \in Events["streamGenerate"] : e.code # None

VARIABLES
  route, ask,   \* the request
  required,     \* whether an API token is configured
  stage,        \* how far it is
  provider,     \* what the middleware stored in the context
  chain,        \* the error the gateway returned, <<>> while there is none
  event,        \* the error event of the stream, NoEvent while there is none
  reply,        \* status and body sent
  told          \* the body of the error written into a started stream

vars == <<route, ask, required, stage, provider, chain, event, reply, told>>
request == <<route, ask, required>>

NoEvent == [kind |-> "none"]
NoBody == [format |-> None, type |-> None, code |-> None]
NoReply == [status |-> 0, body |-> NoBody]

Stages == {"arrived", "admitted", "calling", "listing", "opening", "flowing", "answered"}

Init ==
  /\ route \in Routes
  /\ ask \in Shown
  /\ required \in BOOLEAN
  /\ stage = "arrived"
  /\ provider = None
  /\ chain = <<>>
  /\ event = NoEvent
  /\ reply = NoReply
  /\ told = NoBody

Answer(r) == stage' = "answered" /\ reply' = r

\* The strategy of Anthropic answers in its protocol, the others with a text.
Denied(by) ==
  [status |-> 401,
   body |-> IF by = "anthropic"
            THEN [NoBody EXCEPT !.format = by, !.type = "authentication_error"]
            ELSE [NoBody EXCEPT !.format = "text"]]

Authenticate ==
  /\ stage = "arrived"
  /\ provider' = Provider(route, ask)
  /\ IF Admits(route, ask, required)
     THEN stage' = "admitted" /\ UNCHANGED reply
     ELSE Answer(Denied(provider'))
  /\ UNCHANGED <<request, chain, event, told>>

Refuse ==
  /\ stage = "admitted"
  /\ \E body \in Bodies : Refuses(route.op, body)
  /\ Answer(Refusal(route.op))
  /\ UNCHANGED <<request, provider, chain, event, told>>

Dispatch ==
  /\ stage = "admitted"
  /\ \E body \in Bodies :
        /\ ~Refuses(route.op, body)
        /\ stage' = CASE route.op \in Lists -> "listing"
                      [] Streamed(route.op, body) -> "opening"
                      [] OTHER -> "calling"
  /\ UNCHANGED <<request, provider, chain, event, reply, told>>

CallReturns ==
  /\ stage = "calling"
  /\ \/ Answer(Ok(ProtocolOf(route.op))) /\ UNCHANGED chain
     \/ \E c \in Chains : chain' = c /\ Answer(CallFailed(route.op, c))
  /\ UNCHANGED <<request, provider, event, told>>

ListReturns ==
  /\ stage = "listing"
  /\ LET format == ListFormat(route.op, provider)
     IN  \/ Answer(Ok(format))
         \/ \E words \in ListErrors : Answer(PlainReply(format, 500, words))
  /\ UNCHANGED <<request, provider, chain, event, told>>

\* A stream that ends before an event leaves an empty reply.
StreamStaysEmpty ==
  /\ stage = "opening"
  /\ Answer([status |-> 200, body |-> NoBody])
  /\ UNCHANGED <<request, provider, chain, event, told>>

StreamFails ==
  /\ stage = "opening"
  /\ \E e \in Events[route.op] : event' = e /\ Answer(StreamRejected(route.op, e))
  /\ UNCHANGED <<request, provider, chain, told>>

StreamStarts ==
  /\ stage = "opening"
  /\ stage' = "flowing"
  /\ reply' = Ok(ProtocolOf(route.op))
  /\ UNCHANGED <<request, provider, chain, event, told>>

StreamBreaks ==
  /\ stage = "flowing"
  /\ \E e \in Events[route.op] :
        /\ event' = e
        /\ told' = StreamRejected(route.op, e).body
  /\ stage' = "answered"
  /\ UNCHANGED <<request, provider, chain, reply>>

StreamEnds ==
  /\ stage = "flowing"
  /\ stage' = "answered"
  /\ UNCHANGED <<request, provider, chain, event, reply, told>>

Next ==
  \/ Authenticate \/ Refuse \/ Dispatch
  \/ CallReturns \/ ListReturns
  \/ StreamStaysEmpty \/ StreamFails \/ StreamStarts \/ StreamBreaks \/ StreamEnds

Spec == Init /\ [][Next]_vars

-----------------------------------------------------------------------------

TypeOK ==
  /\ route \in Routes /\ ask \in Shown /\ required \in BOOLEAN
  /\ stage \in Stages
  /\ provider \in {None, "openai", "anthropic", "gemini"}
  /\ IF stage \in {"flowing", "answered"} THEN Valid(reply.status) ELSE reply = NoReply
  /\ reply.body.format \in {None, "text", "openai", "anthropic", "gemini"}

(* A request that got past the middleware of the native routes (no 401)    *)
(* showed the token where README.md:384-386 says for the protocol of its   *)
(* route; where the path does not tell the protocol (lists of /v1, calls   *)
(* of Gemini), where that of the provider it was taken for says.           *)
NativeNeedsToken ==
  (stage # "arrived" /\ route.plane = "native" /\ required /\ reply.status # 401) =>
     LET named == CASE route.op \in {"chat", "responses"} -> "openai"
                    [] route.op = "messages" -> "anthropic"
                    [] route.op = "geminiModels" -> "gemini"
                    [] OTHER -> provider
     IN  \/ named = "openai" /\ ask.bearer = "right"
         \/ named = "anthropic" /\ ask.xkey = "right"
         \/ named = "gemini" /\ "right" \in {ask.goog, ask.key}

(* The status a layer of an error offers by itself, the most trusted       *)
(* source first; 0 for none.                                               *)
OwnStatus(layer) ==
  LET sources == <<First(layer.nested, StatusFields, 0), First(layer.fields, StatusFields, 0),
                   Call(<<layer>>, "HTTPStatusCode", 0), Call(<<layer>>, "GetStatusCode", 0),
                   Call(<<layer>>, "StatusCode", 0)>>
      i == SelectInSeq(sources, Valid)
  IN  IF i = 0 THEN 0 ELSE sources[i]

(* Errors are wrapped on their way up, and each layer may offer a status   *)
(* in several ways (error_mapper.go walks them all).  The client gets the  *)
(* status of the innermost layer that offers a valid one, whatever the     *)
(* layers around it say, and 500 if none does; what the text says is never *)
(* used for the status (error_mapper.go:21 has set one before).            *)
InnermostStatusIsSent ==
  (stage = "answered" /\ chain # <<>>) =>
     LET i == SelectLastInSeq(chain, LAMBDA layer : Valid(OwnStatus(layer)))
     IN  reply.status = IF i = 0 THEN 500 ELSE OwnStatus(chain[i])

(* What the layers of an error call its type or its code.                  *)
Names(layer, kind, fields) ==
  {First(layer.fields, fields, None), First(layer.nested, fields, None),
   Call(<<layer>>, kind, None)} \ {None}

NamedTypes == UNION {Names(chain[i], "Type", TypeFields) : i \in DOMAIN chain}

NamedCodes == UNION {Names(chain[i], "Code", CodeFields) : i \in DOMAIN chain}

(* If an error names its own type, no guess from the status or the text    *)
(* takes its place in the body the client gets; for Gemini, which shows    *)
(* the code first, the same of the code.                                   *)
NamedTypeSurvives ==
  (stage = "answered" /\ chain # <<>>) =>
     IF ProtocolOf(route.op) = "gemini"
     THEN NamedCodes # {} => reply.body.type \in NamedCodes
     ELSE NamedTypes # {} => reply.body.type \in NamedTypes

(* Types; and what a client is told of an error (error_mapper.go) is what  *)
(* the error itself says, for its status as for its type or code.          *)
ErrorInv == TypeOK /\ InnermostStatusIsSent /\ NamedTypeSurvives

(* An error event is told once: as the status and the body of the reply    *)
(* if nothing was sent, else inside the stream, which keeps its 200.  The  *)
(* status is one of an error, unless the event of a chat names another;    *)
(* what such an event names is what is sent, except for 502, which the     *)
(* code takes for no status.  The code an event carries is in the body of  *)
(* the protocols that have a place for one.                                *)
EventErrorIsTold ==
  event # NoEvent =>
     LET body == IF told = NoBody THEN reply.body ELSE told
         names == route.op = "chat" /\ ~event.bare /\ Valid(event.status) /\ event.status # 502
     IN  /\ IF told # NoBody THEN reply.status = 200
            ELSE IF names THEN reply.status = event.status ELSE reply.status >= 400
         /\ (route.op \in {"chat", "responses"} /\ ~event.bare /\ event.code # None)
               => body.code = event.code
         /\ (route.op = "streamGenerate") => body.type = event.code
         /\ body.format = ProtocolOf(route.op)
=============================================================================
