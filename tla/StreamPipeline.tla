---------------------------- MODULE StreamPipeline ----------------------------
(***************************************************************************)
(* How a streamed completion travels through the gateway. Per request      *)
(* three parties run concurrently: the portal library, which sends the     *)
(* provider's events into a channel; a goroutine of app/gateway, which     *)
(* classifies them and hands the results on over an unbuffered channel;    *)
(* and the HTTP handler of handler/data, which writes them to the client   *)
(* as server-sent events. All requests share the gauge of open connections *)
(* in app/stats/collector.go.                                              *)
(*                                                                         *)
(* The eight stream handlers (native and compat, four protocols) are one   *)
(* program up to the two differences kept here: only the OpenAI ones send  *)
(* [DONE], and the compat Anthropic one releases its connection already in *)
(* recover(). An event is what the branches tell apart: data, a last event *)
(* (finish reason, message_stop, response.completed), a protocol error, or *)
(* one that json.Marshal refuses, which is not the last.                   *)
(***************************************************************************)
EXTENDS Integers, Sequences, FiniteSets

CONSTANTS
  Streams,       \* streaming requests
  Calls,         \* requests answered with one JSON document
  Routes,        \* the endpoints of the data plane that are used
  CountedCalls,  \* calls whose handler counts a connection
  MaxEvents      \* bound on the events of one stream

AllRoutes == [protocol : {"chat", "responses", "anthropic", "gemini"},
              mode : {"native", "compat"}]

ASSUME StreamAssumption ==
  /\ IsFiniteSet(Streams) /\ IsFiniteSet(Calls)
  /\ Routes \subseteq AllRoutes
  /\ CountedCalls \subseteq Calls
  /\ MaxEvents \in Nat

VARIABLES
  source,    \* portal's channel of each stream: "none", "open" or "closed"
  seen,      \* events portal sent into it
  norm,      \* the goroutine: what it does, and the result it holds
  conn,      \* the handler of the stream
  gone,      \* streams whose client left: ctx is cancelled, writes may fail
  call,      \* the handlers of the calls: "idle", "running", "returned"
  gauge      \* Collector.activeConnections

vars == <<source, seen, norm, conn, gone, call, gauge>>

Kinds == {"data", "last", "error", "bad"}

\* A result carries the n-th event the goroutine recognised.
NoResult == [kind |-> "none", n |-> 0]
Results == [kind : Kinds, n : Nat \ {0}] \cup {NoResult}

\* What reaches the client: an event as data, or one of the three ends.
Ends == {"error", "DONE", "json"}
Entries == [kind : {"data"} \cup Ends, n : Nat]
End(kind) == [kind |-> kind, n |-> 0]

NoRoute == [protocol |-> "none", mode |-> "none"]

NewConn ==
  [pc |-> "idle", route |-> NoRoute, got |-> NoResult, first |-> TRUE, started |-> FALSE,
   failed |-> FALSE, broken |-> FALSE, cancelled |-> FALSE, counted |-> FALSE,
   cut |-> FALSE,     \* history: the handler stopped before the stream did
   wire |-> <<>>]     \* history: what was written

\* Seeded bug: a protocol error does not set Done.
Stops_notOnError(r) == r.kind = "last"

\* result.Done: the goroutine ends after sending such a result.
Stops(r) == r.kind \in {"last", "error"}

SendsDone(h) == h.route.protocol \in {"chat", "responses"}

\* Whether the handler's recover() releases the connection itself.
EarlyRelease(h) == h.route = [protocol |-> "anthropic", mode |-> "compat"]

\* Seeded bug: portal is given the request's context, which the handler's cancel
\* does not reach.
Cancelled_requestOnly(s) == s \in gone

\* The context portal was given: cancelled with the request's or by the handler.
Cancelled(s) == s \in gone \/ conn[s].cancelled

Put(s, h) == conn' = [conn EXCEPT ![s] = h]

\* An error event is written, unless a write failed before, and may fail itself.
ErrorWrites(s, h) ==
  IF h.broken THEN {h}
  ELSE {[h EXCEPT !.wire = Append(@, End("error"))]}
       \cup (IF s \in gone THEN {[h EXCEPT !.broken = TRUE]} ELSE {})

\* DecrementConnection: a negative count is stored back as zero.
Decremented(g) == IF g - 1 < 0 THEN 0 ELSE g - 1

Init ==
  /\ source = [s \in Streams |-> "none"]
  /\ seen = [s \in Streams |-> 0]
  /\ norm = [s \in Streams |-> [pc |-> "off", held |-> NoResult]]
  /\ conn = [s \in Streams |-> NewConn]
  /\ gone = {}
  /\ call = [c \in Calls |-> "idle"]
  /\ gauge = 0

-----------------------------------------------------------------------------
(* Portal and the client.                                                  *)

\* Portal sends an event, and the goroutine classifies it.
Receive(s, kind) ==
  /\ source[s] = "open" /\ seen[s] < MaxEvents
  /\ norm[s].pc = "receive"
  /\ seen' = [seen EXCEPT ![s] = @ + 1]
  /\ norm' = [norm EXCEPT ![s] = [pc |-> "send",
                                  held |-> [kind |-> kind, n |-> @.held.n + 1]]]
  /\ UNCHANGED <<source, conn, gone, call, gauge>>

\* An event that is nil, or of a type the goroutine does not know, is dropped.
Skip(s) ==
  /\ source[s] = "open" /\ seen[s] < MaxEvents
  /\ norm[s].pc = "receive"
  /\ seen' = [seen EXCEPT ![s] = @ + 1]
  /\ UNCHANGED <<source, norm, conn, gone, call, gauge>>

\* Portal closes its channel, for any reason at any time.
Close(s) ==
  /\ source[s] = "open"
  /\ source' = [source EXCEPT ![s] = "closed"]
  /\ UNCHANGED <<seen, norm, conn, gone, call, gauge>>

\* The client goes away while its request is being served.
Leave(s) ==
  /\ conn[s].pc \notin {"idle", "returned"}
  /\ s \notin gone
  /\ gone' = gone \cup {s}
  /\ UNCHANGED <<source, seen, norm, conn, call, gauge>>

\* The goroutine finds the source closed and closes its own channel.
SourceClosed(s) ==
  /\ norm[s].pc = "receive" /\ source[s] = "closed"
  /\ norm' = [norm EXCEPT ![s].pc = "ended"]
  /\ UNCHANGED <<source, seen, conn, gone, call, gauge>>

-----------------------------------------------------------------------------
(* The handler of a stream.                                                *)

\* The stream is opened before the connection is counted.
Open(s, route) ==
  /\ conn[s].pc = "idle"
  /\ source' = [source EXCEPT ![s] = "open"]
  /\ norm' = [norm EXCEPT ![s].pc = "receive"]
  /\ Put(s, [conn[s] EXCEPT !.pc = "count", !.route = route])
  /\ UNCHANGED <<seen, gone, call, gauge>>

Count(s) ==
  /\ conn[s].pc = "count"
  /\ gauge' = gauge + 1
  /\ Put(s, [conn[s] EXCEPT !.pc = "await", !.counted = TRUE])
  /\ UNCHANGED <<source, seen, norm, gone, call>>

\* The unbuffered channel hands a result over; the goroutine returns after the
\* last one, and otherwise goes back to its source.
Take(s) ==
  /\ conn[s].pc \in {"await", "loop"}
  /\ norm[s].pc = "send"
  /\ norm' = [norm EXCEPT ![s].pc = IF Stops(norm[s].held) THEN "ended" ELSE "receive"]
  /\ Put(s, [conn[s] EXCEPT !.pc = IF @ = "await" THEN "reply" ELSE "write",
                            !.got = norm[s].held])
  /\ UNCHANGED <<source, seen, gone, call, gauge>>

\* A closed channel: the handler gives up silently if nothing came before.
NothingCame(s) ==
  /\ conn[s].pc = "await" /\ norm[s].pc = "ended"
  /\ Put(s, [conn[s] EXCEPT !.pc = "release"])
  /\ UNCHANGED <<source, seen, norm, gone, call, gauge>>

StreamEnds(s) ==
  /\ conn[s].pc = "loop" /\ norm[s].pc = "ended"
  /\ Put(s, [conn[s] EXCEPT !.pc = "finish"])
  /\ UNCHANGED <<source, seen, norm, gone, call, gauge>>

\* Seeded bug: the handler returns without answering.
Reject_silently(s) ==
  /\ conn[s].pc = "reply" /\ conn[s].got.kind = "error"
  /\ Put(s, [conn[s] EXCEPT !.pc = "release"])
  /\ UNCHANGED <<source, seen, norm, gone, call, gauge>>

\* An error as the first result is an HTTP error, and no stream is started.
Reject(s) ==
  /\ conn[s].pc = "reply" /\ conn[s].got.kind = "error"
  /\ Put(s, [conn[s] EXCEPT !.pc = "release", !.wire = <<End("json")>>])
  /\ UNCHANGED <<source, seen, norm, gone, call, gauge>>

Start(s) ==
  /\ conn[s].pc = "reply" /\ conn[s].got.kind # "error"
  /\ Put(s, [conn[s] EXCEPT !.pc = "write", !.started = TRUE])
  /\ UNCHANGED <<source, seen, norm, gone, call, gauge>>

\* Where writeResult's TRUE leads: out of the handler after the first result,
\* and out of the loop after a later one.
Stopped(h) == IF h.first THEN "release" ELSE "finish"

Deliver(s) ==
  LET h == conn[s] IN
  /\ h.pc = "write" /\ h.got.kind \in {"data", "last"}
  /\ Put(s, [h EXCEPT !.wire = Append(@, [kind |-> "data", n |-> h.got.n]),
                      !.pc = IF Stops(h.got) THEN Stopped(h) ELSE "loop",
                      !.first = FALSE])
  /\ UNCHANGED <<source, seen, norm, gone, call, gauge>>

\* Seeded bug: a failed write does not count as a failed stream.
DeliverFails_unfailed(s) ==
  LET h == conn[s] IN
  /\ h.pc = "write" /\ h.got.kind \in {"data", "last"}
  /\ s \in gone
  /\ Put(s, [h EXCEPT !.pc = Stopped(h), !.first = FALSE,
                      !.broken = TRUE, !.cancelled = TRUE, !.cut = TRUE])
  /\ UNCHANGED <<source, seen, norm, gone, call, gauge>>

\* The write fails: no other is tried.
DeliverFails(s) ==
  LET h == conn[s] IN
  /\ h.pc = "write" /\ h.got.kind \in {"data", "last"}
  /\ s \in gone
  /\ Put(s, [h EXCEPT !.pc = Stopped(h), !.first = FALSE, !.failed = TRUE,
                      !.broken = TRUE, !.cancelled = TRUE, !.cut = TRUE])
  /\ UNCHANGED <<source, seen, norm, gone, call, gauge>>

\* Seeded bug: the failure is reported but not remembered.
ReportError_unfailed(s) ==
  LET h == conn[s] IN
  /\ h.pc = "write" /\ h.got.kind \in {"error", "bad"}
  /\ \E g \in ErrorWrites(s, [h EXCEPT !.pc = Stopped(h), !.first = FALSE,
                                       !.cancelled = TRUE,
                                       !.cut = (h.got.kind = "bad")]) : Put(s, g)
  /\ UNCHANGED <<source, seen, norm, gone, call, gauge>>

\* A protocol error, or an event json.Marshal refuses, becomes an error event.
ReportError(s) ==
  LET h == conn[s] IN
  /\ h.pc = "write" /\ h.got.kind \in {"error", "bad"}
  /\ \E g \in ErrorWrites(s, [h EXCEPT !.pc = Stopped(h), !.first = FALSE,
                                       !.failed = TRUE, !.cancelled = TRUE,
                                       !.cut = (h.got.kind = "bad")]) : Put(s, g)
  /\ UNCHANGED <<source, seen, norm, gone, call, gauge>>

\* [DONE], unless the stream failed; a write that fails only cancels.
Finish(s) ==
  LET h == [conn[s] EXCEPT !.pc = "release"] IN
  /\ conn[s].pc = "finish"
  /\ \/ /\ SendsDone(h) /\ ~h.failed
        /\ \/ Put(s, [h EXCEPT !.wire = Append(@, End("DONE"))])
           \/ s \in gone /\ Put(s, [h EXCEPT !.broken = TRUE, !.cancelled = TRUE])
     \/ ~(SendsDone(h) /\ ~h.failed) /\ Put(s, h)
  /\ UNCHANGED <<source, seen, norm, gone, call, gauge>>

\* Encoding a reply panics: the deferred recover() answers as far as it can.
Panic(s) ==
  LET early == EarlyRelease(conn[s])
      h == [conn[s] EXCEPT !.pc = "release", !.failed = TRUE, !.cancelled = TRUE,
                           !.cut = TRUE, !.counted = ~early] IN
  /\ conn[s].pc = "write" \/ (conn[s].pc = "reply" /\ conn[s].got.kind = "error")
  /\ IF h.started THEN \E g \in ErrorWrites(s, h) : Put(s, g)
     ELSE Put(s, [h EXCEPT !.wire = <<End("json")>>])
  /\ gauge' = IF early THEN Decremented(gauge) ELSE gauge
  /\ UNCHANGED <<source, seen, norm, gone, call>>

\* Seeded bug: the connection is released twice after a panic.
Release_again(s) ==
  /\ conn[s].pc = "release"
  /\ gauge' = Decremented(gauge)
  /\ Put(s, [conn[s] EXCEPT !.pc = "cancel", !.counted = FALSE])
  /\ UNCHANGED <<source, seen, norm, gone, call>>

\* The deferred releaseConnection does nothing when recover() was there first.
Release(s) ==
  /\ conn[s].pc = "release"
  /\ gauge' = IF conn[s].counted THEN Decremented(gauge) ELSE gauge
  /\ Put(s, [conn[s] EXCEPT !.pc = "cancel", !.counted = FALSE])
  /\ UNCHANGED <<source, seen, norm, gone, call>>

\* The deferred cancel runs last.
Cancel(s) ==
  /\ conn[s].pc = "cancel"
  /\ Put(s, [conn[s] EXCEPT !.pc = "returned", !.cancelled = TRUE])
  /\ UNCHANGED <<source, seen, norm, gone, call, gauge>>

-----------------------------------------------------------------------------
(* A request answered with one document: counted while portal is asked.    *)

Begin(c) ==
  /\ call[c] = "idle"
  /\ call' = [call EXCEPT ![c] = "running"]
  /\ gauge' = IF c \in CountedCalls THEN gauge + 1 ELSE gauge
  /\ UNCHANGED <<source, seen, norm, conn, gone>>

Return(c) ==
  /\ call[c] = "running"
  /\ call' = [call EXCEPT ![c] = "returned"]
  /\ gauge' = IF c \in CountedCalls THEN Decremented(gauge) ELSE gauge
  /\ UNCHANGED <<source, seen, norm, conn, gone>>

-----------------------------------------------------------------------------
Handle(s) ==
  \/ Count(s) \/ Take(s) \/ NothingCame(s) \/ StreamEnds(s)
  \/ Reject(s) \/ Start(s) \/ Deliver(s) \/ DeliverFails(s) \/ ReportError(s)
  \/ Finish(s) \/ Panic(s) \/ Release(s) \/ Cancel(s)

Next ==
  \/ \E s \in Streams : \/ \E kind \in Kinds : Receive(s, kind)
                        \/ Skip(s) \/ Close(s) \/ Leave(s) \/ SourceClosed(s)
                        \/ \E route \in Routes : Open(s, route)
                        \/ Handle(s)
  \/ \E c \in Calls : Begin(c) \/ Return(c)

\* The handler and the goroutine run, and portal closes the channel of a
\* context that is cancelled. A live provider may stay silent for ever.
Fairness ==
  \A s \in Streams :
    /\ WF_vars(Handle(s))
    /\ WF_vars(SourceClosed(s))
    /\ WF_vars(Cancelled(s) /\ Close(s))

Spec == Init /\ [][Next]_vars /\ Fairness

-----------------------------------------------------------------------------
(* Properties.                                                             *)

PCs == {"idle", "count", "await", "reply", "write", "loop", "finish", "release",
        "cancel", "returned"}

TypeOK ==
  /\ source \in [Streams -> {"none", "open", "closed"}]
  /\ seen \in [Streams -> Nat]
  /\ norm \in [Streams -> [pc : {"off", "receive", "send", "ended"}, held : Results]]
  /\ conn \in [Streams ->
       [pc : PCs, route : Routes \cup {NoRoute}, got : Results, first : BOOLEAN, started : BOOLEAN, failed : BOOLEAN,
        broken : BOOLEAN, cancelled : BOOLEAN, counted : BOOLEAN, cut : BOOLEAN,
        wire : Seq(Entries)]]
  /\ gone \subseteq Streams
  /\ call \in [Calls -> {"idle", "running", "returned"}]
  /\ gauge \in Nat
  /\ \A s \in Streams : norm[s].held.n <= seen[s] /\ seen[s] <= MaxEvents

\* The client reads the events the goroutine recognised, each once and in the
\* provider's order, then at most one end: an HTTP error, an error event or
\* [DONE], with nothing after it.
WellFormed(w) ==
  \A i \in DOMAIN w : /\ w[i].kind = "data" => w[i].n = i
                      /\ i < Len(w) => w[i].kind = "data"

WireIsWellFormed == \A s \in Streams : WellFormed(conn[s].wire)

\* [DONE] is true: every event the goroutine recognised was written before it,
\* and the goroutine has ended.
DoneMeansAll ==
  \A s \in Streams : LET w == conn[s].wire IN \A i \in DOMAIN w :
    w[i].kind = "DONE" => norm[s].pc = "ended" /\ norm[s].held.n = i - 1

\* A goroutine is left blocked on a result nobody will take only when its
\* handler was cut short by a failed write, an event that did not encode or a
\* panic; a client that leaves is not enough.
StuckOnlyIfCut ==
  \A s \in Streams : conn[s].pc = "returned" /\ norm[s].pc = "send" => conn[s].cut

\* A provider's error is not lost: it is the first thing the client reads as an
\* HTTP error, or the last thing as an error event.
ErrorIsReported ==
  \A s \in Streams : LET h == conn[s] w == h.wire IN
    h.pc = "returned" /\ norm[s].held.kind = "error" /\ ~h.cut /\ s \notin gone =>
      w # <<>> /\ w[Len(w)].kind = (IF norm[s].held.n = 1 THEN "json" ELSE "error")

\* The requests that hold a connection: from the count to the release.
Serving(s) ==
  \/ conn[s].pc \in {"await", "reply", "write", "loop", "finish"}
  \/ conn[s].pc = "release" /\ conn[s].counted

OpenStreams == {s \in Streams : Serving(s)}
OpenCalls == {c \in CountedCalls : call[c] = "running"}

\* The gauge counts the open connections, whatever order requests end in and
\* however they end; so it never goes negative and is never corrected.
GaugeCounts == gauge = Cardinality(OpenStreams) + Cardinality(OpenCalls)

\* A request ends once its client leaves or its provider closes the stream,
\* whatever the other side does; and once its handler has returned, however
\* that was, its goroutine does not wait for the provider for ever: it ends, or
\* holds a result that a handler which was cut short left to it.
RequestEnds ==
  \A s \in Streams :
    (s \in gone \/ source[s] = "closed" \/ conn[s].pc = "returned")
      ~> /\ conn[s].pc = "returned"
         /\ norm[s].pc = "ended" \/ (norm[s].pc = "send" /\ conn[s].cut)
=============================================================================
