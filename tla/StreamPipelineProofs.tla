-------------------------- MODULE StreamPipelineProofs --------------------------
(***************************************************************************)
(* Theorems about StreamPipeline, for any finite sets of streams and calls,*)
(* any routes and any bound on the events. The inductive invariant is one  *)
(* predicate of a stream's goroutine and handler, and one of the gauge.    *)
(***************************************************************************)
EXTENDS StreamPipeline, FiniteSetTheorems, TLAPS

Norms == [pc : {"off", "receive", "send", "ended"}, held : Results]
Conns ==
  [pc : PCs, route : Routes \cup {NoRoute}, got : Results, first : BOOLEAN,
   started : BOOLEAN, failed : BOOLEAN, broken : BOOLEAN, cancelled : BOOLEAN,
   counted : BOOLEAN, cut : BOOLEAN, wire : Seq(Entries)]

\* The wire of a stream that still runs: data only, the i-th entry the i-th event.
DataOnly(w) == \A i \in DOMAIN w : w[i].kind = "data" /\ w[i].n = i

\* The goroutine is at most one result ahead of the handler, and ends no later
\* than the handler takes a last one.
InStep(m, h) ==
  /\ m.held.n = h.got.n + (IF m.pc = "send" THEN 1 ELSE 0)
  /\ m.pc # "send" => m.held = h.got
  /\ Stops(h.got) => m.pc = "ended"

Early == {"idle", "count", "await"}
Late == {"finish", "release", "cancel", "returned"}

\* What the handler knows at each of its steps.
AtStep(h) ==
  /\ h.pc \in Early => h.got = NoResult
  /\ h.pc \in Early \cup {"reply"} => h.first /\ h.wire = <<>> /\ ~h.started
  /\ h.pc \in {"reply", "write"} => Len(h.wire) = h.got.n - 1 /\ h.got # NoResult
  /\ h.pc = "loop" => /\ Len(h.wire) = h.got.n /\ h.got # NoResult
                      /\ h.got.kind # "error"
  /\ h.pc = "write" => h.got.n > 1 \/ h.got.kind # "error"
  /\ h.pc \in Early \cup {"reply", "write", "loop"} =>
       ~h.failed /\ ~h.broken /\ ~h.cut /\ DataOnly(h.wire)
  /\ h.pc = "finish" => \/ h.failed
                        \/ /\ DataOnly(h.wire) /\ Len(h.wire) = h.got.n
                           /\ h.got.kind # "error" /\ ~h.cut

\* A handler past its loop left a goroutine that ended, or was cut short.
Ended(m, h) ==
  /\ h.pc \in Late => h.cut \/ m.pc = "ended"
  /\ \A i \in DOMAIN h.wire :
       h.wire[i].kind = "DONE" => m.pc = "ended" /\ m.held.n = i - 1

Reported(h, left) ==
  h.pc \in Late /\ h.got.kind = "error" /\ ~h.cut /\ ~left =>
    /\ h.wire # <<>>
    /\ h.wire[Len(h.wire)].kind = (IF h.got.n = 1 THEN "json" ELSE "error")

Counted(h) ==
  /\ h.pc \in {"idle", "count", "cancel", "returned"} => ~h.counted
  /\ h.pc \in {"await", "reply", "write", "loop", "finish"} => h.counted

Sound(m, h, left) ==
  /\ m \in Norms /\ h \in Conns
  /\ InStep(m, h) /\ AtStep(h) /\ Ended(m, h) /\ Reported(h, left)
  /\ WellFormed(h.wire) /\ Counted(h)
  /\ m.pc = "off" <=> h.pc = "idle"

StreamInv == \A s \in Streams : Sound(norm[s], conn[s], s \in gone)

LEMMA NoResultIsResult == NoResult \in Results /\ ~Stops(NoResult) /\ NoResult.n = 0
  BY DEF NoResult, Results, Stops

LEMMA ResultFields ==
  ASSUME NEW r \in Results
  PROVE  /\ r.n \in Nat /\ r.kind \in Kinds \cup {"none"}
         /\ r # NoResult => r.n > 0 /\ r.kind \in Kinds
         /\ r.kind # "none" => r # NoResult
  BY DEF Results, NoResult, Kinds

\* Appending the next event, or an end, to a running stream's wire.
LEMMA AppendData ==
  ASSUME NEW w \in Seq(Entries), DataOnly(w), NEW n \in Nat, n = Len(w) + 1
  PROVE  LET v == Append(w, [kind |-> "data", n |-> n]) IN
           v \in Seq(Entries) /\ DataOnly(v) /\ Len(v) = n
  BY DEF DataOnly, Entries

LEMMA AppendEnd ==
  ASSUME NEW w \in Seq(Entries), DataOnly(w), NEW kind \in Ends
  PROVE  LET v == Append(w, End(kind)) IN
           /\ v \in Seq(Entries) /\ WellFormed(v) /\ Len(v) = Len(w) + 1
           /\ v[Len(v)].kind = kind
           /\ \A i \in DOMAIN v : v[i].kind = "DONE" => kind = "DONE" /\ i = Len(w) + 1
  BY DEF DataOnly, WellFormed, Entries, Ends, End

LEMMA DataIsWellFormed ==
  ASSUME NEW w, DataOnly(w)
  PROVE  WellFormed(w) /\ \A i \in DOMAIN w : w[i].kind # "DONE"
  BY DEF DataOnly, WellFormed

(***************************************************************************)
(* One lemma per kind of step, about the records alone.                    *)
(***************************************************************************)

\* Parts of Sound that a step touches only through the fields it sets.
LEMMA ReceiveSound ==
  ASSUME NEW m, NEW h, NEW left, Sound(m, h, left),
         m.pc = "receive", NEW kind \in Kinds
  PROVE  Sound([pc |-> "send", held |-> [kind |-> kind, n |-> m.held.n + 1]], h, left)
  <1> DEFINE k == [pc |-> "send", held |-> [kind |-> kind, n |-> m.held.n + 1]]
  <1>1. m.held = h.got /\ m.held \in Results /\ h.pc # "idle" /\ h \in Conns /\ h.got.n \in Nat
    BY ResultFields DEF Sound, InStep, Norms, Conns
  <1>2. k \in Norms /\ k.held # h.got /\ k.pc = "send" /\ k.held.n = h.got.n + 1
    BY <1>1, ResultFields DEF Norms, Results
  <1> HIDE DEF k
  <1>3. InStep(k, h)
    BY <1>1, <1>2 DEF InStep, Sound
  <1>4. Ended(k, h)
    BY <1>2 DEF Ended, Sound
  <1> QED BY <1>1, <1>2, <1>3, <1>4 DEF Sound, k

LEMMA CloseSound ==
  ASSUME NEW m, NEW h, NEW left, Sound(m, h, left), m.pc = "receive"
  PROVE  Sound([m EXCEPT !.pc = "ended"], h, left)
  <1> DEFINE k == [m EXCEPT !.pc = "ended"]
  <1>1. k.pc = "ended" /\ k.held = m.held /\ k \in Norms
    BY DEF Sound, Norms
  <1> HIDE DEF k
  <1> QED BY <1>1 DEF Sound, InStep, Ended, k

LEMMA OpenSound ==
  ASSUME NEW m, NEW h, NEW left, Sound(m, h, left), h.pc = "idle",
         NEW route \in Routes
  PROVE  Sound([m EXCEPT !.pc = "receive"],
               [h EXCEPT !.pc = "count", !.route = route], left)
  <1> DEFINE k == [m EXCEPT !.pc = "receive"]
             g == [h EXCEPT !.pc = "count", !.route = route]
  <1>1. k.pc = "receive" /\ k.held = m.held /\ k \in Norms /\ m.pc = "off"
    BY DEF Sound, Norms
  <1>2. g \in Conns
    BY DEF Sound, Conns, PCs
  <1>3. /\ g.pc = "count" /\ g.got = h.got /\ g.first = h.first /\ g.wire = h.wire
        /\ g.started = h.started /\ g.failed = h.failed /\ g.broken = h.broken
        /\ g.cut = h.cut /\ g.counted = h.counted
    BY DEF Sound, Conns
  <1> HIDE DEF k, g
  <1>4. InStep(k, g)
    BY <1>1, <1>3 DEF Sound, InStep
  <1>5. AtStep(g)
    BY <1>3 DEF Sound, AtStep, Early
  <1>6. Ended(k, g) /\ Reported(g, left) /\ Counted(g) /\ WellFormed(g.wire)
    BY <1>1, <1>3 DEF Sound, Ended, Reported, Counted, Late, AtStep, Early
  <1> QED BY <1>1, <1>2, <1>3, <1>4, <1>5, <1>6 DEF Sound, k, g

LEMMA CountSound ==
  ASSUME NEW m, NEW h, NEW left, Sound(m, h, left), h.pc = "count"
  PROVE  Sound(m, [h EXCEPT !.pc = "await", !.counted = TRUE], left)
  <1> DEFINE g == [h EXCEPT !.pc = "await", !.counted = TRUE]
  <1>1. g \in Conns
    BY DEF Sound, Conns, PCs
  <1>2. /\ g.pc = "await" /\ g.counted /\ g.got = h.got /\ g.first = h.first
        /\ g.wire = h.wire /\ g.started = h.started /\ g.failed = h.failed
        /\ g.broken = h.broken /\ g.cut = h.cut
    BY DEF Sound, Conns
  <1> HIDE DEF g
  <1>3. InStep(m, g) /\ Ended(m, g) /\ Reported(g, left) /\ Counted(g)
    BY <1>2 DEF Sound, InStep, Ended, Reported, Counted, Late
  <1>4. AtStep(g)
    BY <1>2 DEF Sound, AtStep, Early
  <1> QED BY <1>1, <1>2, <1>3, <1>4 DEF Sound, g

LEMMA TakeSound ==
  ASSUME NEW m, NEW h, NEW left, Sound(m, h, left),
         h.pc \in {"await", "loop"}, m.pc = "send"
  PROVE  Sound([m EXCEPT !.pc = IF Stops(m.held) THEN "ended" ELSE "receive"],
               [h EXCEPT !.pc = IF @ = "await" THEN "reply" ELSE "write",
                         !.got = m.held], left)
  <1> DEFINE k == [m EXCEPT !.pc = IF Stops(m.held) THEN "ended" ELSE "receive"]
             g == [h EXCEPT !.pc = IF @ = "await" THEN "reply" ELSE "write",
                            !.got = m.held]
  <1>1. /\ k \in Norms /\ k.held = m.held /\ k.pc # "send" /\ k.pc # "off"
        /\ Stops(m.held) => k.pc = "ended"
    BY DEF Sound, Norms
  <1>2. g \in Conns
    BY DEF Sound, Norms, Conns, PCs
  <1>3. /\ g.pc = (IF h.pc = "await" THEN "reply" ELSE "write") /\ g.got = m.held
        /\ g.first = h.first /\ g.wire = h.wire /\ g.started = h.started
        /\ g.failed = h.failed /\ g.broken = h.broken /\ g.cut = h.cut
        /\ g.counted = h.counted
    BY DEF Sound, Conns
  <1> HIDE DEF k, g
  <1>4. m.held.n = h.got.n + 1 /\ h.got.n \in Nat
    BY ResultFields DEF Sound, InStep, Conns
  <1>5. InStep(k, g)
    BY <1>1, <1>3, <1>4, ResultFields DEF Sound, Norms, InStep
  <1>6. Len(g.wire) = g.got.n - 1 /\ g.got # NoResult /\ (h.pc = "loop" => g.got.n > 1)
    <2>1. CASE h.pc = "await"
      BY <2>1, <1>3, <1>4, NoResultIsResult DEF Sound, AtStep, Early
    <2>2. CASE h.pc = "loop"
      <3>1. Len(h.wire) = h.got.n /\ h.got.n > 0
        BY <2>2, ResultFields DEF Sound, AtStep, Conns
      <3> QED BY <3>1, <2>2, <1>3, <1>4, NoResultIsResult
    <2> QED BY <2>1, <2>2
  <1>7. AtStep(g)
    BY <1>3, <1>6 DEF Sound, AtStep, Early
  <1>8. Ended(k, g) /\ Reported(g, left) /\ Counted(g)
    BY <1>1, <1>3 DEF Sound, Ended, Reported, Counted, Late, InStep
  <1> QED BY <1>1, <1>2, <1>3, <1>5, <1>7, <1>8 DEF Sound, k, g

\* Steps of the handler after which the goroutine's record is the same: what a
\* lemma below has to show of the new handler record.
LEMMA HandlerStep ==
  ASSUME NEW m, NEW h, NEW g, NEW left, Sound(m, h, left), h.pc # "idle",
         g \in Conns, g.pc # "idle", g.got = h.got,
         AtStep(g), Ended(m, g), Reported(g, left), Counted(g), WellFormed(g.wire)
  PROVE  Sound(m, g, left)
  BY DEF Sound, InStep

LEMMA NothingCameSound ==
  ASSUME NEW m, NEW h, NEW left, Sound(m, h, left),
         h.pc = "await", m.pc = "ended"
  PROVE  Sound(m, [h EXCEPT !.pc = "release"], left)
  <1> DEFINE g == [h EXCEPT !.pc = "release"]
  <1>1. /\ g \in Conns /\ g.pc = "release" /\ g.got = h.got /\ g.wire = h.wire
        /\ h.got = NoResult /\ h.wire = <<>>
    BY DEF Sound, Conns, PCs, AtStep, Early
  <1> HIDE DEF g
  <1>2. AtStep(g) /\ Counted(g)
    BY <1>1 DEF AtStep, Early, Counted
  <1>3. Ended(m, g) /\ Reported(g, left) /\ WellFormed(g.wire)
    BY <1>1 DEF Ended, Reported, WellFormed, NoResult
  <1>9. Sound(m, g, left)
    BY <1>1, <1>2, <1>3, HandlerStep
  <1> QED BY <1>9 DEF g

LEMMA StreamEndsSound ==
  ASSUME NEW m, NEW h, NEW left, Sound(m, h, left),
         h.pc = "loop", m.pc = "ended"
  PROVE  Sound(m, [h EXCEPT !.pc = "finish"], left)
  <1> DEFINE g == [h EXCEPT !.pc = "finish"]
  <1>1. /\ g \in Conns /\ g.pc = "finish" /\ g.got = h.got /\ g.wire = h.wire
        /\ g.counted = h.counted /\ g.failed = h.failed /\ g.cut = h.cut
    BY DEF Sound, Conns, PCs
  <1> HIDE DEF g
  <1>2. h.got.kind # "error"
    BY DEF Sound, AtStep
  <1>3. AtStep(g) /\ Counted(g)
    BY <1>1, <1>2 DEF Sound, AtStep, Early, Counted
  <1>4. Ended(m, g) /\ Reported(g, left) /\ WellFormed(g.wire)
    BY <1>1, <1>2 DEF Sound, Ended, Reported
  <1>9. Sound(m, g, left)
    BY <1>1, <1>3, <1>4, HandlerStep
  <1> QED BY <1>9 DEF g

LEMMA RejectSound ==
  ASSUME NEW m, NEW h, NEW left, Sound(m, h, left),
         h.pc = "reply", h.got.kind = "error"
  PROVE  Sound(m, [h EXCEPT !.pc = "release", !.wire = <<End("json")>>], left)
  <1> DEFINE g == [h EXCEPT !.pc = "release", !.wire = <<End("json")>>]
  <1>1. <<End("json")>> \in Seq(Entries)
    BY DEF End, Ends, Entries
  <1>2. /\ g \in Conns /\ g.pc = "release" /\ g.got = h.got
        /\ g.wire = <<End("json")>> /\ g.cut = h.cut
    BY <1>1 DEF Sound, Conns, PCs
  <1> HIDE DEF g
  <1>3. m.pc = "ended"
    BY DEF Sound, InStep, Stops
  <1>4. h.got.n = 1
    BY ResultFields DEF Sound, Conns, AtStep, Early
  <1>5. AtStep(g) /\ Counted(g)
    BY <1>2 DEF AtStep, Early, Counted
  <1>6. Ended(m, g) /\ Reported(g, left) /\ WellFormed(g.wire)
    BY <1>2, <1>3, <1>4 DEF Ended, Reported, WellFormed, End
  <1>9. Sound(m, g, left)
    BY <1>2, <1>5, <1>6, HandlerStep
  <1> QED BY <1>9 DEF g

LEMMA StartSound ==
  ASSUME NEW m, NEW h, NEW left, Sound(m, h, left),
         h.pc = "reply", h.got.kind # "error"
  PROVE  Sound(m, [h EXCEPT !.pc = "write", !.started = TRUE], left)
  <1> DEFINE g == [h EXCEPT !.pc = "write", !.started = TRUE]
  <1>1. /\ g \in Conns /\ g.pc = "write" /\ g.got = h.got /\ g.wire = h.wire
        /\ g.counted = h.counted /\ g.failed = h.failed /\ g.cut = h.cut
        /\ g.broken = h.broken
    BY DEF Sound, Conns, PCs
  <1> HIDE DEF g
  <1>2. AtStep(g) /\ Counted(g) /\ Ended(m, g) /\ Reported(g, left) /\ WellFormed(g.wire)
    BY <1>1 DEF Sound, AtStep, Early, Counted, Ended, Reported, Late
  <1>9. Sound(m, g, left)
    BY <1>1, <1>2, HandlerStep
  <1> QED BY <1>9 DEF g

LEMMA DeliverSound ==
  ASSUME NEW m, NEW h, NEW left, Sound(m, h, left),
         h.pc = "write", h.got.kind \in {"data", "last"}
  PROVE  Sound(m, [h EXCEPT !.wire = Append(@, [kind |-> "data", n |-> h.got.n]),
                            !.pc = IF Stops(h.got) THEN Stopped(h) ELSE "loop",
                            !.first = FALSE], left)
  <1> DEFINE v == Append(h.wire, [kind |-> "data", n |-> h.got.n])
             p == IF Stops(h.got) THEN Stopped(h) ELSE "loop"
             g == [h EXCEPT !.wire = v, !.pc = p, !.first = FALSE]
  <1>1. /\ h.wire \in Seq(Entries) /\ DataOnly(h.wire) /\ h.got.n \in Nat
        /\ h.got.n = Len(h.wire) + 1 /\ h.got # NoResult
    BY ResultFields DEF Sound, Conns, AtStep
  <1>2. v \in Seq(Entries) /\ DataOnly(v) /\ Len(v) = h.got.n
    BY <1>1, AppendData
  <1>3. WellFormed(v) /\ \A i \in DOMAIN v : v[i].kind # "DONE"
    BY <1>2, DataIsWellFormed
  <1>4. p \in {"loop", "finish", "release"} /\ (p = "loop" <=> ~Stops(h.got))
    BY DEF Stopped
  <1> HIDE DEF v, p
  <1>5. /\ g \in Conns /\ g.pc = p /\ g.got = h.got /\ g.wire = v /\ g.failed = h.failed
        /\ g.counted = h.counted /\ g.cut = h.cut /\ g.broken = h.broken
    BY <1>2, <1>4 DEF Sound, Conns, PCs
  <1>6. Stops(h.got) => m.pc = "ended"
    BY DEF Sound, InStep
  <1> HIDE DEF g
  <1>7. AtStep(g) /\ Counted(g)
    BY <1>1, <1>2, <1>4, <1>5 DEF Sound, AtStep, Early, Counted
  <1>8. Ended(m, g) /\ Reported(g, left) /\ WellFormed(g.wire)
    BY <1>3, <1>4, <1>5, <1>6 DEF Ended, Reported, Late
  <1>9. Sound(m, g, left)
    BY <1>4, <1>5, <1>7, <1>8, HandlerStep
  <1> QED BY <1>9 DEF g, v, p

LEMMA DeliverFailsSound ==
  ASSUME NEW m, NEW h, NEW left, Sound(m, h, left), h.pc = "write"
  PROVE  Sound(m, [h EXCEPT !.pc = Stopped(h), !.first = FALSE, !.failed = TRUE,
                            !.broken = TRUE, !.cancelled = TRUE, !.cut = TRUE], left)
  <1> DEFINE g == [h EXCEPT !.pc = Stopped(h), !.first = FALSE, !.failed = TRUE,
                            !.broken = TRUE, !.cancelled = TRUE, !.cut = TRUE]
  <1>1. Stopped(h) \in {"finish", "release"}
    BY DEF Stopped
  <1>2. /\ g \in Conns /\ g.pc = Stopped(h) /\ g.got = h.got /\ g.wire = h.wire
        /\ g.failed /\ g.cut /\ g.counted = h.counted
    BY <1>1 DEF Sound, Conns, PCs
  <1> HIDE DEF g
  <1>3. DataOnly(h.wire)
    BY DEF Sound, AtStep
  <1>4. AtStep(g) /\ Counted(g)
    BY <1>1, <1>2 DEF Sound, AtStep, Early, Counted
  <1>5. Ended(m, g) /\ Reported(g, left) /\ WellFormed(g.wire)
    BY <1>2, <1>3, DataIsWellFormed DEF Ended, Reported
  <1>9. Sound(m, g, left)
    BY <1>1, <1>2, <1>4, <1>5, HandlerStep
  <1> QED BY <1>9 DEF g

\* What ReportError and Panic write: an error event, or nothing.
LEMMA ErrorWritten ==
  ASSUME NEW s \in Streams, NEW f \in Conns, DataOnly(f.wire), ~f.broken,
         NEW g \in ErrorWrites(s, f)
  PROVE  /\ g \in Conns /\ WellFormed(g.wire)
         /\ g.pc = f.pc /\ g.got = f.got /\ g.failed = f.failed
         /\ g.cut = f.cut /\ g.counted = f.counted
         /\ \A i \in DOMAIN g.wire : g.wire[i].kind # "DONE"
         /\ s \notin gone => g.wire # <<>> /\ g.wire[Len(g.wire)].kind = "error"
  <1> DEFINE v == Append(f.wire, End("error"))
  <1>1. f.wire \in Seq(Entries)
    BY DEF Conns
  <1>2. /\ v \in Seq(Entries) /\ WellFormed(v) /\ Len(v) = Len(f.wire) + 1
        /\ v[Len(v)].kind = "error" /\ \A i \in DOMAIN v : v[i].kind # "DONE"
    BY <1>1, AppendEnd DEF Ends
  <1> HIDE DEF v
  <1>3. v # <<>>
    BY <1>1, <1>2
  <1>4. CASE g = [f EXCEPT !.wire = v]
    BY <1>2, <1>3, <1>4 DEF Conns
  <1>5. CASE g = [f EXCEPT !.broken = TRUE] /\ s \in gone
    BY <1>5, DataIsWellFormed DEF Conns
  <1> QED BY <1>4, <1>5 DEF ErrorWrites, v

LEMMA ReportErrorSound ==
  ASSUME NEW s \in Streams, NEW m, NEW h, Sound(m, h, s \in gone),
         h.pc = "write", h.got.kind \in {"error", "bad"},
         NEW g \in ErrorWrites(s, [h EXCEPT !.pc = Stopped(h), !.first = FALSE,
                                            !.failed = TRUE, !.cancelled = TRUE,
                                            !.cut = (h.got.kind = "bad")])
  PROVE  Sound(m, g, s \in gone)
  <1> DEFINE f == [h EXCEPT !.pc = Stopped(h), !.first = FALSE, !.failed = TRUE,
                            !.cancelled = TRUE, !.cut = (h.got.kind = "bad")]
  <1>1. Stopped(h) \in {"finish", "release"}
    BY DEF Stopped
  <1>2. /\ f \in Conns /\ f.pc = Stopped(h) /\ f.got = h.got /\ f.wire = h.wire
        /\ f.failed /\ f.cut = (h.got.kind = "bad") /\ f.counted = h.counted
        /\ f.broken = h.broken
    BY <1>1 DEF Sound, Conns, PCs
  <1>3. g \in ErrorWrites(s, f)
    OBVIOUS
  <1> HIDE DEF f
  <1>4. DataOnly(f.wire) /\ ~f.broken
    BY <1>2 DEF Sound, AtStep
  <1>5. /\ g \in Conns /\ WellFormed(g.wire)
        /\ g.pc = Stopped(h) /\ g.got = h.got /\ g.failed
        /\ g.cut = (h.got.kind = "bad") /\ g.counted = h.counted
        /\ \A i \in DOMAIN g.wire : g.wire[i].kind # "DONE"
        /\ s \notin gone => g.wire # <<>> /\ g.wire[Len(g.wire)].kind = "error"
    BY <1>2, <1>3, <1>4, ErrorWritten
  <1>6. AtStep(g) /\ Counted(g)
    BY <1>1, <1>5 DEF Sound, AtStep, Early, Counted
  <1>7. h.got.kind = "error" => m.pc = "ended" /\ h.got.n > 1
    BY DEF Sound, InStep, AtStep, Stops
  <1>8. Ended(m, g) /\ Reported(g, s \in gone)
    BY <1>5, <1>7, ResultFields DEF Sound, Conns, Ended, Reported
  <1>9. Sound(m, g, s \in gone)
    BY <1>1, <1>5, <1>6, <1>8, HandlerStep
  <1> QED BY <1>9

LEMMA FinishSound ==
  ASSUME NEW m, NEW h, NEW left, Sound(m, h, left), h.pc = "finish"
  PROVE  /\ ~h.failed => Sound(m, [[h EXCEPT !.pc = "release"]
                                     EXCEPT !.wire = Append(@, End("DONE"))], left)
         /\ left => Sound(m, [[h EXCEPT !.pc = "release"]
                                EXCEPT !.broken = TRUE, !.cancelled = TRUE], left)
         /\ Sound(m, [h EXCEPT !.pc = "release"], left)
  <1> DEFINE f == [h EXCEPT !.pc = "release"]
             v == Append(h.wire, End("DONE"))
             d == [f EXCEPT !.wire = v]
             b == [f EXCEPT !.broken = TRUE, !.cancelled = TRUE]
  <1>1. h.wire \in Seq(Entries) /\ h \in Conns /\ h.counted /\ h.got \in Results
    BY DEF Sound, Conns, Counted
  <1>2. ASSUME NEW g \in Conns, g.pc = "release", g.got = h.got, g.wire = h.wire,
               g.cut = h.cut
        PROVE  Sound(m, g, left)
    <2>1. AtStep(g) /\ Counted(g)
      BY <1>2 DEF AtStep, Early, Counted
    <2>2. Ended(m, g) /\ Reported(g, left) /\ WellFormed(g.wire)
      BY <1>2 DEF Sound, Ended, Reported, Late
    <2> QED BY <1>2, <2>1, <2>2, HandlerStep
  <1>3. Sound(m, f, left)
    BY <1>1, <1>2 DEF Conns, PCs
  <1>4. Sound(m, b, left)
    BY <1>1, <1>2 DEF Conns, PCs
  <1>5. ASSUME ~h.failed PROVE Sound(m, d, left)
    <2>1. DataOnly(h.wire) /\ Len(h.wire) = h.got.n /\ h.got.kind # "error"
      BY <1>5 DEF Sound, AtStep
    <2>2. /\ v \in Seq(Entries) /\ WellFormed(v)
          /\ \A i \in DOMAIN v : v[i].kind = "DONE" => i = h.got.n + 1
      BY <1>1, <2>1, AppendEnd DEF Ends
    <2> HIDE DEF v
    <2>3. d \in Conns /\ d.pc = "release" /\ d.got = h.got /\ d.wire = v /\ d.cut = h.cut
      BY <1>1, <2>2 DEF Conns, PCs
    <2>4. m.pc = "ended" /\ m.held = h.got
      BY <1>5 DEF Sound, Ended, Late, AtStep, InStep
    <2>5. \A i \in DOMAIN v : v[i].kind = "DONE" => m.held.n = i - 1
      BY <2>2, <2>4, <1>1, ResultFields
    <2> HIDE DEF d
    <2>6. AtStep(d) /\ Counted(d)
      BY <2>3 DEF AtStep, Early, Counted
    <2>7. Ended(m, d) /\ Reported(d, left) /\ WellFormed(d.wire)
      BY <2>1, <2>2, <2>3, <2>4, <2>5 DEF Ended, Reported
    <2> QED BY <2>3, <2>6, <2>7, HandlerStep
  <1> QED BY <1>3, <1>4, <1>5

LEMMA PanicSound ==
  ASSUME NEW s \in Streams, NEW m, NEW h, Sound(m, h, s \in gone),
         h.pc = "write" \/ (h.pc = "reply" /\ h.got.kind = "error"),
         NEW f \in Conns, f.pc = "release", f.got = h.got, f.wire = h.wire, f.cut,
         f.broken = h.broken,
         NEW g, g \in ErrorWrites(s, f) \/ g = [f EXCEPT !.wire = <<End("json")>>]
  PROVE  Sound(m, g, s \in gone) /\ g.counted = f.counted /\ g.pc = "release"
  <1>2. DataOnly(f.wire) /\ ~f.broken
    BY DEF Sound, AtStep
  <1>3. /\ g \in Conns /\ g.pc = "release" /\ g.got = h.got /\ g.cut
        /\ g.counted = f.counted /\ WellFormed(g.wire)
        /\ \A i \in DOMAIN g.wire : g.wire[i].kind # "DONE"
    <2>1. CASE g \in ErrorWrites(s, f)
      <3>1. /\ g \in Conns /\ g.pc = f.pc /\ g.got = f.got /\ g.cut = f.cut
            /\ g.counted = f.counted /\ WellFormed(g.wire)
            /\ \A i \in DOMAIN g.wire : g.wire[i].kind # "DONE"
        BY <2>1, <1>2, ErrorWritten
      <3> QED BY <3>1
    <2>2. CASE g = [f EXCEPT !.wire = <<End("json")>>]
      <3>1. <<End("json")>> \in Seq(Entries)
        BY DEF End, Ends, Entries
      <3>2. g \in Conns /\ g.wire = <<End("json")>> /\ g.pc = f.pc /\ g.got = f.got
            /\ g.cut = f.cut /\ g.counted = f.counted
        BY <2>2, <3>1 DEF Conns
      <3> QED BY <3>2 DEF WellFormed, End
    <2> QED BY <2>1, <2>2
  <1>4. AtStep(g) /\ Counted(g) /\ Ended(m, g) /\ Reported(g, s \in gone)
    BY <1>3 DEF AtStep, Early, Counted, Ended, Reported
  <1>9. Sound(m, g, s \in gone)
    BY <1>3, <1>4, HandlerStep
  <1> QED BY <1>3, <1>9

LEMMA ReleaseSound ==
  ASSUME NEW m, NEW h, NEW left, Sound(m, h, left), h.pc = "release"
  PROVE  Sound(m, [h EXCEPT !.pc = "cancel", !.counted = FALSE], left)
  <1> DEFINE g == [h EXCEPT !.pc = "cancel", !.counted = FALSE]
  <1>1. /\ g \in Conns /\ g.pc = "cancel" /\ g.got = h.got /\ g.wire = h.wire
        /\ g.cut = h.cut /\ ~g.counted
    BY DEF Sound, Conns, PCs
  <1> HIDE DEF g
  <1>2. AtStep(g) /\ Counted(g) /\ Ended(m, g) /\ Reported(g, left) /\ WellFormed(g.wire)
    BY <1>1 DEF Sound, AtStep, Early, Counted, Ended, Reported, Late
  <1>9. Sound(m, g, left)
    BY <1>1, <1>2, HandlerStep
  <1> QED BY <1>9 DEF g

LEMMA CancelSound ==
  ASSUME NEW m, NEW h, NEW left, Sound(m, h, left), h.pc = "cancel"
  PROVE  Sound(m, [h EXCEPT !.pc = "returned", !.cancelled = TRUE], left)
  <1> DEFINE g == [h EXCEPT !.pc = "returned", !.cancelled = TRUE]
  <1>1. /\ g \in Conns /\ g.pc = "returned" /\ g.got = h.got /\ g.wire = h.wire
        /\ g.cut = h.cut /\ ~g.counted
    BY DEF Sound, Conns, PCs, Counted
  <1> HIDE DEF g
  <1>2. AtStep(g) /\ Counted(g) /\ Ended(m, g) /\ Reported(g, left) /\ WellFormed(g.wire)
    BY <1>1 DEF Sound, AtStep, Early, Counted, Ended, Reported, Late
  <1>9. Sound(m, g, left)
    BY <1>1, <1>2, HandlerStep
  <1> QED BY <1>9 DEF g

LEMMA LeaveSound ==
  ASSUME NEW m, NEW h, NEW left, Sound(m, h, left)
  PROVE  Sound(m, h, TRUE)
  BY DEF Sound, Reported

(***************************************************************************)
(* The inductive invariant.                                                *)
(***************************************************************************)

Holders == {s \in Streams : conn[s].counted}

GaugeInv == gauge = Cardinality(Holders) + Cardinality(OpenCalls)

Inv == TypeOK /\ StreamInv /\ GaugeInv

LEMMA InitInv == Init => Inv
  <1> SUFFICES ASSUME Init PROVE Inv
    OBVIOUS
  <1> USE DEF Init
  <1>1. NewConn \in Conns
    BY NoResultIsResult DEF NewConn, Conns, PCs
  <1>2. [pc |-> "off", held |-> NoResult] \in Norms
    BY NoResultIsResult DEF Norms
  <1>3. TypeOK
    BY <1>1, <1>2, StreamAssumption, NoResultIsResult DEF TypeOK, Norms, Conns
  <1>4. Sound([pc |-> "off", held |-> NoResult], NewConn, FALSE)
    <2> DEFINE h == NewConn
               m == [pc |-> "off", held |-> NoResult]
    <2>1. /\ h.pc = "idle" /\ h.got = NoResult /\ h.wire = <<>> /\ h.first
          /\ ~h.started /\ ~h.failed /\ ~h.broken /\ ~h.cut /\ ~h.counted
          /\ m.pc = "off" /\ m.held = NoResult
      BY DEF NewConn
    <2>2. h \in Conns /\ m \in Norms
      BY <1>1, <1>2
    <2> HIDE DEF h, m
    <2>3. InStep(m, h)
      BY <2>1, NoResultIsResult DEF InStep
    <2>4. AtStep(h) /\ Ended(m, h) /\ Reported(h, FALSE) /\ Counted(h) /\ WellFormed(h.wire)
      BY <2>1, <2>2
      DEF AtStep, Ended, Reported, Counted, WellFormed, DataOnly, Early, Late, NoResult
    <2>5. Sound(m, h, FALSE)
      BY <2>1, <2>2, <2>3, <2>4 DEF Sound
    <2> QED BY <2>5 DEF h, m
  <1>5. StreamInv
    <2> SUFFICES ASSUME NEW s \in Streams PROVE Sound(norm[s], conn[s], s \in gone)
      BY DEF StreamInv
    <2>1. /\ norm[s] = [pc |-> "off", held |-> NoResult] /\ conn[s] = NewConn
          /\ (s \in gone) = FALSE
      OBVIOUS
    <2> QED BY <1>4, <2>1
  <1>6. Holders = {} /\ OpenCalls = {}
    BY StreamAssumption DEF Holders, OpenCalls, NewConn
  <1> QED BY <1>3, <1>5, <1>6, FS_EmptySet DEF Inv, GaugeInv

\* A step changes the records of one stream.
LEMMA OneStream ==
  ASSUME TypeOK, StreamInv, NEW t \in Streams, NEW k, NEW g,
         norm' = [norm EXCEPT ![t] = k], conn' = [conn EXCEPT ![t] = g], gone' = gone,
         Sound(k, g, t \in gone)
  PROVE  /\ StreamInv' /\ norm' \in [Streams -> Norms] /\ conn' \in [Streams -> Conns]
  <1>1. norm \in [Streams -> Norms] /\ conn \in [Streams -> Conns]
    BY DEF TypeOK, Norms, Conns
  <1>2. ASSUME NEW s \in Streams PROVE Sound(norm'[s], conn'[s], s \in gone')
    <2>1. CASE s = t
      <3>1. norm'[s] = k /\ conn'[s] = g
        BY <1>1, <2>1
      <3> QED BY <3>1, <2>1
    <2>2. CASE s # t
      <3>1. norm'[s] = norm[s] /\ conn'[s] = conn[s]
        BY <1>1, <2>2
      <3> QED BY <3>1 DEF StreamInv
    <2> QED BY <2>1, <2>2
  <1>3. k \in Norms /\ g \in Conns
    BY DEF Sound
  <1> QED BY <1>1, <1>2, <1>3 DEF StreamInv

\* A step that leaves the gauge alone changes nobody's hold on it.
LEMMA SameHolders ==
  ASSUME TypeOK, GaugeInv, NEW t \in Streams, NEW g,
         conn' = [conn EXCEPT ![t] = g], g.counted = conn[t].counted,
         gauge' = gauge, call' = call
  PROVE  GaugeInv'
  <1>1. Holders' = Holders
    BY DEF Holders, TypeOK
  <1>2. OpenCalls' = OpenCalls
    BY DEF OpenCalls
  <1> QED BY <1>1, <1>2 DEF GaugeInv

LEMMA HoldersAreFinite == IsFiniteSet(Holders) /\ IsFiniteSet(OpenCalls)
  BY StreamAssumption, FS_Subset DEF Holders, OpenCalls

LEMMA Gained ==
  ASSUME TypeOK, GaugeInv, NEW t \in Streams, NEW g,
         conn' = [conn EXCEPT ![t] = g], g.counted, ~conn[t].counted,
         gauge' = gauge + 1, call' = call
  PROVE  GaugeInv'
  <1>1. Holders' = Holders \cup {t} /\ t \notin Holders
    BY DEF Holders, TypeOK
  <1>2. OpenCalls' = OpenCalls
    BY DEF OpenCalls
  <1>3. Cardinality(Holders') = Cardinality(Holders) + 1
    BY <1>1, HoldersAreFinite, FS_AddElement
  <1>4. Cardinality(Holders) \in Nat /\ Cardinality(OpenCalls) \in Nat
    BY HoldersAreFinite, FS_CardinalityType
  <1> QED BY <1>2, <1>3, <1>4 DEF GaugeInv

\* The decrement of a holder finds the gauge positive and corrects nothing.
LEMMA Lost ==
  ASSUME TypeOK, GaugeInv, NEW t \in Streams, NEW g,
         conn' = [conn EXCEPT ![t] = g], ~g.counted, conn[t].counted,
         gauge' = Decremented(gauge), call' = call
  PROVE  GaugeInv' /\ gauge' \in Nat
  <1>1. Holders' = Holders \ {t} /\ t \in Holders
    BY DEF Holders, TypeOK
  <1>2. OpenCalls' = OpenCalls
    BY DEF OpenCalls
  <1>3. Cardinality(Holders') = Cardinality(Holders) - 1
    BY <1>1, HoldersAreFinite, FS_RemoveElement
  <1>4. Cardinality(Holders) \in Nat /\ Cardinality(OpenCalls) \in Nat
    BY HoldersAreFinite, FS_CardinalityType
  <1>5. Cardinality(Holders) # 0
    BY <1>1, HoldersAreFinite, FS_EmptySet
  <1>6. gauge \in Nat /\ gauge - 1 >= 0 /\ Decremented(gauge) = gauge - 1
    BY <1>4, <1>5 DEF GaugeInv, Decremented
  <1> QED BY <1>2, <1>3, <1>4, <1>6 DEF GaugeInv

LEMMA StreamStep ==
  ASSUME TypeOK, StreamInv, [Next]_vars
  PROVE  StreamInv' /\ norm' \in [Streams -> Norms] /\ conn' \in [Streams -> Conns]
  <1> DEFINE Goal == /\ StreamInv' /\ norm' \in [Streams -> Norms]
                     /\ conn' \in [Streams -> Conns]
  <1>1. norm \in [Streams -> Norms] /\ conn \in [Streams -> Conns]
    BY DEF TypeOK, Norms, Conns
  <1>2. ASSUME NEW t \in Streams PROVE Sound(norm[t], conn[t], t \in gone)
    BY <1>2 DEF StreamInv
  <1>3. ASSUME NEW t \in Streams PROVE norm = [norm EXCEPT ![t] = norm[t]]
    BY <1>1
  <1>4. ASSUME NEW t \in Streams PROVE conn = [conn EXCEPT ![t] = conn[t]]
    BY <1>1
  <1>5. ASSUME UNCHANGED <<norm, conn, gone>> PROVE Goal
    BY <1>1, <1>5 DEF StreamInv
  <1> HIDE DEF Goal
  <1>6. ASSUME NEW t \in Streams, NEW kind \in Kinds, Receive(t, kind) PROVE Goal
    <2> DEFINE k == [pc |-> "send", held |-> [kind |-> kind, n |-> norm[t].held.n + 1]]
    <2>1. Sound(k, conn[t], t \in gone)
      BY <1>2, <1>6, ReceiveSound DEF Receive
    <2>2. norm' = [norm EXCEPT ![t] = k] /\ conn' = [conn EXCEPT ![t] = conn[t]] /\ gone' = gone
      BY <1>4, <1>6 DEF Receive
    <2> HIDE DEF k
    <2> QED BY <2>1, <2>2, OneStream DEF Goal
  <1>7. ASSUME NEW t \in Streams, SourceClosed(t) PROVE Goal
    <2> DEFINE k == [norm[t] EXCEPT !.pc = "ended"]
    <2>1. Sound(k, conn[t], t \in gone)
      BY <1>2, <1>7, CloseSound DEF SourceClosed
    <2>2. norm' = [norm EXCEPT ![t] = k] /\ conn' = [conn EXCEPT ![t] = conn[t]] /\ gone' = gone
      BY <1>4, <1>7 DEF SourceClosed
    <2> HIDE DEF k
    <2> QED BY <2>1, <2>2, OneStream DEF Goal
  <1>8. ASSUME NEW t \in Streams, Leave(t) PROVE Goal
    <2>1. ASSUME NEW s \in Streams PROVE Sound(norm[s], conn[s], s \in gone')
      <3>1. CASE s = t
        BY <3>1, <1>2, <1>8, LeaveSound DEF Leave
      <3>2. CASE s # t
        BY <3>2, <1>2, <1>8 DEF Leave
      <3> QED BY <3>1, <3>2
    <2>2. norm' = norm /\ conn' = conn
      BY <1>8 DEF Leave
    <2> QED BY <1>1, <2>1, <2>2 DEF Goal, StreamInv
  <1>9. ASSUME NEW t \in Streams, NEW route \in Routes, Open(t, route) PROVE Goal
    <2> DEFINE k == [norm[t] EXCEPT !.pc = "receive"]
               g == [conn[t] EXCEPT !.pc = "count", !.route = route]
    <2>1. Sound(k, g, t \in gone)
      BY <1>2, <1>9, OpenSound DEF Open
    <2>2. norm' = [norm EXCEPT ![t] = k] /\ conn' = [conn EXCEPT ![t] = g] /\ gone' = gone
      BY <1>9 DEF Open, Put
    <2> HIDE DEF k, g
    <2> QED BY <2>1, <2>2, OneStream DEF Goal
  <1>10. ASSUME NEW t \in Streams, Take(t) PROVE Goal
    <2> DEFINE k == [norm[t] EXCEPT !.pc = IF Stops(norm[t].held) THEN "ended" ELSE "receive"]
               g == [conn[t] EXCEPT !.pc = IF @ = "await" THEN "reply" ELSE "write",
                                    !.got = norm[t].held]
    <2>1. Sound(k, g, t \in gone)
      BY <1>2, <1>10, TakeSound DEF Take
    <2>2. norm' = [norm EXCEPT ![t] = k] /\ conn' = [conn EXCEPT ![t] = g] /\ gone' = gone
      BY <1>10 DEF Take, Put
    <2> HIDE DEF k, g
    <2> QED BY <2>1, <2>2, OneStream DEF Goal
  \* The other steps of the handler leave the goroutine's record alone.
  <1>11. ASSUME NEW t \in Streams, NEW g, Sound(norm[t], g, t \in gone),
                Put(t, g), norm' = norm, gone' = gone
         PROVE  Goal
    BY <1>3, <1>11, OneStream DEF Put, Goal
  <1>12. ASSUME NEW t \in Streams, Count(t) PROVE Goal
    <2> DEFINE g == [conn[t] EXCEPT !.pc = "await", !.counted = TRUE]
    <2>1. Sound(norm[t], g, t \in gone)
      BY <1>2, <1>12, CountSound DEF Count
    <2>2. Put(t, g) /\ norm' = norm /\ gone' = gone
      BY <1>12 DEF Count
    <2> HIDE DEF g
    <2> QED BY <1>11, <2>1, <2>2
  <1>13. ASSUME NEW t \in Streams, NothingCame(t) PROVE Goal
    <2> DEFINE g == [conn[t] EXCEPT !.pc = "release"]
    <2>1. Sound(norm[t], g, t \in gone)
      BY <1>2, <1>13, NothingCameSound DEF NothingCame
    <2>2. Put(t, g) /\ norm' = norm /\ gone' = gone
      BY <1>13 DEF NothingCame
    <2> HIDE DEF g
    <2> QED BY <1>11, <2>1, <2>2
  <1>14. ASSUME NEW t \in Streams, StreamEnds(t) PROVE Goal
    <2> DEFINE g == [conn[t] EXCEPT !.pc = "finish"]
    <2>1. Sound(norm[t], g, t \in gone)
      BY <1>2, <1>14, StreamEndsSound DEF StreamEnds
    <2>2. Put(t, g) /\ norm' = norm /\ gone' = gone
      BY <1>14 DEF StreamEnds
    <2> HIDE DEF g
    <2> QED BY <1>11, <2>1, <2>2
  <1>15. ASSUME NEW t \in Streams, Reject(t) PROVE Goal
    <2> DEFINE g == [conn[t] EXCEPT !.pc = "release", !.wire = <<End("json")>>]
    <2>1. Sound(norm[t], g, t \in gone)
      BY <1>2, <1>15, RejectSound DEF Reject
    <2>2. Put(t, g) /\ norm' = norm /\ gone' = gone
      BY <1>15 DEF Reject
    <2> HIDE DEF g
    <2> QED BY <1>11, <2>1, <2>2
  <1>16. ASSUME NEW t \in Streams, Start(t) PROVE Goal
    <2> DEFINE g == [conn[t] EXCEPT !.pc = "write", !.started = TRUE]
    <2>1. Sound(norm[t], g, t \in gone)
      BY <1>2, <1>16, StartSound DEF Start
    <2>2. Put(t, g) /\ norm' = norm /\ gone' = gone
      BY <1>16 DEF Start
    <2> HIDE DEF g
    <2> QED BY <1>11, <2>1, <2>2
  <1>17. ASSUME NEW t \in Streams, Deliver(t) PROVE Goal
    <2> DEFINE g == [conn[t] EXCEPT
                 !.wire = Append(@, [kind |-> "data", n |-> conn[t].got.n]),
                 !.pc = IF Stops(conn[t].got) THEN Stopped(conn[t]) ELSE "loop",
                 !.first = FALSE]
    <2>1. Sound(norm[t], g, t \in gone)
      BY <1>2, <1>17, DeliverSound DEF Deliver
    <2>2. Put(t, g) /\ norm' = norm /\ gone' = gone
      BY <1>17 DEF Deliver
    <2> HIDE DEF g
    <2> QED BY <1>11, <2>1, <2>2
  <1>18. ASSUME NEW t \in Streams, DeliverFails(t) PROVE Goal
    <2> DEFINE g == [conn[t] EXCEPT
                 !.pc = Stopped(conn[t]), !.first = FALSE, !.failed = TRUE,
                 !.broken = TRUE, !.cancelled = TRUE, !.cut = TRUE]
    <2>1. Sound(norm[t], g, t \in gone)
      BY <1>2, <1>18, DeliverFailsSound DEF DeliverFails
    <2>2. Put(t, g) /\ norm' = norm /\ gone' = gone
      BY <1>18 DEF DeliverFails
    <2> HIDE DEF g
    <2> QED BY <1>11, <2>1, <2>2
  <1>19. ASSUME NEW t \in Streams, Release(t) PROVE Goal
    <2> DEFINE g == [conn[t] EXCEPT !.pc = "cancel", !.counted = FALSE]
    <2>1. Sound(norm[t], g, t \in gone)
      BY <1>2, <1>19, ReleaseSound DEF Release
    <2>2. Put(t, g) /\ norm' = norm /\ gone' = gone
      BY <1>19 DEF Release
    <2> HIDE DEF g
    <2> QED BY <1>11, <2>1, <2>2
  <1>20. ASSUME NEW t \in Streams, Cancel(t) PROVE Goal
    <2> DEFINE g == [conn[t] EXCEPT !.pc = "returned", !.cancelled = TRUE]
    <2>1. Sound(norm[t], g, t \in gone)
      BY <1>2, <1>20, CancelSound DEF Cancel
    <2>2. Put(t, g) /\ norm' = norm /\ gone' = gone
      BY <1>20 DEF Cancel
    <2> HIDE DEF g
    <2> QED BY <1>11, <2>1, <2>2
  <1>21. ASSUME NEW t \in Streams, ReportError(t) PROVE Goal
    <2> PICK g \in ErrorWrites(t, [conn[t] EXCEPT
                 !.pc = Stopped(conn[t]), !.first = FALSE, !.failed = TRUE,
                 !.cancelled = TRUE, !.cut = (conn[t].got.kind = "bad")]) : Put(t, g)
      BY <1>21 DEF ReportError
    <2>1. Sound(norm[t], g, t \in gone)
      BY <1>2, <1>21, ReportErrorSound DEF ReportError
    <2>2. norm' = norm /\ gone' = gone
      BY <1>21 DEF ReportError
    <2> QED BY <1>11, <2>1, <2>2
  <1>22. ASSUME NEW t \in Streams, Finish(t) PROVE Goal
    <2> DEFINE h == [conn[t] EXCEPT !.pc = "release"]
               d == [h EXCEPT !.wire = Append(@, End("DONE"))]
               b == [h EXCEPT !.broken = TRUE, !.cancelled = TRUE]
    <2>1. /\ ~conn[t].failed => Sound(norm[t], d, t \in gone)
          /\ t \in gone => Sound(norm[t], b, t \in gone)
          /\ Sound(norm[t], h, t \in gone)
      BY <1>2, <1>22, FinishSound DEF Finish
    <2>2. norm' = norm /\ gone' = gone /\ conn[t] \in Conns
      BY <1>1, <1>22 DEF Finish
    <2>3. h.failed = conn[t].failed
      BY <2>2 DEF Conns
    <2>4. \/ ~h.failed /\ Put(t, d)
          \/ t \in gone /\ Put(t, b)
          \/ Put(t, h)
      BY <1>22 DEF Finish
    <2> HIDE DEF h, d, b
    <2> QED BY <1>11, <2>1, <2>2, <2>3, <2>4
  <1>23. ASSUME NEW t \in Streams, Panic(t) PROVE Goal
    <2> DEFINE early == EarlyRelease(conn[t])
               f == [conn[t] EXCEPT !.pc = "release", !.failed = TRUE, !.cancelled = TRUE,
                                    !.cut = TRUE, !.counted = ~early]
    <2>1. \E g : /\ Put(t, g)
                 /\ g \in ErrorWrites(t, f) \/ g = [f EXCEPT !.wire = <<End("json")>>]
      BY <1>23 DEF Panic
    <2>2. norm' = norm /\ gone' = gone /\ conn[t] \in Conns /\ early \in BOOLEAN
      BY <1>1, <1>23 DEF Panic, EarlyRelease
    <2>3. /\ f \in Conns /\ f.pc = "release" /\ f.got = conn[t].got
          /\ f.wire = conn[t].wire /\ f.cut /\ f.counted = (~early)
          /\ f.broken = conn[t].broken
      BY <2>2 DEF Conns, PCs
    <2>4. conn[t].pc = "write" \/ (conn[t].pc = "reply" /\ conn[t].got.kind = "error")
      BY <1>23 DEF Panic
    <2> HIDE DEF f, early
    <2> PICK g : /\ Put(t, g)
                 /\ g \in ErrorWrites(t, f) \/ g = [f EXCEPT !.wire = <<End("json")>>]
      BY <2>1
    <2>5. Sound(norm[t], g, t \in gone)
      BY <1>2, <2>2, <2>3, <2>4, PanicSound
    <2> QED BY <1>11, <2>2, <2>5
  <1>24. ASSUME NEW t \in Streams, Skip(t) \/ Close(t) PROVE Goal
    BY <1>5, <1>24 DEF Skip, Close
  <1>25. ASSUME NEW c \in Calls, Begin(c) \/ Return(c) PROVE Goal
    BY <1>5, <1>25 DEF Begin, Return
  <1>26. ASSUME UNCHANGED vars PROVE Goal
    BY <1>5, <1>26 DEF vars
  <1>27. ASSUME NEW t \in Streams, Handle(t) PROVE Goal
    BY <1>27, <1>10, <1>12, <1>13, <1>14, <1>15, <1>16, <1>17, <1>18, <1>19, <1>20, <1>21, <1>22, <1>23 DEF Handle
  <1> QED BY <1>6, <1>7, <1>8, <1>9, <1>24, <1>25, <1>26, <1>27 DEF Next, Goal

\* The rest of the types: a result in hand was seen, and the bound holds.
LEMMA TypeStep ==
  ASSUME TypeOK, StreamInv, GaugeInv', [Next]_vars
  PROVE  TypeOK'
  <1>1. norm' \in [Streams -> Norms] /\ conn' \in [Streams -> Conns]
    BY StreamStep
  <1>2. gauge' \in Nat
    <2>1. IsFiniteSet(Holders') /\ IsFiniteSet(OpenCalls')
      BY StreamAssumption, FS_Subset DEF Holders, OpenCalls
    <2> QED BY <2>1, FS_CardinalityType DEF GaugeInv
  <1> DEFINE Rest == /\ source' \in [Streams -> {"none", "open", "closed"}]
                     /\ seen' \in [Streams -> Nat] /\ gone' \subseteq Streams
                     /\ call' \in [Calls -> {"idle", "running", "returned"}]
  <1>3. Rest
    <2>1. /\ source \in [Streams -> {"none", "open", "closed"}]
          /\ seen \in [Streams -> Nat] /\ gone \subseteq Streams
          /\ call \in [Calls -> {"idle", "running", "returned"}]
      BY DEF TypeOK
    <2>2. ASSUME UNCHANGED <<source, seen, gone, call>> PROVE Rest
      BY <2>1, <2>2
    <2>3. ASSUME NEW t \in Streams, NEW kind \in Kinds, Receive(t, kind) \/ Skip(t)
          PROVE  Rest
      BY <2>1, <2>3 DEF Receive, Skip
    <2>4. ASSUME NEW t \in Streams, NEW route, Open(t, route) PROVE Rest
      BY <2>1, <2>4 DEF Open
    <2>5. ASSUME NEW t \in Streams, Close(t) PROVE Rest
      BY <2>1, <2>5 DEF Close
    <2>6. ASSUME NEW t \in Streams, Leave(t) PROVE Rest
      BY <2>1, <2>6 DEF Leave
    <2>7. ASSUME NEW t \in Streams, SourceClosed(t) \/ Handle(t) PROVE Rest
      BY <2>2, <2>7
      DEF SourceClosed, Handle, Count, Take, NothingCame, StreamEnds, Reject, Start,
          Deliver, DeliverFails, ReportError, Finish, Panic, Release, Cancel
    <2>8. ASSUME NEW c \in Calls, Begin(c) \/ Return(c) PROVE Rest
      BY <2>1, <2>8 DEF Begin, Return
    <2>9. UNCHANGED vars => Rest
      BY <2>2 DEF vars
    <2>10. "data" \in Kinds
      BY DEF Kinds
    <2> QED BY <2>3, <2>4, <2>5, <2>6, <2>7, <2>8, <2>9, <2>10 DEF Next
  <1>4. ASSUME NEW s \in Streams
        PROVE  norm'[s].held.n <= seen'[s] /\ seen'[s] <= MaxEvents
    <2>1. norm[s].held.n <= seen[s] /\ seen[s] <= MaxEvents
      BY DEF TypeOK
    <2>2. norm[s].held.n \in Nat /\ seen[s] \in Nat /\ MaxEvents \in Nat
      BY StreamAssumption, ResultFields DEF TypeOK
    <2> USE DEF TypeOK
    <2>3. ASSUME NEW t \in Streams, NEW kind \in Kinds, Receive(t, kind)
          PROVE  norm'[s].held.n <= seen'[s] /\ seen'[s] <= MaxEvents
      BY <2>1, <2>2, <2>3 DEF Receive
    <2>4. ASSUME NEW t \in Streams, Skip(t)
          PROVE  norm'[s].held.n <= seen'[s] /\ seen'[s] <= MaxEvents
      BY <2>1, <2>2, <2>4 DEF Skip
    <2>5. ASSUME seen' = seen, norm'[s].held = norm[s].held
          PROVE  norm'[s].held.n <= seen'[s] /\ seen'[s] <= MaxEvents
      BY <2>1, <2>5
    <2>6. ASSUME NEW t \in Streams, NEW route \in Routes, Open(t, route)
          PROVE  seen' = seen /\ norm'[s].held = norm[s].held
      BY <2>6 DEF Open
    <2>7. ASSUME NEW t \in Streams, SourceClosed(t) \/ Take(t)
          PROVE  seen' = seen /\ norm'[s].held = norm[s].held
      <3>1. PICK q : norm' = [norm EXCEPT ![t].pc = q]
        BY <2>7 DEF SourceClosed, Take
      <3>2. norm'[s].held = norm[s].held
        BY <3>1
      <3> QED BY <2>7, <3>2 DEF SourceClosed, Take
    <2>8. ASSUME NEW t \in Streams, Close(t) \/ Leave(t) \/ Handle(t), ~Take(t)
          PROVE  seen' = seen /\ norm' = norm
      BY <2>8 DEF Close, Leave, Handle, Count, NothingCame, StreamEnds, Reject, Start,
                  Deliver, DeliverFails, ReportError, Finish, Panic, Release, Cancel
    <2>9. ASSUME NEW c \in Calls, Begin(c) \/ Return(c)
          PROVE  seen' = seen /\ norm' = norm
      BY <2>9 DEF Begin, Return
    <2>10. UNCHANGED vars => seen' = seen /\ norm' = norm
      BY DEF vars
    <2> QED BY <2>3, <2>4, <2>5, <2>6, <2>7, <2>8, <2>9, <2>10 DEF Next
  <1> QED BY <1>1, <1>2, <1>3, <1>4 DEF TypeOK, Norms, Conns

\* Counting, releasing, and the calls move the gauge; nothing else does.
LEMMA GaugeStep ==
  ASSUME TypeOK, StreamInv, GaugeInv, [Next]_vars
  PROVE  GaugeInv'
  <1>1. ASSUME NEW t \in Streams PROVE conn[t] \in Conns /\ Counted(conn[t])
    BY <1>1 DEF StreamInv, Sound
  <1>2. ASSUME UNCHANGED <<conn, call, gauge>> PROVE GaugeInv'
    <2>1. Holders' = Holders /\ OpenCalls' = OpenCalls
      BY <1>2 DEF Holders, OpenCalls
    <2> QED BY <2>1, <1>2 DEF GaugeInv
  <1>3. ASSUME NEW t \in Streams, NEW g, Put(t, g), g.counted = conn[t].counted,
               call' = call, gauge' = gauge
        PROVE  GaugeInv'
    BY <1>3, SameHolders DEF Put
  <1>4. ASSUME NEW t \in Streams, NEW route \in Routes, Open(t, route) PROVE GaugeInv'
    <2> DEFINE g == [conn[t] EXCEPT !.pc = "count", !.route = route]
    <2>1. g.counted = conn[t].counted
      BY <1>1 DEF Conns
    <2>2. Put(t, g) /\ call' = call /\ gauge' = gauge
      BY <1>4 DEF Open
    <2> HIDE DEF g
    <2> QED BY <1>3, <2>1, <2>2
  <1>5. ASSUME NEW t \in Streams, Count(t) PROVE GaugeInv'
    <2> DEFINE g == [conn[t] EXCEPT !.pc = "await", !.counted = TRUE]
    <2>1. g.counted /\ ~conn[t].counted
      BY <1>1, <1>5 DEF Conns, Counted, Count
    <2>2. conn' = [conn EXCEPT ![t] = g] /\ call' = call /\ gauge' = gauge + 1
      BY <1>5 DEF Count, Put
    <2> HIDE DEF g
    <2> QED BY <2>1, <2>2, Gained
  <1>6. ASSUME NEW t \in Streams, Release(t) PROVE GaugeInv'
    <2> DEFINE g == [conn[t] EXCEPT !.pc = "cancel", !.counted = FALSE]
    <2>1. ~g.counted
      BY <1>1 DEF Conns
    <2>2. /\ Put(t, g) /\ call' = call
          /\ gauge' = IF conn[t].counted THEN Decremented(gauge) ELSE gauge
      BY <1>6 DEF Release
    <2>3. conn[t].counted \in BOOLEAN
      BY <1>1 DEF Conns
    <2> HIDE DEF g
    <2>4. CASE conn[t].counted
      BY <2>1, <2>2, <2>4, Lost DEF Put
    <2>5. CASE ~conn[t].counted
      <3>1. Holders' = Holders
        BY <2>1, <2>2, <2>5 DEF Holders, Put, TypeOK
      <3>2. OpenCalls' = OpenCalls /\ gauge' = gauge
        BY <2>2, <2>5 DEF OpenCalls
      <3> QED BY <3>1, <3>2 DEF GaugeInv
    <2> QED BY <2>4, <2>5
  <1>7. ASSUME NEW t \in Streams, Panic(t) PROVE GaugeInv'
    <2> DEFINE early == EarlyRelease(conn[t])
               f == [conn[t] EXCEPT !.pc = "release", !.failed = TRUE, !.cancelled = TRUE,
                                    !.cut = TRUE, !.counted = ~early]
    <2>1. \E g : /\ Put(t, g)
                 /\ g \in ErrorWrites(t, f) \/ g = [f EXCEPT !.wire = <<End("json")>>]
      BY <1>7 DEF Panic
    <2>2. /\ call' = call /\ early \in BOOLEAN /\ conn[t].counted
          /\ gauge' = IF early THEN Decremented(gauge) ELSE gauge
      BY <1>1, <1>7 DEF Panic, EarlyRelease, Counted
    <2>3. /\ f \in Conns /\ f.pc = "release" /\ f.got = conn[t].got
          /\ f.wire = conn[t].wire /\ f.cut /\ f.counted = (~early)
          /\ f.broken = conn[t].broken
      BY <1>1, <2>2 DEF Conns, PCs
    <2>4. conn[t].pc = "write" \/ (conn[t].pc = "reply" /\ conn[t].got.kind = "error")
      BY <1>7 DEF Panic
    <2>5. Sound(norm[t], conn[t], t \in gone)
      BY DEF StreamInv
    <2> HIDE DEF f, early
    <2> PICK g : /\ Put(t, g)
                 /\ g \in ErrorWrites(t, f) \/ g = [f EXCEPT !.wire = <<End("json")>>]
      BY <2>1
    <2>6. g.counted = f.counted
      BY <2>3, <2>4, <2>5, PanicSound
    <2>7. CASE early
      BY <2>2, <2>3, <2>6, <2>7, Lost DEF Put
    <2>8. CASE ~early
      <3>1. g.counted = conn[t].counted
        BY <2>2, <2>3, <2>6, <2>8
      <3> QED BY <1>3, <2>2, <2>8, <3>1
    <2> QED BY <2>2, <2>7, <2>8
  <1>8. ASSUME NEW t \in Streams, ReportError(t) PROVE GaugeInv'
    <2> DEFINE f == [conn[t] EXCEPT !.pc = Stopped(conn[t]), !.first = FALSE,
                        !.failed = TRUE, !.cancelled = TRUE,
                        !.cut = (conn[t].got.kind = "bad")]
    <2>4. Stopped(conn[t]) \in PCs
      BY DEF Stopped, PCs
    <2>1. f.counted = conn[t].counted /\ f \in Conns
      BY <1>1, <2>4 DEF Conns
    <2>2. \E g \in ErrorWrites(t, f) : Put(t, g)
      BY <1>8 DEF ReportError
    <2> HIDE DEF f
    <2> PICK g \in ErrorWrites(t, f) : Put(t, g)
      BY <2>2
    <2>3. g.counted = f.counted
      BY <2>1 DEF ErrorWrites, Conns
    <2> QED BY <1>3, <1>8, <2>1, <2>3 DEF ReportError
  <1>9. ASSUME NEW t \in Streams, Finish(t) PROVE GaugeInv'
    <2> DEFINE h == [conn[t] EXCEPT !.pc = "release"]
               d == [h EXCEPT !.wire = Append(@, End("DONE"))]
               b == [h EXCEPT !.broken = TRUE, !.cancelled = TRUE]
    <2>1. /\ h.counted = conn[t].counted /\ d.counted = conn[t].counted
          /\ b.counted = conn[t].counted
      BY <1>1 DEF Conns
    <2>2. (Put(t, d) \/ Put(t, b) \/ Put(t, h)) /\ call' = call /\ gauge' = gauge
      BY <1>9 DEF Finish
    <2> HIDE DEF h, d, b
    <2> QED BY <1>3, <2>1, <2>2
  <1>10. ASSUME NEW t \in Streams,
                \/ Take(t) \/ NothingCame(t) \/ StreamEnds(t) \/ Reject(t) \/ Start(t)
                \/ Deliver(t) \/ DeliverFails(t) \/ Cancel(t)
         PROVE  GaugeInv'
    <2>1. /\ conn \in [Streams -> Conns]
          /\ \E g : conn' = [conn EXCEPT ![t] = g]
      BY <1>10
      DEF TypeOK, Conns, Put, Take, NothingCame, StreamEnds, Reject, Start, Deliver,
          DeliverFails, Cancel
    <2>3. conn'[t].counted = conn[t].counted
      <3>1. CASE Take(t)
        <4>1. PICK p : conn' = [conn EXCEPT ![t] = [conn[t] EXCEPT
                                  !.pc = p, !.got = norm[t].held]]
          BY <3>1 DEF Take, Put
        <4> DEFINE g == [conn[t] EXCEPT !.pc = p, !.got = norm[t].held]
        <4>2. g.counted = conn[t].counted
          BY <1>1 DEF Conns
        <4>3. conn' = [conn EXCEPT ![t] = g]
          BY <4>1
        <4> HIDE DEF g
        <4> QED BY <2>1, <4>2, <4>3
      <3>7. CASE NothingCame(t) \/ StreamEnds(t)
        <4>1. PICK p : conn' = [conn EXCEPT ![t] = [conn[t] EXCEPT !.pc = p]]
          BY <3>7 DEF NothingCame, StreamEnds, Put
        <4> DEFINE g == [conn[t] EXCEPT !.pc = p]
        <4>2. g.counted = conn[t].counted
          BY <1>1 DEF Conns
        <4>3. conn' = [conn EXCEPT ![t] = g]
          BY <4>1
        <4> HIDE DEF g
        <4> QED BY <2>1, <4>2, <4>3
      <3>2. CASE Reject(t)
        <4> DEFINE g == [conn[t] EXCEPT !.pc = "release", !.wire = <<End("json")>>]
        <4>1. g.counted = conn[t].counted
          BY <1>1 DEF Conns
        <4>2. conn' = [conn EXCEPT ![t] = g]
          BY <3>2 DEF Reject, Put
        <4> HIDE DEF g
        <4> QED BY <2>1, <4>1, <4>2
      <3>5. CASE Start(t)
        <4> DEFINE g == [conn[t] EXCEPT !.pc = "write", !.started = TRUE]
        <4>1. g.counted = conn[t].counted
          BY <1>1 DEF Conns
        <4>2. conn' = [conn EXCEPT ![t] = g]
          BY <3>5 DEF Start, Put
        <4> HIDE DEF g
        <4> QED BY <2>1, <4>1, <4>2
      <3>6. CASE Cancel(t)
        <4> DEFINE g == [conn[t] EXCEPT !.pc = "returned", !.cancelled = TRUE]
        <4>1. g.counted = conn[t].counted
          BY <1>1 DEF Conns
        <4>2. conn' = [conn EXCEPT ![t] = g]
          BY <3>6 DEF Cancel, Put
        <4> HIDE DEF g
        <4> QED BY <2>1, <4>1, <4>2
      <3>3. CASE Deliver(t)
        <4>1. PICK v, p : conn' = [conn EXCEPT ![t] = [conn[t] EXCEPT
                                     !.wire = v, !.pc = p, !.first = FALSE]]
          BY <3>3 DEF Deliver, Put
        <4> QED BY <1>1, <2>1, <4>1 DEF Conns
      <3>4. CASE DeliverFails(t)
        BY <1>1, <2>1, <3>4 DEF Put, DeliverFails, Conns
      <3> QED BY <1>10, <3>1, <3>2, <3>3, <3>4, <3>5, <3>6, <3>7
    <2>4. Put(t, conn'[t])
      BY <2>1 DEF Put
    <2>2. call' = call /\ gauge' = gauge
      BY <1>10
      DEF Take, NothingCame, StreamEnds, Reject, Start, Deliver, DeliverFails, Cancel
    <2> QED BY <2>2, <2>3, <2>4, SameHolders DEF Put
  <1>11. ASSUME NEW c \in Calls, Begin(c) PROVE GaugeInv'
    <2>1. Holders' = Holders /\ OpenCalls' = OpenCalls \cup ({c} \cap CountedCalls)
      BY <1>11 DEF Begin, Holders, OpenCalls, TypeOK
    <2>2. CASE c \in CountedCalls
      <3>1. OpenCalls' = OpenCalls \cup {c} /\ c \notin OpenCalls
        BY <2>1, <2>2, <1>11 DEF Begin, OpenCalls
      <3>2. Cardinality(OpenCalls') = Cardinality(OpenCalls) + 1
        BY <3>1, HoldersAreFinite, FS_AddElement
      <3>3. Cardinality(Holders) \in Nat /\ Cardinality(OpenCalls) \in Nat
        BY HoldersAreFinite, FS_CardinalityType
      <3> QED BY <1>11, <2>1, <2>2, <3>2, <3>3 DEF Begin, GaugeInv
    <2>3. CASE c \notin CountedCalls
      <3>1. OpenCalls' = OpenCalls
        BY <2>1, <2>3
      <3> QED BY <1>11, <2>1, <2>3, <3>1 DEF Begin, GaugeInv
    <2> QED BY <2>2, <2>3
  <1>12. ASSUME NEW c \in Calls, Return(c) PROVE GaugeInv'
    <2>1. Holders' = Holders /\ OpenCalls' = OpenCalls \ {c}
      BY <1>12, StreamAssumption DEF Return, Holders, OpenCalls, TypeOK
    <2>2. CASE c \in CountedCalls
      <3>1. c \in OpenCalls
        BY <2>2, <1>12 DEF Return, OpenCalls
      <3>2. Cardinality(OpenCalls') = Cardinality(OpenCalls) - 1
        BY <2>1, <3>1, HoldersAreFinite, FS_RemoveElement
      <3>3. Cardinality(Holders) \in Nat /\ Cardinality(OpenCalls) \in Nat
        BY HoldersAreFinite, FS_CardinalityType
      <3>4. Cardinality(OpenCalls) # 0
        BY <3>1, HoldersAreFinite, FS_EmptySet
      <3>5. Decremented(gauge) = gauge - 1
        BY <3>3, <3>4 DEF GaugeInv, Decremented
      <3> QED BY <1>12, <2>1, <2>2, <3>2, <3>3, <3>5 DEF Return, GaugeInv
    <2>3. CASE c \notin CountedCalls
      <3>1. OpenCalls' = OpenCalls
        BY <2>1, <2>3 DEF OpenCalls
      <3> QED BY <1>12, <2>1, <2>3, <3>1 DEF Return, GaugeInv
    <2> QED BY <2>2, <2>3
  <1>13. ASSUME NEW t \in Streams, NEW kind \in Kinds,
                \/ Receive(t, kind) \/ Skip(t) \/ Close(t) \/ Leave(t) \/ SourceClosed(t)
         PROVE  GaugeInv'
    BY <1>2, <1>13 DEF Receive, Skip, Close, Leave, SourceClosed
  <1>14. UNCHANGED vars => GaugeInv'
    BY <1>2 DEF vars
  <1> QED
    <2>1. Kinds # {}
      BY DEF Kinds
    <2> HIDE DEF GaugeInv
    <2> QED BY <1>4, <1>5, <1>6, <1>7, <1>8, <1>9, <1>10, <1>11, <1>12, <1>13, <1>14, <2>1
            DEF Next, Handle

LEMMA NextInv == Inv /\ [Next]_vars => Inv'
  BY StreamStep, TypeStep, GaugeStep DEF Inv

THEOREM Invariance == Spec => []Inv
  BY InitInv, NextInv, PTL DEF Spec

(***************************************************************************)
(* The results.                                                            *)
(***************************************************************************)

\* Types of the variables, and events within the bound.
THEOREM TypeCorrect == Spec => []TypeOK
  BY Invariance, PTL DEF Inv

\* What the client of any stream reads is the recognised events in order and at
\* most one end.
THEOREM WiresAreWellFormed == Spec => []WireIsWellFormed
  <1>1. Inv => WireIsWellFormed
    BY DEF Inv, StreamInv, Sound, WireIsWellFormed
  <1> QED BY <1>1, Invariance, PTL

\* A [DONE] on any wire stands after every event its goroutine recognised.
THEOREM DoneIsTrue == Spec => []DoneMeansAll
  <1>1. Inv => DoneMeansAll
    BY DEF Inv, StreamInv, Sound, Ended, DoneMeansAll
  <1> QED BY <1>1, Invariance, PTL

\* Only a handler cut short leaves a goroutine blocked for ever.
THEOREM OnlyCutHandlersLeak == Spec => []StuckOnlyIfCut
  <1>1. Inv => StuckOnlyIfCut
    BY DEF Inv, StreamInv, Sound, Ended, Late, StuckOnlyIfCut
  <1> QED BY <1>1, Invariance, PTL

\* A provider's error reaches the client in the form the stream's state allows.
THEOREM ErrorsAreReported == Spec => []ErrorIsReported
  <1>1. Inv => ErrorIsReported
    <2> SUFFICES ASSUME Inv, NEW s \in Streams, conn[s].pc = "returned",
                        norm[s].held.kind = "error", ~conn[s].cut, s \notin gone
                 PROVE  /\ conn[s].wire # <<>>
                        /\ conn[s].wire[Len(conn[s].wire)].kind =
                             (IF norm[s].held.n = 1 THEN "json" ELSE "error")
      BY DEF ErrorIsReported
    <2>1. Sound(norm[s], conn[s], s \in gone)
      BY DEF Inv, StreamInv
    <2>2. norm[s].held = conn[s].got
      BY <2>1 DEF Sound, Ended, InStep, Late
    <2> QED BY <2>1, <2>2 DEF Sound, Reported, Late
  <1> QED BY <1>1, Invariance, PTL

\* The gauge is the number of open connections, so no decrement is corrected.
THEOREM GaugeIsExact == Spec => []GaugeCounts
  <1>1. Inv => GaugeCounts
    <2> SUFFICES ASSUME Inv PROVE GaugeCounts
      OBVIOUS
    <2>1. ASSUME NEW s \in Streams PROVE Serving(s) <=> conn[s].counted
      BY DEF Inv, StreamInv, Sound, Counted, Conns, PCs, Serving
    <2>2. OpenStreams = Holders
      BY <2>1 DEF OpenStreams, Holders
    <2> QED BY <2>2 DEF Inv, GaugeInv, GaugeCounts
  <1> QED BY <1>1, Invariance, PTL
=============================================================================
