# PinAI in TLA+

PinAI is a routing gateway for language model APIs, written in Go. A *data
plane* takes OpenAI, Anthropic and Gemini requests and forwards them to upstream
*platforms*; a *control plane* manages platforms, their endpoints, API keys and
models, and shows health and statistics. State lives in one relational database
(SQLite by default, MySQL or PostgreSQL by configuration) and in the memory of
the single process. The routing itself (choosing a model and a key, retrying,
deciding about health) is the work of a library, `portal`, that is not part of
this repository.

Paths below are relative to the repository; `provider/` is
`internal/app/provider/` and `health/` is `internal/app/health/`.

## The system

| Component | State | Operations | What is hard |
|---|---|---|---|
| Model batch tasks (`provider/model_batch_task_*.go`) | table `model_batch_tasks`; a cache of statuses; a bounded channel of ids and the set of ids in it; one worker goroutine | create and enqueue, poll, run, finish, recover at start, stop | the cache, the channel and the table are written at different times by requests, pollers, the worker and recovery; everything but the table dies with the process |
| Health records (`health/storage.go`, `service_*.go`) | table `healths` and a `sync.Map` that holds all of it | admin enable/disable/reset, the gateway's reports, load at start, clean-up, summary | every write goes to the cache, then to the table, with no lock over the two; a refused table write leaves the cache ahead |
| Endpoints (`provider/endpoint*.go`) | table `endpoints` with a default flag per platform | add, add many, update, update many, delete | "at most one default" rests on a read outside the transaction that writes |
| Models, keys, links (`provider/model*.go`, `key*.go`, `platform.go`) | tables `models`, `api_keys`, `api_key_models`, `platforms` | add, update, delete, batches of each | the deletes back links up, clear them outside the transaction and restore them when it fails |
| Live collector (`internal/app/stats/collector.go`) | a ring of 60 per-second counters under a lock; an atomic gauge of open connections | record, open, close, read, clean up | every request shares the gauge and must release it once, however it ends; the ring is indexed by the wall clock |
| Gateway streams (`internal/app/gateway`) and data plane handlers (`internal/handler/data`) | one goroutine and one unbuffered channel per streamed request; the handler's flags (started, failed, writer broken, released) | forward an event, end, fail, panic, client goes away | the goroutine sends without watching the context; three failure paths decide through shared flags what may still be written |
| Data plane: routes, authentication, errors (`internal/handler/data`, `internal/app/gateway/error_mapper.go`) | none shared between requests | resolve the provider, check the token, call the gateway, map an error to a status and a body | an error is a chain of layers that may each offer a status, a type and a code; a stream that has begun can no longer change its status |
| Statistics queries (`internal/app/stats`) | table `request_logs`, which only grows | dashboard, model status, lists, overview and ranks | answers made of several statements while requests are being logged |
| Migrations (`database/migrate_*.go`) | the schema and the old columns | one function per change, at every start | none is in a transaction; a crash leaves half of one behind |
| Frontend directory (`frontend/frontend.go`) | the files of a release, a version file, an archive | install when empty, check, clear, download, unpack, stamp | every one of these can fail or be cut off, and the next start has to make sense of the rest |
| Logging (`logger/daily_handler.go`) | the open file of each handler and its date | rotate on the first record of a day, derive, close | derived handlers share a file but not the lock |
| Start and shutdown (`server/bootstrap.go`) | what is open and listening | start in order, stop in order with deadlines | requests and the worker go on while things are closed |
| Portal adapter (`internal/infra/portal`) | none (reads the tables) | lookups by model and endpoint, log insert | two statements of one lookup that have to agree |
| Routing of the control plane, proxy, configuration | little or none | | see "Not modelled" |

How they interact. Control-plane handlers call the provider and health services;
batches of model changes go through the task service, whose worker calls the
same provider operations a request would, so the worker is one more session in
`ModelKeys`. The gateway reads tables through the portal adapter and reports
health through `health/storage.go`, the same `Set` the control plane uses; it
logs every request in `request_logs`, which the statistics read.
`server/bootstrap.go` prepares the frontend directory, starts the database (and
its migrations), the services, the task worker (recovering its rows) and then
the HTTP server; it stops the gateway, the worker, the HTTP server, the database
and the log in that order.

What makes each component correct:

- *tasks*: an accepted task is never forgotten, runs to a final status, and that
  status never changes or is reported as something older; an id is queued once.
- *health*: unless two writes overlapped or one was refused, a record nobody is
  writing is the same in both; a write that finished alone is kept; only records
  of resources deleted in this run can outlive them.
- *endpoints*: at most one default per platform; deleting it promotes the newest
  endpoint that is left.
- *models and keys*: links name rows that exist; a failed delete gives back what
  it took; a deleted row stays deleted unless a request that had found it was in
  flight; no model is left without a key.
- *collector*: the gauge counts open connections; RPM counts the last minute,
  also when requests wait for the lock or the clock is set back, and decays
  without further requests.
- *statistics*: figures of one answer belong together, answers about the same
  logs agree, and figures of two statements differ by what was written between.
- *data plane*: who is let in is whom the documentation names; the client is
  told the status, type and code the error itself carries, once.
- *lookups*: an endpoint found by the first statement is there for the second.
- *streams*: each event once and in order, then at most one end; `[DONE]` only
  after everything; a provider's error reaches the client; no goroutine is left
  unless its handler was cut short.
- *migrations*: no start loses data or repeats what an earlier one did, wherever
  earlier ones were cut off.
- *frontend*: a version file is true, and a start that checks repairs whatever
  it finds.
- *log and shutdown*: a record goes to an open file; the database outlives its
  users or the wait for them; the process ends.

## Modules

| Module | What it is |
|---|---|
| `TaskLedger` | abstract: what the task service promises (accept, start, apply, finish) |
| `BatchTask` | the task service in detail |
| `BatchTaskProofs` | theorems, and that `BatchTask` implements `TaskLedger` |
| `HealthStorage` | health records |
| `HealthQueries` | extends `HealthStorage`: the paged lists and the issues |
| `HealthStorageProofs` | theorems about both |
| `EndpointDefault` | endpoints |
| `PortalLookup` | extends `EndpointDefault`: the library's lookups, composed with the control plane |
| `EndpointDefaultProofs` | theorems about both |
| `ModelKeys`, `ModelKeysProofs` | models, keys, links and theorems |
| `StreamPipeline`, `StreamPipelineProofs` | a streamed request from the provider's channel to the client, the connection gauge, and theorems |
| `Collector` | the ring of requests per second |
| `Statistics`, `StatisticsProofs` | the statistics operations over a growing log, and theorems |
| `ErrorMapping` | pure: what a client is told of an error |
| `RequestPath` | pure, extends `ErrorMapping`: routes, provider resolution, token check |
| `DataPlane` | extends `RequestPath`: one request from its route to its reply |
| `DataPlaneProofs` | theorems about `DataPlane` and `Collector` |
| `Migrations` | the migrations of a start, statement by statement |
| `FrontendDir` | the frontend directory, statement by statement |
| `Startup` | extends both: starts, failures and crashes, again and again |
| `DailyLog` | the handles of the daily log file |
| `Shutdown` | extends `DailyLog`: the process from listening to its exit |
| `LifecycleProofs` | theorems about `Startup` and `Shutdown` |
| `MC...` | constants and symmetry for TLC; one `.cfg` per question |

An operator named `X_bug` stands before the operator `X` it is a wrong version
of. It is used by no specification: each records a plausible mistake in that
part of the code which the named property has been seen to catch.

### BatchTask

`db` is the status column. `cache` is `taskStateCache`, `queue` and `enqueued`
are `taskQueue` and `taskEnqueued`. `request[t]` is where the request that
created task *t* is between its insert, its cache write, its mark and its send;
`reader` holds polls that missed the cache and have read the row; `worker` is
the one worker goroutine with the task it holds; `toRecover` is what the start
listed and has not queued yet. `proc` is the process: *down*, *recovering*,
*up*, *stopping*. Every database statement, cache access and channel operation
is an action. What a batch does to models and keys is one commit (`applied`);
a database may refuse the update of any row in `Faulty`. The two failures
before a batch runs (payload that does not decode, 302-315 of
`model_batch_task_service.go`) end like a failed batch and are folded into it.

The worker of a stopping process may still be in a batch when the database is
closed; that is a crash at that step. A create or a recovery listing that fails
changes nothing or ends the process, so it is a stutter or a crash.

`TaskLedger` keeps for each task only its status and how often its batch was
applied. The refinement maps `db` and `applied` to it and every other step to a
stutter.

### HealthStorage

`cache` is the `sync.Map`, `table` the rows of `healths`, and `rows` the
resources that exist. A write is two steps, the cache and then the table, which
may refuse it; writers are administrators' requests and the gateway's reports
(`healthadapter`), which pick a key, call upstream for as long as it takes and
then report. `BeginBoot`, `CleanRecord` and `LoadCache` are the start. The
summary is its own little process: a total, a count per status, a reply, with
other requests between. One resource type stands for the three the table holds,
since no statement relates two of them. What the portal library writes is any
status: it is external.

`HealthQueries` adds what the lists compute: a snapshot of the cache, sorted by a
time that many records may share (so in any order), cut into pages, and only then
looked up, whence pages may be shorter than the total promises. A page is the set
of its places in the list; its items follow each other as their places do. The
same records are sorted anew for every page, and the sort is not stable: records
with equal times may swap between two pages, which `ListsAgree` leaves out by
fixing one order for a walk.

### EndpointDefault

Sessions run the handlers of `endpoint*.go`: the reads before the transaction
(is there a default already?), the transaction's statements one at a time, and
its commit. `Serialized = TRUE` is SQLite, where a second writer waits for the
whole of the first one's transaction; `FALSE` is MySQL or PostgreSQL, where row
locks are all there is. The two grouped updates of a batch are one step inside
their transaction.

`PortalLookup` runs one lookup of the library next to those sessions: a join that
asks for a matching endpoint and a preload that fetches the matching ones, of
which the first is taken without a check. `LookupSpec` is the composition; the
control plane's steps leave `lookup` alone and note in `cleared` what they took
from the platform because they were asked to. An empty preload is a run-time
error (`pc = "panic"`).

### ModelKeys

One platform. `models`, `keys` and `links` are the tables; `made` is what the
auto-increment ids have handed out; `job[s]` is the request session *s* serves:
its operation, its place in it, what it is about (`target`), what its loop has
left (`todo`), the links it read (`backup`) and removed (`swept`, history), what
it is going to write (`want`) and the orphans it found. A statement outside a
transaction is a step and a transaction is a step, as SQLite serializes the
transactions that write; no foreign key is enforced there. Appending to an
association inserts associated rows that are missing (`ON CONFLICT DO NOTHING`
upsert of the ORM), which is how a deleted row can come back. `deleted` and
`contested` are histories of that: the rows whose deletion was committed, and
those among them that another request in flight had found and might still insert
(`MayInsert`). The delete of one model clears links only where the joined listing
found a key, as the code does.
`Restart` includes the start's migration that links every model without a key to
all keys of the platform. `faults` counts failing statements and crashes;
`wounded` records that a request ended without giving back links it had cleared
(a statement of it failed, or what it was restoring was gone), the one case in
which a model may stay without a key until the next start.

The three `SELECT`s with which the ORM loads an association are one read.

### StreamPipeline

The eight stream handlers (native and compat; OpenAI chat and responses,
Anthropic, Gemini) are copies of one program, and so are the four goroutines of
`internal/app/gateway`. They are modelled once, with the two differences that
matter: who sends `[DONE]` (the OpenAI ones) and who releases the connection in
`recover()` already (the compat Anthropic one). `source[s]` is portal's channel,
`norm[s]` the goroutine with the result it holds, `conn[s]` the handler: its
place (`pc`), the result it took (`got`), its flags by their names in the code
(`started`, `failed`, `broken` for `streamWriterBroken` and
`~canWriteErrorChunk`, `cancelled`, `counted`), and two history variables, what
it wrote (`wire`) and whether it stopped before the stream did (`cut`). `gone`
are the clients that left: their context is cancelled and their writes may fail.
`call` holds the requests answered with one document, which matter here for the
gauge alone; `CountedCalls` are those whose handler counts (the native OpenAI
chat handler does not, `native/handler_openai.go:61`).

An event is one of five: dropped by the goroutine (nil, or of no type it knows;
`Skip`), data, last (a finish reason, `message_stop`, `response.completed`), a
protocol error, or one that `json.Marshal` refuses. Handing a result over an
unbuffered channel is one step of both sides, and the goroutine's return and
`close(out)` after the last one belong to it. A panic is possible where a reply is
encoded or an error answered. `DecrementConnection`'s add and the store that
corrects a negative count are one step: `GaugeCounts` shows that the correction
never runs, so nothing can come between them. Portal is external: it may send
anything, close at any time, and it closes the channel of a cancelled context.
An Anthropic failure sets no `streamFailed` in the code, where nothing reads it;
`failed` is set there too, and only `Finish` of an OpenAI stream reads it.

Seen while reading, and true of the model too: a stream whose first result is
also its last ends without `[DONE]`; when a provider closes without a last event
the client still gets `[DONE]`; the chat goroutine ends at the first choice that
finishes, so later usage or other choices are dropped; a handler whose write
failed can leave its goroutine (and portal's channel) blocked if the provider
had one more event.

### Collector

`requestCounts` is the ring, `currentSecond` where it stands, `arrival[r]` the
second a request read before it asked for the lock, and `endangered` a history
variable: the requests whose slot a ring that moved backwards may have cleared.
The clock advances or is set back at any time. Sixty slots of a second are
`Window` slots of a tick.

### Statistics

The log only grows, so a statement is remembered by how many logs there were
(`seen`), and an answer is a function of those prefixes, the time the operation
read (`at`) and its arguments (`op`). Which statements an operation runs, and in
which order, is in its action; `Dashboard`, `ModelStatus`, `CallRank`,
`UsageRank`, `RequestCounts` and `ListedCount` are what the code computes from
them. An hour is `Hour` ticks, because windows are rounded to full hours. A log
is written up to `MaxAge` after the time it carries.

### ErrorMapping, RequestPath, DataPlane

An error is the sequence of its layers, each with what the mapper can see of it:
methods, exported fields, a member `Error`, words its text contains, a sentinel.
`Extract` walks the layers, `Guessed` looks at the text, and the classifiers and
bodies of the three protocols follow the code branch by branch. `RequestPath`
has the routes and, per route and credentials, the provider and the check.
`DataPlane` is one request's way (`stage`): arrived, authenticated, called,
flowing (a stream that has begun), answered. Requests share nothing there.

### Migrations, FrontendDir, Startup

One action per statement. `db` and `dir` outlive the process; `todo`, `kept`,
`step` and `web` do not. `Startup` runs them in the order of
`newBootstrapRuntime`, lets each fail or the process crash between any two
(`MaxFaults`), and starts again; databases of every earlier schema are initial
states, with and without each old column. `past` is history: whether a start was
robbed of the health records it held in memory, how many were cut off with the
endpoints half made, whether this one met an error. `latest` grows as releases
appear.

### DailyLog, Shutdown

A handler has a date and a file; a derived handler is a copy with its own lock.
`Handle` is three steps (read the date, rotate under the lock, write) because
the date is read before the lock and the lock is given up in between. `Shutdown`
adds main, the worker and the requests, each logging through handlers of the app
or of its own, and `shutdown()` with its three deadlines.

## Runs

| Run | What it asks | Instance | Result |
|---|---|---|---|
| `task_safety` | do the queue, the cache and the table stay consistent, is nothing lost, does the service implement the ledger? | 3 tasks, channel of 2, restart, refused updates, a poller of any id | holds, 273,809 states |
| `task_live` | does every accepted task finish, and is a finished one reported so? | 3 tasks, channel of 3, 3 starts | holds, about 10 s |
| `health_agree` | when can the cache, the table, a summary and the lists differ? | 2 resources, an administrator, a relayed request, refused writes, crashes | holds, 2.4 M states |
| `endpoint_serial` | on SQLite: at most one default, it survives a delete, and a lookup finds it | 2 sessions, 3 endpoints, batches of 2, a lookup | holds, about 900,000 states |
| `relations_alone` | one request at a time and whatever fails, do the deletes keep the tables consistent and give back what they took? | 3 models, 2 keys, 2 faults | holds, 13,059 states |
| `relations_race` | two requests at a time, is a model ever without a key and forgotten, and what can bring a deleted row back? | 2 sessions, 2 models, 2 keys | holds, 1,495,366 states |
| `stream_all` | what can a client read, can a goroutine be left behind, does every request end, does the gauge count? | 1 stream of up to 3 events over 2 routes, 2 calls of which one counts | holds, 39,987 states |
| `collector_ring` | what can the rate be off by, and does it decay? | 3 requests, a ring of 3 seconds, a clock of 7 set back twice | holds, 443,178 states |
| `stats_queries` | do the parts of an answer belong together, do answers agree, by how much can two statements disagree? | up to 3 logs, hours of 2 ticks, ranges of 1 and 2 points | holds, 5.4 M states |
| `startup` | what does a start keep, repair and repeat, wherever earlier ones were cut off? | 2 platforms of any earlier schema, 2 releases, 2 faults | holds, 2,100,785 states |
| `requests` | who is let in, and what is the client told of an error? | every route, any one or two credentials, errors of up to 2 layers | holds, 744,920 states |
| `shutdown` | what is closed under whom, which records are lost, does the process end? | a request, the worker and main over one midnight | holds, 91,735 states |

Why the bounds are enough. A task interacts with others only through the channel
and the worker: three tasks and a channel of two make it full with one waiting;
with two tasks it is never contended while one is being worked on. Two
resources separate "this record" from "another"; three endpoints are one
deleted, one promoted and one that must not be; three models and two keys give
a key shared by two models, a model with two keys and one with none. Two
sessions are enough for every race listed, each being between two requests.
Streams share nothing but the gauge, so one stream next to two calls meets every
interleaving that matters (the theorems cover any number); three events are a
first one, one in the middle and one after the handler may have stopped.
Each process starts at most `MaxBoots` times, which covers a crash during
recovery from a crash. Deadlock is checked in `health_agree` and
`startup`. Elsewhere `CHECK_DEADLOCK FALSE` is there because ids, starts and
faults are bounded and a service at rest has no step left when they run out,
because requests are finite (`stream_all`, `requests`), the clock stops
(`collector_ring`, `stats_queries`) or the process exits (`shutdown`).

A ring of three seconds distinguishes the slot before, the slot itself and the
one it is confused with; the clock runs over it twice. Three logs are one in the
window, one at its edge and one outside, or two of a kind and another; the rows
include one without a model name, one without a total and a failure. Two faults
cut a start off and then the one that repairs it; two releases are the one that
is there and the one that appears meanwhile. Two layers are an error and what it
wraps, and the kinds of layer listed in `MCDataPlane` offer each thing the mapper
looks for, validly or not; more than two credentials meet no branch that two do
not. One request is enough in `requests`, where none is shared, and in
`shutdown`, whose theorems cover any number; with a second midnight the result is
the same.

The twelve runs check conjunctions where several statements are about one answer:
`RingInv`, `DashboardInv`, `RankInv`, `DataInv`, `FrontendInv` and `ErrorInv` are
named for the answer, and each part has its own name and comment in the module. Type
correctness is checked as a part of these, or is a theorem.

`relations_race` runs without failing statements: with them the instance is too
large, and `KeylessAreHeld` was checked with them on smaller ones (one model, or
batches of one link); it and `DeletedStaysDeleted` are proved for any number of them.

Fairness. In `stream_all`: weak fairness of each handler (a goroutine of the
HTTP server), of the goroutine's reading of a closed channel, and of portal's
closing the channel of a cancelled context. The last is an assumption about the
library, and the code rests on it: a handler waits for the channel and never for
its context. Nothing is assumed of a live provider, which may stay silent for
ever. In `task_live`: weak fairness of the worker, of recovery, of a request in
flight and of a stopping process's exit (each is a goroutine that runs when it
can), and of `BeginBoot`: a process that is down is started again, which is its
operator's decision, not the code's. In `collector_ring`: weak fairness of the
ticker's `Cleanup` and of each request that waits for the lock. In `shutdown`: of
main's next step of `shutdown()` and of its logging; none of requests or of the
worker, which the deadlines are for. No fairness of stopping, crashing, polling
or creating is assumed.

## Where code and its comments disagree

None of these has a run of its own: each was found while its definition was
written, and the model contains what the code does.

- `health/storage.go:17` promises that a write keeps cache and table consistent.
  `Set` and `Delete` store in the cache and then write the row (`storage.go:91`)
  without an order between two callers: two overlapping writes, neither refused,
  can leave one status here and another there. `CacheMatchesTable` says that this
  and a refused write are the only ways.
- `health/service_query.go:16` promises a count of unknown resources. The total
  counts rows and the statuses count cached records, which outlive a deletion, so
  the difference can be negative (`NegativeNeedsDeletion`).
- `provider/endpoint_add_app_service.go:53` (and
  `endpoint_update_app_service.go:79`, `utils.go:107`) treats several defaults as impossible. On PostgreSQL and MySQL
  two concurrent requests each count one and both commit. `AtMostOneDefault` is
  therefore proved under `Serialized = TRUE`.
- `provider/service.go:74` calls the batch delete of models atomic, but a failed
  clear (`model_batch_delete_app_service.go:111`) returns without restoring the
  links already cleared: `wounded`, in `KeylessAreHeld` and
  `FailedDeleteRestores`.
- `provider/service.go:50`: of two overlapping deletes of a platform, the second
  fails, and its restore loop (`platform.go:313`) inserts the deleted models
  again, linked to keys that are gone. An add or update whose keys were validated
  before their deletion inserts them again (`utils.go:72`). `TablesAgree` is
  therefore proved for one request at a time; `DeletedStaysDeleted`, for any
  number, says that these two ways are the only ones.
- A model linked to a key between the orphan scan and the orphan delete is
  deleted although it has one (`provider/utils.go:129` and `162`).
- A protocol error in a Gemini stream is written as a JSON error chunk where the
  handlers' comment says none is (`native/handler_gemini.go:83` and `215`).
- Comments of `stats`: `overview.go:134` says one query where there are two
  statements; `utils.go` says the upper index rounds up where it truncates. The
  first-byte average of an overview is always of the last 24 hours
  (`utils.go:47`). The filter "unknown" of the model status finds no log without a
  name, because the label is not what the column holds. The overview and rank
  methods of the service have no route any more.
- The error mapper starts with status 500 and a message (`error_mapper.go:21`), so
  its later "set if missing" never applies: an error that only its text shows to
  be a timeout or a limit is answered 500 with the type of a timeout or a limit.
  The status is that of the innermost layer, the type and code of the outermost.
  A layer that offers 200 would be answered 200 with an error body. For Gemini a
  guessed code comes before a named type. Nothing reads `Retryable`.
- `compat/routes.go:27-35` makes the groups `/v1` and `/v1beta` before it adds the
  middleware to their parent, and a group copies the handlers there are: only the
  native routes run it, although the annotations and README 384-386 are about
  all. So the compat list of models always answers in OpenAI's format where its
  comment (`handler_models.go:15`) says by provider. The suffixes
  "/generateContent" of `provider.go:63` match no path that ends in
  ":generateContent". README 385 requires the header `anthropic-version`, which
  the check of the token does not ask for.
- `logger/daily_handler.go:37-39` reads the date before the lock: a call that
  waits over midnight can close the new day's file under handlers that share it. A
  handler that was derived and then rotates loses its attributes and groups. Where a
  new day's file cannot be opened the record is lost and the old file is closed;
  the date stays the old one, so the next record tries again. The last
  record of a shutdown is logged after the file is closed.
- `server/bootstrap.go`: the gateway is closed before the HTTP server, so requests
  that are accepted in between meet a closed gateway.
- `frontend/frontend.go`: clearing keeps an entry called "frontend" where the
  comment says the archive; with update checks off a directory that was cleared
  and not filled again stays empty.
- `database/migrate_*.go`: a start cut off between the drop of the old health
  table and the inserts has lost all its records, and one cut off while endpoints are
  made leaves a platform with several equal ones. Databases that have only the
  `format` column are left alone by the endpoint migration.

## Proofs

Everything below holds for all values of the constants, under the assumptions
named in each module.

**BatchTask.** The inductive invariant is `TypeInv /\ PhaseInv /\ RowInv /\
ApartInv /\ QueueDiscipline`: types; which places of the process, the worker and
requests go together; what a row's status says about who may hold it; and that a
task is at one place only (in the channel, with the worker, with its request or
yet to be recovered). `QueueDiscipline` alone is not inductive: a recovered id
is queued again unless its row is known to be at no other place. Theorems:
`TypeCorrect`, `QueueIsDisciplined`, `TerminalStays` (no final status changes),
`CommitsAreAccounted`, `AcceptedTaskIsHeld` (no accepted task is lost while the
process is up), `StartQueuesAll`. `Refinement` proves that every step of
`BatchTask` is a step or a stutter of `TaskLedger`; `CacheIsHonest` adds an
invariant on polls in flight.

`FinalStatusIsReported` assumes that ids are polled only after they were handed
out (`~PollAnyId`): a poll of an id nobody was given can read a row before its
request has written the cache, and put an old status there. `ReportInv` says why
no other poll can: a row that is not final is in the cache from its request's
write, or from recovery, on, so a poll that missed the cache and then read the
row has read a final status.

**HealthStorage.** `IInv == TypeOK /\ Coupled /\ Settled /\ Confined`: between
the two steps of a write the two differ only at a resource somebody is writing,
or one at which an overlap or a refusal was recorded. Theorems `TypeCorrect`,
`CacheAgrees`, `FinishedWriteIsKept`, `OrphansAreOfThisRun` (no record of a
resource deleted in an earlier run is ever cached); the set of resources is
assumed finite. `SummaryIsHonest` adds `Honest`, that the total a summary has read
still counts the live resources unless one was deleted or appeared, and
`CountedAreLive`: without a deletion, no more is counted than there is.
`ListsAreWhole` is about the lists, for any order of the records and any page size
up to the number of resources: in every state of `IInv`, every place of the list is
on a page (`PlaceHasPage`: the least page that reaches it), later pages have later
places (`PagesFollow`), and a list of all records without repetition has as many
places as there are records (`ListIs`). The excess of the total is counted by an
injection of the places without a row into `gone`.

**EndpointDefault.** `IInv == TypeOK /\ Alone /\ Established /\ AtMostOneDefault`
under `Serialized = TRUE`: only one session is in a transaction, and what it has
established in it (it cleared the other defaults) still holds. Theorems
`TypeCorrect` (under either isolation) and `OneDefaultWhenSerialized`.
`DeletePromotes` needs `PInv`: `IInv` and, for each session, `Promises`: what a
delete has counted and chosen still holds when it commits.

`LookupsFailOnlyIfAsked`, about `PortalLookup`, rests on `LookupInv`: what each
session has done to the platform's rows (`Grows`) and, for a lookup between its
two statements, that an endpoint it matched is still there unless a request took
it or its flag away (`StillMatches`). It is stated under `Serialized = TRUE`: with
two defaults a switch of the flag is no longer one request's doing.

**ModelKeys.** Three inductive invariants. In general, `TypeOK /\ Phases /\
KeylessAreHeld`, where `Phases` says which fields of a job are set at which
place: `KeylessAreHeld` names the request that owes the model something, and
`Phases` is needed to know that this request's next step pays. In general again,
`ReturnInv`: what a request may yet insert is there, or new, or was deleted while
the request had it, and then it is contested; with `made`, no id is handed out
twice. A step inserts only what its request might insert (`InsertHelper`), and a
request that deletes inserts nothing more (`DeleteHelper`). For one request
at a time (`Alone`: there is one session) `AloneInv` adds, for each place in a
request, what it has checked and nobody can have changed (`Checked`), that its
backup is made of links between existing rows of its target and covers what it
cleared (`Targeted`), and how far its loops have come (`Progress`). Theorems
`TypeCorrect`, `NoModelForgotten`, `NothingElseReturns` (general),
`LinksNameRows`, `BackupIsComplete` (what the clears of a delete remove is in its
backup), `RestoreIsComplete` (one at a time; two overlapping deletes of a platform
leave links to keys that are gone).

**StreamPipeline.** `Inv == TypeOK /\ StreamInv /\ GaugeInv`. `StreamInv` says
of each stream that the goroutine is at most one result ahead of what the
handler took (`InStep`), what `wire` and the flags are at each place of the
handler (`AtStep`), what an ended goroutine implies (`Ended`), where an error is
on its way to the client (`Reported`), and that the handler's `counted` flag is
true from the count to the release (`Counted`). The properties are not inductive
alone: that nothing follows an end rests on the flags, and that `[DONE]` is true
rests on how far apart the two sides can be. `GaugeInv` is `GaugeCounts`; each
step adds or removes at most one element of the two finite sets it counts.
Theorems `TypeCorrect`, `WiresAreWellFormed`, `DoneIsTrue`,
`OnlyCutHandlersLeak`, `ErrorsAreReported`, `GaugeIsExact`, for any number of
streams, calls, routes and events.

**DataPlane.** For the middleware, `IInv` adds to the types that a request which
is no longer at the door has passed the check or was turned away; `Resolved` and
`RightCredential` say of the pure operators that the path names the protocol
where it can and that a strategy admits nothing but the token in its own place.
Theorem `NativeRoutesNeedTheToken`, for any errors, events and credentials.
`EventErrorsAreTold` is about the error events of a stream: told as the reply's
status and body while nothing was sent, inside the stream afterwards. It rests on
`EventsAssumption`: an error event of Gemini is a reason (of a block or of an
end), and a reason has a name. `ErrorsSpeakForThemselves` is about the error of a
call: `Served` says which operation is at which stage and that a failed call was
answered with what `CallFailed` makes of its error. The rest is about the walk over
the layers, for any number of them: `Extract` is a recursive function, of which it
is proved that its equation has a solution (`FoldExists`), so that the value after
each layer is the step of that layer from the value before (`FoldSteps`). The status
after the last layer with a status of its own is that one and stays (`ExtractStatus`,
which needs that `errors.As` at an outer layer cannot see a valid status that no
inner layer has); types and codes are taken where first found (`Gathers`). Both are
proved by the first layer at which they would fail. `ChainsAssumption` says only
that an error has layers.

**Collector** (in `DataPlaneProofs`). `RInv == RingTypeOK /\ SlotsHoldOneSecond
/\ NotAhead`: a slot counts the requests of one second, less at most those the
ring was moved back past, and none that counts was made after the second the ring
stands at. The second part is what makes a cleared slot one that holds nothing of
the window. `RateCountsTheWindow` adds the slots up: the sum is a recursive
function, of which it is proved first that its equation has a solution.

**Statistics.** `IInv == Typed /\ Ordered /\ Idle` is small: the log only grows,
so all there is to say of the state is its types, in which order the statements
of an operation read it, and that an answered operation is over. The work is in
the operators: a sum does not depend on the order in which it is taken
(`SumsAreOne`), one element more adds its value (`SumTakes`), adding up by key is
adding up (`SumByKey`), every log of a window belongs to a point of the trend
(`PointsCover`), a rank is cut from one list of every entry (`TopIsPart`).
Theorems `DashboardIsConsistent`, `StatusMatchesDashboard`, `RanksOffByWrites`,
`ListCountWasTrue`, for any rows, ranges, limits and page sizes.

These sums are not induction over data in the sense the prover lacks. That two
ways to take a sum agree is proved by looking at a smallest set on which they
differ, which exists because the subsets of a finite set are well-founded; that a
recursive definition has a value at all, by the smallest set, or number, up to
which it has none. Only the library's ready-made induction theorems, which take
an operator as a parameter, cannot be used.

**Startup** (in `LifecycleProofs`). `IInv == Typed /\ HealthsOk /\ PlatformsOk
/\ LogsOk /\ Settled /\ WebOk`. Each of the first four conjuncts after the types
goes through the places of the migrations and says which states of its table go
with them: what the health migration holds in memory, which old columns are
there and what has been moved out of them, how many endpoints starts that were cut
off can have left, and what a start that served leaves for later ones (`Settled`).
`WebOk` says the same of the frontend directory and the statements of an update.
Theorems `OldDataIsKept`, `ServedPlatformsAreConverted`, `FrontendIsRepaired` and
`MigrationsRunOnce` (a property of every step), for any platforms, records,
releases and number of faults.

**Shutdown** (in `LifecycleProofs`). `ShutdownInv == LogInv /\ ServerType /\
Waited /\ DeadHandlersAreSpoiled`. `LogInv` says of the log: its types; that a
call goes through a lasting handler or through its request's own (`Owned`); that
no date is after today (`Dated`); that handlers which share a file have the same
date (`Shared`); that a call past its rotation finds its handler at today's date
if its own is today's (`CallsFresh`). A new file gets a number nobody holds, and
there is one (`FreeNumber`, by counting: there is one more file than handlers).
`Waited` is what main has waited for at each of its steps. Theorems
`TypeCorrect`, `DatabaseIsClosedLast`, `HandlersStayAlive` (a handler with
today's date and a closed file exists only after an older date closed the file,
or at the end) and `RecordsAreKept`.

**Checked by TLC only.** `AcceptedTaskFinishes`, `RequestEnds`, `RingCatchesUp`,
`ShutdownEnds`: liveness under fairness is beyond the prover. Every other property of a
run is stated by a theorem.

## Not modelled

- *External*: the portal library, GORM (modelled from how it is called: what
  `Append`, `Replace`, `Preload` and `OnConflict` do), HTTP and SQL servers.
- *Foreign keys* of MySQL and PostgreSQL: their constraints would refuse some of
  the deletes that SQLite performs.
- *Control-plane handlers and routing*: they parse a request, call one service
  method and choose a status code. The methods they call are actions elsewhere,
  the refusals of the statistics handlers excepted, which are in `Statistics`.
- *Request proxy*: one upstream call per request, no state. *Configuration*: read
  once at start, never written. *Generated query code* (`database/query`): what it
  does is in the operators that call it, except `FindByPage`, which is modelled.
- `UpdateKey`'s value, `UpdatePlatform`, `CreatePlatform`: they write columns no
  property is about. Lists of platforms, keys and models only read.
- *Portal adapter*: the mapping of model names is a table lookup; the logging and
  runtime glue calls the library.
- *Of errors*: the text of messages, the provider, the parameter and the raw
  payload. *Of panics*: their recovery by the web framework, beyond what
  `StreamPipeline` needs. *Of the log*: levels, formatting, the console.
- *Of migrations*: column types, indexes, the data source names; the probes
  `HasTable` and `HasColumn` are assumed not to fail. *Of the frontend*: the names
  of files in the archive; a release is assumed not to be withdrawn.
- *Of health*: timestamps and back-off durations (two writes of the same record
  are compared by status alone), and page numbers so large that
  `(page - 1) * pageSize` overflows.
- *Of the statistics*: platform names, the order of equal entries, floating-point
  ratios.
- *Of shutdown*: a listener that fails at the same moment as a signal arrives.

## Plan

The modules of the plan are written: `BatchTask`, `HealthStorage`,
`EndpointDefault`, `ModelKeys` and `StreamPipeline` with their proofs; then
`Collector`, `Statistics`, `ErrorMapping` to `DataPlane`, `Migrations` to
`Startup`, `DailyLog` and `Shutdown`; and the compositions `HealthQueries`,
`PortalLookup`, `Startup`, `DataPlane` and `Shutdown`. What is left:

1. `ModelKeys` with the foreign keys of MySQL and PostgreSQL as a constant.
2. What the liveness properties rest on and a safety proof can reach: for a
   request, a task and a shutdown, a natural number that each of its own steps
   makes smaller and nobody else's step makes larger.
