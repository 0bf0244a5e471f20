------------------------------ MODULE BatchTask ------------------------------
(***************************************************************************)
(* The asynchronous model-batch task service of the provider package:      *)
(* internal/app/provider/model_batch_task_{service,runtime,repository}.go  *)
(* with the process life cycle of server/bootstrap.go around it.           *)
(*                                                                         *)
(* A request inserts a row, caches its summary and queues its id in a      *)
(* bounded in-memory channel; one worker goroutine takes ids, marks the    *)
(* row running, executes the batch and writes the final status, first to   *)
(* the cache and then to the database.  Everything but the table is lost   *)
(* when the process ends; the next start recovers unfinished rows.  Each   *)
(* database call and each critical section is an action, so requests,      *)
(* polls, the worker and the end of the process interleave between them.   *)
(***************************************************************************)
EXTENDS Naturals, Sequences, FiniteSets

CONSTANTS
  MaxTasks,     \* bound: ids handed out by the table, 1..MaxTasks
  QueueSize,    \* capacity of taskQueue (256 in the code)
  MaxBoots,     \* bound: how often the process starts
  Readers,      \* goroutines serving GET /model-tasks/:taskId
  Faulty,       \* tasks whose row updates the database may refuse
  PollAnyId     \* TRUE: an id may be polled before it was handed out

ASSUME BatchTaskAssumption ==
  /\ MaxTasks \in Nat
  /\ QueueSize \in Nat \ {0}
  /\ MaxBoots \in Nat
  /\ Faulty \subseteq 1..MaxTasks
  /\ PollAnyId \in BOOLEAN

Tasks      == 1..MaxTasks
Unfinished == {"pending", "running"}
Terminal   == {"succeeded", "failed"}
Statuses   == Unfinished \cup Terminal
NoTask     == 0

VARIABLES
  db,           \* status column of the table; "absent" before the insert
  proc,         \* "down", "recovering", "up", "stopping" (worker context cancelled)
  cache,        \* taskStateCache: cached status, "none" when not cached
  queue,        \* the channel taskQueue
  enqueued,     \* taskEnqueued: the marks that make enqueueing idempotent
  request,      \* where the request that created a task has got to
  reader,       \* GetModelBatchTask calls that missed the cache
  worker,       \* the worker goroutine
  toRecover,    \* rows listed by recoverModelBatchTasks and not yet queued
  boots,        \* number of starts so far
  applied,      \* history: commits of the task's business transaction
  lost,         \* history: commits whose final status never reached the table
  faulted       \* history: tasks hit by a database error in the worker

volatile == <<cache, queue, enqueued, reader, worker, toRecover>>
history  == <<applied, lost, faulted>>
vars == <<db, proc, volatile, request, boots, history>>

IdleReader == [pc |-> "idle", task |-> NoTask, got |-> "none"]
OffWorker  == [pc |-> "off", task |-> NoTask, outcome |-> "none"]
Selecting  == [pc |-> "select", task |-> NoTask, outcome |-> "none"]

\* Steps of the worker at which it holds a task, in order.
Marking   == {"get", "mark"}
Executing == {"cacheRunning", "execute"}
Reporting == {"cacheOutcome", "finish"}
Holding   == Marking \cup Executing \cup Reporting

InFlight  == {"created", "cached", "marked"}

Init ==
  /\ db = [t \in Tasks |-> "absent"]
  /\ proc = "down"
  /\ cache = [t \in Tasks |-> "none"]
  /\ queue = <<>>
  /\ enqueued = {}
  /\ request = [t \in Tasks |-> "none"]
  /\ reader = [r \in Readers |-> IdleReader]
  /\ worker = OffWorker
  /\ toRecover = {}
  /\ boots = 0
  /\ applied = [t \in Tasks |-> 0]
  /\ lost = [t \in Tasks |-> 0]
  /\ faulted = {}

-----------------------------------------------------------------------------
(* Start: StartModelBatchTaskWorker recovers before it starts the worker    *)
(* goroutine, and the HTTP server listens only after that.                  *)

\* Seeded bug: recovery forgets the rows a crash left "running".
BeginBoot_listsPending ==
  /\ proc = "down"
  /\ boots < MaxBoots
  /\ boots' = boots + 1
  /\ proc' = "recovering"
  /\ toRecover' = {t \in Tasks : db[t] = "pending"}
  /\ UNCHANGED <<db, cache, queue, enqueued, reader, worker, request, history>>

BeginBoot ==
  /\ proc = "down"
  /\ boots < MaxBoots
  /\ boots' = boots + 1
  /\ proc' = "recovering"
  /\ toRecover' = {t \in Tasks : db[t] \in Unfinished}
  /\ UNCHANGED <<db, cache, queue, enqueued, reader, worker, request, history>>

\* The list is ordered by id; a row left "running" is cached as pending.
NextToRecover(t) == t \in toRecover /\ \A u \in toRecover : t <= u

\* Seeded bug: recovery skips what does not fit in the channel.
RecoverTask_skipsWhenFull(t) ==
  /\ proc = "recovering"
  /\ NextToRecover(t)
  /\ cache' = [cache EXCEPT ![t] = "pending"]
  /\ IF Len(queue) < QueueSize
     THEN queue' = Append(queue, t) /\ enqueued' = enqueued \cup {t}
     ELSE UNCHANGED <<queue, enqueued>>
  /\ toRecover' = toRecover \ {t}
  /\ UNCHANGED <<db, proc, reader, worker, request, boots, history>>

RecoverTask(t) ==
  /\ proc = "recovering"
  /\ NextToRecover(t)
  /\ Len(queue) < QueueSize
  /\ cache' = [cache EXCEPT ![t] = "pending"]
  /\ enqueued' = enqueued \cup {t}
  /\ queue' = IF t \in enqueued THEN queue ELSE Append(queue, t)
  /\ toRecover' = toRecover \ {t}
  /\ UNCHANGED <<db, proc, reader, worker, request, boots, history>>

FinishBoot ==
  /\ proc = "recovering"
  /\ toRecover = {}
  /\ proc' = "up"
  /\ worker' = Selecting
  /\ UNCHANGED <<db, cache, queue, enqueued, reader, toRecover, request, boots, history>>

\* What the end of the process does: volatile state is gone, requests under
\* way are cut off, and a committed but unreported execution is accounted.
EndProcess ==
  /\ proc' = "down"
  /\ cache' = [t \in Tasks |-> "none"]
  /\ queue' = <<>>
  /\ enqueued' = {}
  /\ reader' = [r \in Readers |-> IdleReader]
  /\ worker' = OffWorker
  /\ toRecover' = {}
  /\ request' = [t \in Tasks |-> IF request[t] \in InFlight THEN "cut" ELSE request[t]]
  /\ lost' = [t \in Tasks |->
                IF worker.pc \in Reporting /\ worker.task = t /\ worker.outcome = "succeeded"
                THEN lost[t] + 1 ELSE lost[t]]
  /\ UNCHANGED <<db, boots, applied, faulted>>

\* A full queue during recovery fails StartWorker, NewServices and the boot.
RecoverOverflow ==
  /\ proc = "recovering"
  /\ toRecover # {}
  /\ Len(queue) = QueueSize
  /\ EndProcess

\* A crash, or an exit whose 5 s grace periods ran out.
Crash ==
  /\ proc # "down"
  /\ boots < MaxBoots
  /\ EndProcess

\* shutdown() cancels the worker's context and then waits for the worker;
\* the HTTP server still serves requests during that wait.
Stop ==
  /\ proc = "up"
  /\ boots < MaxBoots
  /\ proc' = "stopping"
  /\ UNCHANGED <<db, volatile, request, boots, history>>

Exit ==
  /\ proc = "stopping"
  /\ worker.pc = "off"
  /\ \A t \in Tasks : request[t] \notin InFlight
  /\ EndProcess

-----------------------------------------------------------------------------
(* Requests: EnqueueBatch{Add,Update,Delete}ModelsTask after validation.    *)

Serving == proc \in {"up", "stopping"}

CreateTask(t) ==
  /\ Serving
  /\ db[t] = "absent"
  /\ \A u \in Tasks : u < t => db[u] # "absent"
  /\ db' = [db EXCEPT ![t] = "pending"]
  /\ request' = [request EXCEPT ![t] = "created"]
  /\ UNCHANGED <<proc, volatile, boots, history>>

CachePending(t) ==
  /\ request[t] = "created"
  /\ cache' = [cache EXCEPT ![t] = "pending"]
  /\ request' = [request EXCEPT ![t] = "cached"]
  /\ UNCHANGED <<db, proc, queue, enqueued, reader, worker, toRecover, boots, history>>

\* First half of enqueueTaskInMemory, under taskStateMu.
MarkEnqueued(t) ==
  /\ request[t] = "cached"
  /\ enqueued' = enqueued \cup {t}
  /\ request' = [request EXCEPT ![t] = IF t \in enqueued THEN "accepted" ELSE "marked"]
  /\ UNCHANGED <<db, proc, cache, queue, reader, worker, toRecover, boots, history>>

\* Second half: a non-blocking send; a full channel undoes the mark.
SendToQueue(t) ==
  /\ request[t] = "marked"
  /\ IF Len(queue) < QueueSize
     THEN /\ queue' = Append(queue, t)
          /\ request' = [request EXCEPT ![t] = "accepted"]
          /\ UNCHANGED enqueued
     ELSE /\ enqueued' = enqueued \ {t}
          /\ request' = [request EXCEPT ![t] = "rejected"]
          /\ UNCHANGED queue
  /\ UNCHANGED <<db, proc, cache, reader, worker, toRecover, boots, history>>

-----------------------------------------------------------------------------
(* Polls: GetModelBatchTask.  A cache hit changes nothing; a miss reads the *)
(* row and then overwrites whatever the cache holds by that time.           *)

PollMiss(r, t) ==
  /\ Serving
  /\ reader[r] = IdleReader
  /\ PollAnyId \/ request[t] = "accepted"
  /\ cache[t] = "none"
  /\ reader' = [reader EXCEPT ![r] = [pc |-> "read", task |-> t, got |-> "none"]]
  /\ UNCHANGED <<db, proc, cache, queue, enqueued, worker, toRecover, request, boots, history>>

\* A missing row (ErrTaskNotFound) ends the call.
PollRead(r) ==
  /\ reader[r].pc = "read"
  /\ reader' = [reader EXCEPT ![r] =
                  IF db[reader[r].task] = "absent" THEN IdleReader
                  ELSE [pc |-> "fill", task |-> reader[r].task, got |-> db[reader[r].task]]]
  /\ UNCHANGED <<db, proc, cache, queue, enqueued, worker, toRecover, request, boots, history>>

PollFill(r) ==
  /\ reader[r].pc = "fill"
  /\ cache' = [cache EXCEPT ![reader[r].task] = reader[r].got]
  /\ reader' = [reader EXCEPT ![r] = IdleReader]
  /\ UNCHANGED <<db, proc, queue, enqueued, worker, toRecover, request, boots, history>>

-----------------------------------------------------------------------------
(* The worker: the loop of StartModelBatchTaskWorker over                   *)
(* processOneModelBatchTask.  A select with both a cancelled context and a  *)
(* queued id picks either; once cancelled, only the final status update     *)
(* (which uses context.Background) still reaches the database.              *)

Cancelled == proc = "stopping"

\* Seeded bug: the id stays in the queue while its task runs.
Dequeue_peeks ==
  /\ worker.pc = "select"
  /\ queue # <<>>
  /\ worker' = [worker EXCEPT !.pc = "get", !.task = Head(queue)]
  /\ UNCHANGED <<db, proc, cache, queue, enqueued, reader, toRecover, request, boots, history>>

Dequeue ==
  /\ worker.pc = "select"
  /\ queue # <<>>
  /\ worker' = [worker EXCEPT !.pc = "get", !.task = Head(queue)]
  /\ queue' = Tail(queue)
  /\ UNCHANGED <<db, proc, cache, enqueued, reader, toRecover, request, boots, history>>

Quit ==
  /\ worker.pc = "select"
  /\ Cancelled
  /\ worker' = OffWorker
  /\ UNCHANGED <<db, proc, cache, queue, enqueued, reader, toRecover, request, boots, history>>

\* GetModelBatchTaskByID succeeds.
Fetch ==
  /\ worker.pc = "get"
  /\ ~Cancelled
  /\ worker' = [worker EXCEPT !.pc = "mark"]
  /\ UNCHANGED <<db, proc, cache, queue, enqueued, reader, toRecover, request, boots, history>>

MarkRunning ==
  /\ worker.pc = "mark"
  /\ ~Cancelled
  /\ db' = [db EXCEPT ![worker.task] = "running"]
  /\ worker' = [worker EXCEPT !.pc = "cacheRunning"]
  /\ UNCHANGED <<proc, cache, queue, enqueued, reader, toRecover, request, boots, history>>

\* Seeded bug: the error path returns without removeQueuedMark.
DropTask_leaksMark ==
  /\ worker.pc \in Marking
  /\ \/ Cancelled /\ UNCHANGED faulted
     \/ worker.task \in Faulty /\ faulted' = faulted \cup {worker.task}
  /\ worker' = Selecting
  /\ UNCHANGED <<db, proc, cache, queue, enqueued, reader, toRecover, request, boots, applied, lost>>

\* Either call fails: the id leaves memory, the row stays as it is.
DropTask ==
  /\ worker.pc \in Marking
  /\ \/ Cancelled /\ UNCHANGED faulted
     \/ worker.task \in Faulty /\ faulted' = faulted \cup {worker.task}
  /\ enqueued' = enqueued \ {worker.task}
  /\ worker' = Selecting
  /\ UNCHANGED <<db, proc, cache, queue, reader, toRecover, request, boots, applied, lost>>

CacheRunning ==
  /\ worker.pc = "cacheRunning"
  /\ cache' = [cache EXCEPT ![worker.task] = "running"]
  /\ worker' = [worker EXCEPT !.pc = "execute"]
  /\ UNCHANGED <<db, proc, queue, enqueued, reader, toRecover, request, boots, history>>

\* executeModelBatchTask commits the batch's transaction ...
ExecuteCommit ==
  /\ worker.pc = "execute"
  /\ ~Cancelled
  /\ applied' = [applied EXCEPT ![worker.task] = @ + 1]
  /\ worker' = [worker EXCEPT !.pc = "cacheOutcome", !.outcome = "succeeded"]
  /\ UNCHANGED <<db, proc, cache, queue, enqueued, reader, toRecover, request, boots, lost, faulted>>

\* ... or returns an error (refused input, database error, cancellation).
ExecuteFail ==
  /\ worker.pc = "execute"
  /\ worker' = [worker EXCEPT !.pc = "cacheOutcome", !.outcome = "failed"]
  /\ UNCHANGED <<db, proc, cache, queue, enqueued, reader, toRecover, request, boots, history>>

\* Seeded bug: the final status is written to the table only.
CacheOutcome_skipsCache ==
  /\ worker.pc = "cacheOutcome"
  /\ worker' = [worker EXCEPT !.pc = "finish"]
  /\ UNCHANGED <<db, proc, cache, queue, enqueued, reader, toRecover, request, boots, history>>

\* Seeded bug: the cache is told of success before the error is looked at.
CacheOutcome_ignoresError ==
  /\ worker.pc = "cacheOutcome"
  /\ cache' = [cache EXCEPT ![worker.task] = "succeeded"]
  /\ worker' = [worker EXCEPT !.pc = "finish"]
  /\ UNCHANGED <<db, proc, queue, enqueued, reader, toRecover, request, boots, history>>

CacheOutcome ==
  /\ worker.pc = "cacheOutcome"
  /\ cache' = [cache EXCEPT ![worker.task] = worker.outcome]
  /\ worker' = [worker EXCEPT !.pc = "finish"]
  /\ UNCHANGED <<db, proc, queue, enqueued, reader, toRecover, request, boots, history>>

\* Seeded bug: the error of the execution is dropped.
FinishTask_ignoresError ==
  /\ worker.pc = "finish"
  /\ db' = [db EXCEPT ![worker.task] = "succeeded"]
  /\ enqueued' = enqueued \ {worker.task}
  /\ worker' = Selecting
  /\ UNCHANGED <<proc, cache, queue, reader, toRecover, request, boots, history>>

\* FinishModelBatchTask and the deferred removeQueuedMark.
FinishTask ==
  /\ worker.pc = "finish"
  /\ db' = [db EXCEPT ![worker.task] = worker.outcome]
  /\ enqueued' = enqueued \ {worker.task}
  /\ worker' = Selecting
  /\ UNCHANGED <<proc, cache, queue, reader, toRecover, request, boots, history>>

\* The update fails; the error is only logged.
FinishLost ==
  /\ worker.pc = "finish"
  /\ worker.task \in Faulty
  /\ faulted' = faulted \cup {worker.task}
  /\ lost' = IF worker.outcome = "succeeded"
             THEN [lost EXCEPT ![worker.task] = @ + 1] ELSE lost
  /\ enqueued' = enqueued \ {worker.task}
  /\ worker' = Selecting
  /\ UNCHANGED <<db, proc, cache, queue, reader, toRecover, request, boots, applied>>

-----------------------------------------------------------------------------

Lifecycle == BeginBoot \/ FinishBoot \/ RecoverOverflow \/ Crash \/ Stop \/ Exit
             \/ \E t \in Tasks : RecoverTask(t)

Request(t) == CreateTask(t) \/ CachePending(t) \/ MarkEnqueued(t) \/ SendToQueue(t)

Poll(r) == (\E t \in Tasks : PollMiss(r, t)) \/ PollRead(r) \/ PollFill(r)

Worker == Dequeue \/ Quit \/ Fetch \/ MarkRunning \/ DropTask \/ CacheRunning
          \/ ExecuteCommit \/ ExecuteFail \/ CacheOutcome \/ FinishTask \/ FinishLost

Next ==
  \/ Lifecycle
  \/ \E t \in Tasks : Request(t)
  \/ \E r \in Readers : Poll(r)
  \/ Worker

Spec == Init /\ [][Next]_vars

\* The goroutines that are already running are scheduled, and a stopped
\* process is started again (container restart policy, operator); nobody is
\* obliged to send requests, to poll, to stop the process or to crash it.
Fairness ==
  /\ WF_vars(BeginBoot)
  /\ WF_vars(FinishBoot \/ RecoverOverflow \/ \E t \in Tasks : RecoverTask(t))
  /\ WF_vars(Exit)
  /\ WF_vars(Worker)
  /\ \A t \in Tasks : WF_vars(CachePending(t) \/ MarkEnqueued(t) \/ SendToQueue(t))

FairSpec == Spec /\ Fairness

-----------------------------------------------------------------------------
(* Properties *)

Elems(q)    == {q[i] : i \in 1..Len(q)}
Distinct(q) == \A i, j \in 1..Len(q) : q[i] = q[j] => i = j

Queued == Elems(queue)
Held   == IF worker.pc \in Holding THEN {worker.task} ELSE {}
InReport(t) == worker.pc \in Reporting /\ worker.task = t

\* Types, and the channel never holds more than its capacity.
TypeOK ==
  /\ db \in [Tasks -> Statuses \cup {"absent"}]
  /\ proc \in {"down", "recovering", "up", "stopping"}
  /\ cache \in [Tasks -> Statuses \cup {"none"}]
  /\ queue \in Seq(Tasks)
  /\ Len(queue) <= QueueSize
  /\ enqueued \subseteq Tasks
  /\ request \in [Tasks -> InFlight \cup {"none", "accepted", "rejected", "cut"}]
  /\ reader \in [Readers -> [pc : {"idle", "read", "fill"}, task : Tasks \cup {NoTask},
                              got : Statuses \cup {"none"}]]
  /\ worker \in [pc : Holding \cup {"off", "select"}, task : Tasks \cup {NoTask},
                  outcome : Terminal \cup {"none"}]
  /\ toRecover \subseteq Tasks
  /\ boots \in Nat
  /\ applied \in [Tasks -> Nat]
  /\ lost \in [Tasks -> Nat]
  /\ faulted \subseteq Tasks

\* No id is in the channel twice or in the channel while its task is being
\* run, and taskEnqueued marks exactly the ids that are queued, held by the
\* worker or about to be sent: a leaked mark would make a later enqueue of
\* that id a silent no-op, a missing one would let the id in twice.
QueueDiscipline ==
  /\ Distinct(queue)
  /\ Queued \cap Held = {}
  /\ enqueued = Queued \cup Held \cup {t \in Tasks : request[t] = "marked"}

\* A final status is never overwritten, although MarkModelBatchTaskRunning
\* and FinishModelBatchTask update by id alone, whatever the row says.
TerminalIsFinal ==
  [][\A t \in Tasks : db[t] \in Terminal => db'[t] = db[t]]_vars

\* Every commit of a task's business transaction is either reported by the
\* row ("succeeded"), about to be reported, or one whose report was lost to
\* a crash or a refused update.  So a task none of whose reports was lost
\* committed exactly once if it says succeeded and never if it says failed.
EffectAccounting ==
  \A t \in Tasks :
    applied[t] = lost[t] + (IF \/ db[t] = "succeeded"
                               \/ InReport(t) /\ worker.outcome = "succeeded"
                            THEN 1 ELSE 0)

\* While the process is up, an unfinished task whose request was accepted, or
\* was cut off by the end of an earlier process, is still in memory, unless
\* the database failed under the worker at that task.
NoLostTask ==
  proc = "up" =>
    \A t \in Tasks :
      db[t] \in Unfinished /\ request[t] \in {"accepted", "cut"} /\ t \notin faulted
        => t \in Queued \cup Held

\* The server only opens with every unfinished row queued: a recovery that
\* does not fit in the channel fails the start instead.
StartRecoversAll ==
  [][proc = "recovering" /\ proc' = "up"
       => {t \in Tasks : db[t] \in Unfinished} \subseteq Queued]_vars

\* A final status served from the cache is the row's, except between the two
\* writes of the worker and after a refused final update.
CacheHonest ==
  \A t \in Tasks :
    cache[t] \in Terminal =>
      \/ db[t] = cache[t]
      \/ worker.pc = "finish" /\ worker.task = t
      \/ t \in faulted

\* A poll of a finished task never gets an older status, provided that ids
\* are polled only after they were handed out (PollAnyId = FALSE): otherwise
\* a poll between the insert and CachePending can overwrite the final status.
FinishedIsReported ==
  \A t \in Tasks : db[t] \in Terminal /\ cache[t] # "none" => cache[t] = db[t]

\* With a channel that fits all rows and no database failures, every accepted
\* task reaches a final status across stops, crashes and restarts.
AcceptedTaskFinishes ==
  \A t \in Tasks : request[t] = "accepted" ~> db[t] \in Terminal

-----------------------------------------------------------------------------
\* The service implements the ledger it promises: queue, caches, requests,
\* polls and restarts are invisible in it.
Attempt ==
  IF worker.pc \in Executing \cup Reporting
  THEN [task |-> worker.task, committed |-> worker.outcome = "succeeded"]
  ELSE [task |-> NoTask, committed |-> FALSE]

Ledger == INSTANCE TaskLedger WITH ledger <- db, attempt <- Attempt

ImplementsLedger == Ledger!LedgerSpec
=============================================================================
