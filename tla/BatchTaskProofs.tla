--------------------------- MODULE BatchTaskProofs ---------------------------
(***************************************************************************)
(* Theorems about BatchTask, for every number of tasks, channel capacity,  *)
(* number of restarts, set of pollers and set of tasks the database fails: *)
(* its invariants, the refinement of TaskLedger, and what polls report.    *)
(***************************************************************************)
EXTENDS BatchTask, TLAPS

\* The worker holds a task exactly at the steps that need one, and an outcome
\* exactly at the steps that report one; a poll under way has a task.
Shape ==
  /\ worker.pc \in Holding => worker.task \in Tasks
  /\ worker.pc \in Reporting <=> worker.outcome # "none"
  /\ \A r \in Readers : reader[r].pc # "idle" => reader[r].task \in Tasks

TypeInv == TypeOK /\ Shape

LEMMA TasksArePositive == NoTask \notin Tasks /\ Tasks \subseteq Nat
  BY BatchTaskAssumption DEF NoTask, Tasks

\* A send into a channel with room, and a receive, keep it within capacity.
LEMMA SendFits ==
  ASSUME NEW S, NEW q \in Seq(S), NEW x \in S, NEW cap \in Nat, Len(q) < cap
  PROVE  Append(q, x) \in Seq(S) /\ Len(Append(q, x)) <= cap
  OBVIOUS

LEMMA ReceiveFits ==
  ASSUME NEW S, NEW q \in Seq(S), q # <<>>, NEW cap \in Nat, Len(q) <= cap
  PROVE  Head(q) \in S /\ Tail(q) \in Seq(S) /\ Len(Tail(q)) <= cap
  OBVIOUS

LEMMA InitTypeInv == Init => TypeInv
  BY BatchTaskAssumption
  DEF Init, TypeInv, TypeOK, Shape, IdleReader, OffWorker, Holding, Marking,
      Executing, Reporting, InFlight, Statuses, Unfinished, Terminal, NoTask

LEMMA EndProcessTypeInv == TypeInv /\ EndProcess => TypeInv'
  <1> SUFFICES ASSUME TypeInv, EndProcess PROVE TypeInv'
    OBVIOUS
  <1> USE DEF TypeInv, TypeOK, EndProcess
  <1>1. request' \in [Tasks -> InFlight \cup {"none", "accepted", "rejected", "cut"}]
    OBVIOUS
  <1>2. lost' \in [Tasks -> Nat]
    OBVIOUS
  <1>3. /\ cache' \in [Tasks -> Statuses \cup {"none"}]
        /\ reader' \in [Readers -> [pc : {"idle", "read", "fill"}, task : Tasks \cup {NoTask},
                                    got : Statuses \cup {"none"}]]
        /\ queue' \in Seq(Tasks) /\ Len(queue') <= QueueSize
        /\ enqueued' \subseteq Tasks /\ toRecover' \subseteq Tasks
    BY BatchTaskAssumption DEF IdleReader
  <1>4. worker' \in [pc : Holding \cup {"off", "select"}, task : Tasks \cup {NoTask},
                     outcome : Terminal \cup {"none"}]
    BY DEF OffWorker
  <1>5. Shape'
    BY DEF Shape, OffWorker, IdleReader, Holding, Marking, Executing, Reporting
  <1> QED BY <1>1, <1>2, <1>3, <1>4, <1>5

LEMMA NextTypeInv == TypeInv /\ [Next]_vars => TypeInv'
  <1> SUFFICES ASSUME TypeInv, [Next]_vars PROVE TypeInv'
    OBVIOUS
  <1> USE DEF TypeInv, TypeOK, Shape, Statuses, Unfinished, Terminal, InFlight,
              Holding, Marking, Executing, Reporting
  <1>1. CASE BeginBoot
    BY <1>1 DEF BeginBoot, history
  <1>2. ASSUME NEW t \in Tasks, RecoverTask(t) PROVE TypeInv'
    <2>1. queue' \in Seq(Tasks) /\ Len(queue') <= QueueSize
      BY <1>2, SendFits, BatchTaskAssumption DEF RecoverTask
    <2> QED BY <1>2, <2>1 DEF RecoverTask, history
  <1>3. CASE FinishBoot
    BY <1>3 DEF FinishBoot, history, Selecting
  <1>4. CASE RecoverOverflow \/ Crash \/ Exit
    BY <1>4, EndProcessTypeInv DEF RecoverOverflow, Crash, Exit
  <1>5. CASE Stop
    BY <1>5 DEF Stop, volatile, history
  <1>6. ASSUME NEW t \in Tasks, CreateTask(t) PROVE TypeInv'
    BY <1>6 DEF CreateTask, volatile, history
  <1>7. ASSUME NEW t \in Tasks, CachePending(t) PROVE TypeInv'
    BY <1>7 DEF CachePending, history
  <1>8. ASSUME NEW t \in Tasks, MarkEnqueued(t) PROVE TypeInv'
    BY <1>8 DEF MarkEnqueued, history
  <1>9. ASSUME NEW t \in Tasks, SendToQueue(t) PROVE TypeInv'
    <2>1. queue' \in Seq(Tasks) /\ Len(queue') <= QueueSize
      <3>1. CASE Len(queue) < QueueSize
        <4>1. queue' = Append(queue, t)
          BY <1>9, <3>1 DEF SendToQueue
        <4>2. queue \in Seq(Tasks) /\ QueueSize \in Nat
          BY BatchTaskAssumption
        <4> QED BY <3>1, <4>1, <4>2, SendFits
      <3>2. CASE ~(Len(queue) < QueueSize)
        BY <1>9, <3>2 DEF SendToQueue
      <3> QED BY <3>1, <3>2
    <2> QED BY <1>9, <2>1 DEF SendToQueue, history
  <1>10. ASSUME NEW r \in Readers, NEW t \in Tasks, PollMiss(r, t) PROVE TypeInv'
    BY <1>10 DEF PollMiss, history
  <1>11. ASSUME NEW r \in Readers, PollRead(r) PROVE TypeInv'
    BY <1>11 DEF PollRead, history, IdleReader
  <1>12. ASSUME NEW r \in Readers, PollFill(r) PROVE TypeInv'
    BY <1>12 DEF PollFill, history, IdleReader
  <1>13. CASE Dequeue
    <2>1. Head(queue) \in Tasks /\ queue' \in Seq(Tasks) /\ Len(queue') <= QueueSize
      BY <1>13, ReceiveFits, BatchTaskAssumption DEF Dequeue
    <2> QED BY <1>13, <2>1 DEF Dequeue, history
  <1>14. CASE Quit
    BY <1>14 DEF Quit, history, OffWorker
  <1>15. CASE Fetch
    BY <1>15 DEF Fetch, history
  <1>16. CASE MarkRunning
    BY <1>16 DEF MarkRunning, history
  <1>17. CASE DropTask
    BY <1>17 DEF DropTask, Selecting
  <1>18. CASE CacheRunning
    BY <1>18 DEF CacheRunning, history
  <1>19. CASE ExecuteCommit
    <2>1. applied' \in [Tasks -> Nat]
      BY <1>19 DEF ExecuteCommit
    <2>2. worker' \in [pc : Holding \cup {"off", "select"}, task : Tasks \cup {NoTask},
                       outcome : Terminal \cup {"none"}] /\ Shape'
      BY <1>19 DEF ExecuteCommit
    <2> QED BY <1>19, <2>1, <2>2 DEF ExecuteCommit
  <1>20. CASE ExecuteFail
    BY <1>20 DEF ExecuteFail, history
  <1>21. CASE CacheOutcome
    BY <1>21 DEF CacheOutcome, history
  <1>22. CASE FinishTask
    BY <1>22 DEF FinishTask, history, Selecting
  <1>23. CASE FinishLost
    BY <1>23 DEF FinishLost, Selecting
  <1>24. CASE UNCHANGED vars
    BY <1>24 DEF vars, volatile, history
  <1> QED
    BY <1>1, <1>2, <1>3, <1>4, <1>5, <1>6, <1>7, <1>8, <1>9, <1>10, <1>11, <1>12,
       <1>13, <1>14, <1>15, <1>16, <1>17, <1>18, <1>19, <1>20, <1>21, <1>22, <1>23, <1>24
    DEF Next, Lifecycle, Request, Poll, Worker

\* Every variable keeps its type and the channel its bound, for every instance.
THEOREM TypeCorrect == Spec => []TypeOK
  <1>1. Spec => []TypeInv
    BY InitTypeInv, NextTypeInv, PTL DEF Spec
  <1>2. TypeInv => TypeOK
    BY DEF TypeInv
  <1> QED BY <1>1, <1>2, PTL

-----------------------------------------------------------------------------
(* The inductive invariant.  TerminalIsFinal and the accounting rest on who  *)
(* may hold an id: it is listed by recovery, on its way through a request,   *)
(* queued or held by the worker, in at most one of these places, and only    *)
(* while its row is unfinished.                                              *)

\* What exists in which phase of the process.
PhaseInv ==
  /\ proc \in {"down", "recovering"} =>
       worker.pc = "off" /\ \A t \in Tasks : request[t] \notin InFlight
  /\ proc = "down" => queue = <<>> /\ enqueued = {}
  /\ proc # "recovering" => toRecover = {}

\* What a row says of a task that is somewhere on its way.
RowInv ==
  /\ \A t \in Tasks : db[t] = "absent" <=> request[t] = "none"
  /\ \A t \in Tasks : t \in toRecover \cup Queued \cup Held => db[t] \in Unfinished
  /\ \A t \in Tasks : request[t] \in InFlight => db[t] = "pending"
  /\ worker.pc \in Executing \cup Reporting => db[worker.task] = "running"

\* An id being recovered or requested is not in the channel or held yet.
ApartInv ==
  /\ toRecover \cap Queued = {}
  /\ \A t \in Tasks : request[t] \in InFlight => t \notin Queued \cup Held

IInv == TypeInv /\ PhaseInv /\ RowInv /\ ApartInv /\ QueueDiscipline

\* What a send does to the contents of the channel ...
LEMMA SendContents ==
  ASSUME NEW S, NEW q \in Seq(S), NEW x \in S, Distinct(q), x \notin Elems(q)
  PROVE  Elems(Append(q, x)) = Elems(q) \cup {x} /\ Distinct(Append(q, x))
  <1> DEFINE a == Append(q, x)
  <1>1. /\ Len(a) = Len(q) + 1 /\ Len(q) \in Nat
        /\ \A i \in 1..Len(q) : a[i] = q[i]
        /\ a[Len(q) + 1] = x
    OBVIOUS
  <1> HIDE DEF a
  <1>2. Elems(a) = Elems(q) \cup {x}
    <2>1. ASSUME NEW y \in Elems(a) PROVE y \in Elems(q) \cup {x}
      BY <1>1, <2>1 DEF Elems
    <2>2. ASSUME NEW y \in Elems(q) \cup {x} PROVE y \in Elems(a)
      BY <1>1, <2>2 DEF Elems
    <2> QED BY <2>1, <2>2
  <1>3. Distinct(a)
    <2> SUFFICES ASSUME NEW i \in 1..Len(a), NEW j \in 1..Len(a), a[i] = a[j] PROVE i = j
      BY DEF Distinct
    <2>1. \A k \in 1..Len(q) : a[k] # x
      BY <1>1 DEF Elems
    <2> QED BY <1>1, <2>1 DEF Distinct
  <1> QED BY <1>2, <1>3 DEF a

\* ... and what a receive does.
LEMMA ReceiveContents ==
  ASSUME NEW S, NEW q \in Seq(S), q # <<>>, Distinct(q)
  PROVE  /\ Elems(Tail(q)) = Elems(q) \ {Head(q)} /\ Distinct(Tail(q))
         /\ Head(q) \in Elems(q)
  <1> DEFINE r == Tail(q)
  <1>1. /\ Len(r) = Len(q) - 1 /\ Len(q) \in Nat \ {0} /\ Len(r) \in Nat
        /\ \A i \in 1..Len(r) : r[i] = q[i + 1]
        /\ Head(q) = q[1]
    OBVIOUS
  <1> HIDE DEF r
  <1>2. Head(q) \in Elems(q)
    BY <1>1 DEF Elems
  <1>3. Elems(r) = Elems(q) \ {Head(q)}
    <2>1. ASSUME NEW y \in Elems(r) PROVE y \in Elems(q) \ {Head(q)}
      <3>1. PICK i \in 1..Len(r) : y = q[i + 1]
        BY <1>1, <2>1 DEF Elems
      <3>2. i + 1 \in 1..Len(q) /\ 1 \in 1..Len(q) /\ i + 1 # 1
        BY <1>1
      <3> QED BY <1>1, <3>1, <3>2 DEF Elems, Distinct
    <2>2. ASSUME NEW y \in Elems(q) \ {Head(q)} PROVE y \in Elems(r)
      <3>1. PICK i \in 1..Len(q) : y = q[i]
        BY <2>2 DEF Elems
      <3>2. i # 1
        BY <1>1, <2>2, <3>1
      <3>3. i - 1 \in 1..Len(r) /\ (i - 1) + 1 = i
        BY <1>1, <3>2
      <3>4. r[i - 1] = y
        BY <1>1, <3>1, <3>3
      <3> QED BY <3>3, <3>4 DEF Elems
    <2> QED BY <2>1, <2>2
  <1>4. Distinct(r)
    <2> SUFFICES ASSUME NEW i \in 1..Len(r), NEW j \in 1..Len(r), r[i] = r[j] PROVE i = j
      BY DEF Distinct
    <2>1. i + 1 \in 1..Len(q) /\ j + 1 \in 1..Len(q) /\ q[i + 1] = q[j + 1]
      BY <1>1
    <2>2. i + 1 = j + 1
      BY <2>1 DEF Distinct
    <2> QED BY <2>2
  <1> QED BY <1>2, <1>3, <1>4 DEF r

LEMMA EmptyChannel == Elems(<<>>) = {} /\ Distinct(<<>>)
  BY DEF Elems, Distinct

LEMMA InitIInv == Init => IInv
  <1> SUFFICES ASSUME Init PROVE IInv
    OBVIOUS
  <1>1. TypeInv
    BY InitTypeInv
  <1>2. Queued = {} /\ Distinct(queue) /\ Held = {}
    BY EmptyChannel
    DEF Init, Queued, Held, OffWorker, Holding, Marking, Executing, Reporting
  <1> QED
    BY <1>1, <1>2
    DEF Init, IInv, PhaseInv, RowInv, ApartInv, QueueDiscipline, InFlight, OffWorker,
        Executing, Reporting

LEMMA EndProcessIInv == IInv /\ EndProcess => IInv'
  <1> SUFFICES ASSUME IInv, EndProcess PROVE IInv'
    OBVIOUS
  <1>1. TypeInv'
    BY EndProcessTypeInv DEF IInv
  <1>2. Queued' = {} /\ Distinct(queue)' /\ Held' = {}
    BY EmptyChannel
    DEF EndProcess, Queued, Held, OffWorker, Holding, Marking, Executing, Reporting
  <1>3. \A t \in Tasks : /\ request'[t] \notin InFlight
                         /\ request'[t] = "none" <=> request[t] = "none"
    BY DEF EndProcess, IInv, TypeInv, TypeOK, InFlight
  <1> QED
    BY <1>1, <1>2, <1>3
    DEF EndProcess, IInv, PhaseInv, RowInv, ApartInv, QueueDiscipline, InFlight,
        OffWorker, Executing, Reporting

\* How the three actions that touch the channel change its contents.
LEMMA RecoverTaskQueues ==
  ASSUME IInv, NEW t \in Tasks, RecoverTask(t)
  PROVE  /\ Queued' = Queued \cup {t} /\ Distinct(queue)'
         /\ Held = {} /\ Held' = {} /\ t \notin enqueued
  <1>1. t \in toRecover /\ t \notin Queued /\ Held = {} /\ Held' = {}
    BY DEF RecoverTask, NextToRecover, IInv, ApartInv, PhaseInv, Held, Holding, Marking,
           Executing, Reporting
  <1>2. t \notin enqueued
    BY <1>1 DEF IInv, QueueDiscipline, PhaseInv, RecoverTask, InFlight
  <1> QED
    BY <1>1, <1>2, SendContents
    DEF RecoverTask, Queued, IInv, QueueDiscipline, TypeInv, TypeOK

LEMMA SendToQueueQueues ==
  ASSUME IInv, NEW t \in Tasks, SendToQueue(t)
  PROVE  /\ t \notin Queued \cup Held /\ db[t] = "pending" /\ Distinct(queue)'
         /\ Len(queue) < QueueSize => Queued' = Queued \cup {t}
         /\ ~(Len(queue) < QueueSize) => Queued' = Queued
  <1>1. t \notin Queued \cup Held /\ db[t] = "pending"
    BY DEF SendToQueue, IInv, ApartInv, RowInv, InFlight
  <1>2. queue \in Seq(Tasks) /\ Distinct(queue) /\ t \notin Elems(queue)
    BY <1>1 DEF Queued, IInv, QueueDiscipline, TypeInv, TypeOK
  <1>3. CASE Len(queue) < QueueSize
    <2>1. queue' = Append(queue, t)
      BY <1>3 DEF SendToQueue
    <2> QED BY <1>1, <1>2, <1>3, <2>1, SendContents DEF Queued
  <1>4. CASE ~(Len(queue) < QueueSize)
    <2>1. queue' = queue
      BY <1>4 DEF SendToQueue
    <2> QED BY <1>1, <1>2, <1>4, <2>1 DEF Queued
  <1> QED BY <1>3, <1>4

LEMMA DequeueMoves ==
  ASSUME IInv, Dequeue
  PROVE  /\ Queued' = Queued \ {Head(queue)} /\ Distinct(queue)'
         /\ Head(queue) \in Queued /\ Held = {} /\ Held' = {Head(queue)}
  <1>1. /\ Queued' = Queued \ {Head(queue)} /\ Distinct(queue)'
        /\ Head(queue) \in Queued
    BY ReceiveContents DEF Dequeue, Queued, IInv, QueueDiscipline, TypeInv, TypeOK
  <1>2. Held = {} /\ Held' = {Head(queue)}
    BY DEF Dequeue, Held, IInv, TypeInv, TypeOK, Holding, Marking, Executing, Reporting
  <1> QED BY <1>1, <1>2

LEMMA StartIInv ==
  ASSUME IInv, TypeInv', BeginBoot \/ FinishBoot \/ \E t \in Tasks : RecoverTask(t)
  PROVE  IInv'
  <1> USE DEF IInv
  <1>1. CASE BeginBoot
    <2>1. Queued' = Queued /\ Distinct(queue)' /\ Held' = Held /\ Queued = {}
      BY <1>1, EmptyChannel DEF BeginBoot, Queued, Held, QueueDiscipline, PhaseInv
    <2> QED
      BY <1>1, <2>1
      DEF BeginBoot, PhaseInv, RowInv, ApartInv, QueueDiscipline
  <1>2. CASE FinishBoot
    <2>1. /\ Queued' = Queued /\ Distinct(queue)' /\ Held' = {} /\ Held = {}
          /\ worker'.pc = "select"
      BY <1>2
      DEF FinishBoot, Queued, Held, QueueDiscipline, PhaseInv, Selecting, Holding,
          Marking, Executing, Reporting
    <2> QED
      BY <1>2, <2>1
      DEF FinishBoot, PhaseInv, RowInv, ApartInv, QueueDiscipline, Executing, Reporting
  <1>3. ASSUME NEW t \in Tasks, RecoverTask(t) PROVE IInv'
    <2>1. /\ Queued' = Queued \cup {t} /\ Distinct(queue)'
          /\ Held = {} /\ Held' = {} /\ t \notin enqueued /\ t \in toRecover
      BY <1>3, RecoverTaskQueues DEF RecoverTask, NextToRecover
    <2> QED
      BY <1>3, <2>1
      DEF RecoverTask, PhaseInv, RowInv, ApartInv, QueueDiscipline
  <1> QED BY <1>1, <1>2, <1>3

LEMMA RequestIInv ==
  ASSUME IInv, TypeInv', NEW t \in Tasks, Request(t)
  PROVE  IInv'
  <1> USE DEF IInv
  <1>1. Held' = Held
    BY DEF Request, CreateTask, CachePending, MarkEnqueued, SendToQueue, Held, volatile
  <1>2. CASE CreateTask(t) \/ CachePending(t) \/ MarkEnqueued(t)
    <2>1. Queued' = Queued /\ Distinct(queue)'
      BY <1>2 DEF CreateTask, CachePending, MarkEnqueued, Queued, QueueDiscipline, volatile
    <2>2. CASE CreateTask(t)
      <3>1. /\ Serving /\ db[t] = "absent"
            /\ UNCHANGED <<proc, queue, enqueued, worker, toRecover>>
        BY <2>2 DEF CreateTask, volatile
      <3>2. /\ db'[t] = "pending" /\ request'[t] = "created"
            /\ \A u \in Tasks : u # t => db'[u] = db[u] /\ request'[u] = request[u]
        BY <2>2 DEF CreateTask, TypeInv, TypeOK
      <3>3. /\ request[t] = "none" /\ t \notin toRecover \cup Queued \cup Held
            /\ ~(worker.pc \in Executing \cup Reporting /\ worker.task = t)
        BY <3>1 DEF RowInv, Unfinished
      <3>4. PhaseInv' /\ ApartInv'
        BY <1>1, <2>1, <3>1, <3>2, <3>3 DEF PhaseInv, ApartInv, Serving
      <3>5. RowInv'
        <4>1. \A u \in Tasks : /\ db'[u] = "absent" <=> request'[u] = "none"
                               /\ request'[u] \in InFlight => db'[u] = "pending"
          BY <3>2 DEF RowInv
        <4>2. \A u \in Tasks :
                u \in toRecover' \cup Queued' \cup Held' => db'[u] \in Unfinished
          BY <1>1, <2>1, <3>1, <3>2 DEF RowInv, Unfinished
        <4>3. worker'.pc \in Executing \cup Reporting => db'[worker'.task] = "running"
          <5>1. worker.pc \in Executing \cup Reporting =>
                  worker.task \in Tasks /\ db[worker.task] = "running"
            BY DEF RowInv, TypeInv, Shape, Holding
          <5> QED BY <3>1, <3>2, <3>3, <5>1
        <4> QED BY <4>1, <4>2, <4>3 DEF RowInv
      <3>6. QueueDiscipline'
        BY <1>1, <2>1, <3>1, <3>2, <3>3 DEF QueueDiscipline
      <3> QED BY <3>4, <3>5, <3>6
    <2>3. CASE CachePending(t)
      BY <1>1, <2>1, <2>3
      DEF CachePending, PhaseInv, RowInv, ApartInv, QueueDiscipline, InFlight, TypeInv, TypeOK
    <2>4. CASE MarkEnqueued(t)
      <3>1. t \notin enqueued /\ request'[t] = "marked"
        BY <2>4 DEF MarkEnqueued, ApartInv, QueueDiscipline, InFlight, TypeInv, TypeOK
      <3>2. /\ enqueued' = enqueued \cup {t}
            /\ UNCHANGED <<db, proc, queue, worker, toRecover>>
            /\ request[t] = "cached"
        BY <2>4 DEF MarkEnqueued
      <3>3. \A u \in Tasks : u # t => request'[u] = request[u]
        BY <2>4 DEF MarkEnqueued, TypeInv, TypeOK
      <3>4. PhaseInv' /\ ApartInv'
        BY <1>1, <2>1, <3>1, <3>2, <3>3 DEF PhaseInv, ApartInv, InFlight
      <3>5. RowInv'
        BY <1>1, <2>1, <3>1, <3>2, <3>3 DEF RowInv, InFlight
      <3>6. QueueDiscipline'
        BY <1>1, <2>1, <3>1, <3>2, <3>3 DEF QueueDiscipline
      <3> QED BY <3>4, <3>5, <3>6
    <2> QED BY <1>2, <2>2, <2>3, <2>4
  <1>3. CASE SendToQueue(t)
    <2>1. t \notin Queued \cup Held /\ db[t] = "pending"
      BY <1>3, SendToQueueQueues
    <2>2. CASE Len(queue) < QueueSize
      <3>1. Queued' = Queued \cup {t} /\ Distinct(queue)'
        BY <1>3, <2>2, SendToQueueQueues
      <3> QED
        <4>1. /\ request' = [request EXCEPT ![t] = "accepted"]
              /\ UNCHANGED <<db, proc, enqueued, worker, toRecover>>
          BY <1>3, <2>2 DEF SendToQueue
        <4>2. \A u \in Tasks : u # t => request'[u] = request[u]
          BY <4>1 DEF TypeInv, TypeOK
        <4>3. request'[t] = "accepted" /\ request[t] = "marked"
          BY <1>3, <4>1 DEF SendToQueue, TypeInv, TypeOK
        <4>4. PhaseInv' /\ ApartInv'
          BY <1>1, <3>1, <4>1, <4>2, <4>3 DEF PhaseInv, ApartInv, InFlight
        <4>5. RowInv'
          BY <1>1, <2>1, <3>1, <4>1, <4>2, <4>3 DEF RowInv, InFlight, Unfinished
        <4>6. QueueDiscipline'
          BY <1>1, <2>1, <3>1, <4>1, <4>2, <4>3 DEF QueueDiscipline
        <4> QED BY <4>4, <4>5, <4>6
    <2>3. CASE ~(Len(queue) < QueueSize)
      <3>1. Queued' = Queued /\ Distinct(queue)'
        BY <1>3, <2>3, SendToQueueQueues
      <3> QED
        <4>1. /\ enqueued' = enqueued \ {t}
              /\ request' = [request EXCEPT ![t] = "rejected"]
              /\ UNCHANGED <<db, proc, worker, toRecover>>
          BY <1>3, <2>3 DEF SendToQueue
        <4>2. \A u \in Tasks : u # t => request'[u] = request[u]
          BY <4>1 DEF TypeInv, TypeOK
        <4>3. request'[t] = "rejected" /\ request[t] = "marked"
          BY <1>3, <4>1 DEF SendToQueue, TypeInv, TypeOK
        <4>4. PhaseInv' /\ ApartInv'
          BY <1>1, <3>1, <4>1, <4>2, <4>3 DEF PhaseInv, ApartInv, InFlight
        <4>5. RowInv'
          BY <1>1, <3>1, <4>1, <4>2, <4>3 DEF RowInv, InFlight
        <4>6. QueueDiscipline'
          BY <1>1, <2>1, <3>1, <4>1, <4>2, <4>3 DEF QueueDiscipline
        <4> QED BY <4>4, <4>5, <4>6
    <2> QED BY <2>2, <2>3
  <1> QED BY <1>2, <1>3 DEF Request

LEMMA WorkerIInv ==
  ASSUME IInv, TypeInv', Worker
  PROVE  IInv'
  <1> USE DEF IInv
  <1>0. /\ worker \in [pc : Holding \cup {"off", "select"}, task : Tasks \cup {NoTask},
                       outcome : Terminal \cup {"none"}]
        /\ db \in [Tasks -> Statuses \cup {"absent"}]
        /\ worker.pc \in Holding => worker.task \in Tasks /\ Held = {worker.task}
    BY DEF TypeInv, TypeOK, Shape, Held
  <1>a. UNCHANGED <<proc, toRecover, request>>
    BY DEF Worker, Dequeue, Quit, Fetch, MarkRunning, DropTask, CacheRunning,
           ExecuteCommit, ExecuteFail, CacheOutcome, FinishTask, FinishLost, history
  <1>b. worker.pc # "off"
    BY DEF Worker, Dequeue, Quit, Fetch, MarkRunning, DropTask, CacheRunning,
           ExecuteCommit, ExecuteFail, CacheOutcome, FinishTask, FinishLost, Marking
  <1>c. PhaseInv'
    <2>1. proc \notin {"down", "recovering"}
      BY <1>b DEF PhaseInv
    <2> QED BY <1>a, <2>1 DEF PhaseInv
  <1> USE DEF Holding, Marking, Executing, Reporting
  <1>1. CASE Dequeue
    <2>1. /\ Queued' = Queued \ {Head(queue)} /\ Distinct(queue)'
          /\ Head(queue) \in Queued /\ Held = {} /\ Held' = {Head(queue)}
      BY <1>1, DequeueMoves
    <2>2. worker'.pc = "get"
      BY <1>0, <1>1 DEF Dequeue
    <2>3. UNCHANGED <<db, enqueued>>
      BY <1>1 DEF Dequeue
    <2>4. RowInv' /\ ApartInv'
      BY <1>a, <2>1, <2>2, <2>3 DEF RowInv, ApartInv
    <2>5. QueueDiscipline'
      BY <1>a, <2>1, <2>2, <2>3 DEF QueueDiscipline
    <2> QED BY <1>c, <2>4, <2>5
  <1>2. CASE Quit
    <2>1. /\ UNCHANGED <<db, queue, enqueued>> /\ Held = {} /\ Held' = {}
          /\ worker'.pc = "off"
      BY <1>0, <1>2 DEF Quit, Held, OffWorker
    <2>2. Queued' = Queued
      BY <2>1 DEF Queued
    <2>3. RowInv' /\ ApartInv' /\ QueueDiscipline'
      BY <1>a, <2>1, <2>2 DEF RowInv, ApartInv, QueueDiscipline
    <2> QED BY <1>c, <2>3
  <1>3. CASE Fetch \/ CacheRunning \/ ExecuteCommit \/ ExecuteFail \/ CacheOutcome
    <2>1. /\ UNCHANGED <<db, queue, enqueued>>
          /\ worker.pc \in Holding /\ worker'.pc \in Holding /\ worker'.task = worker.task
          /\ worker'.pc \in Executing \cup Reporting => worker.pc \in Executing \cup Reporting
      BY <1>0, <1>3
      DEF Fetch, CacheRunning, ExecuteCommit, ExecuteFail, CacheOutcome
    <2>2. Queued' = Queued /\ Held' = Held
      BY <1>0, <2>1 DEF Queued, Held
    <2>3. RowInv' /\ ApartInv' /\ QueueDiscipline'
      BY <1>a, <2>1, <2>2 DEF RowInv, ApartInv, QueueDiscipline
    <2> QED BY <1>c, <2>3
  <1>4. CASE MarkRunning
    <2>1. /\ UNCHANGED <<queue, enqueued>>
          /\ db' = [db EXCEPT ![worker.task] = "running"]
          /\ worker.pc \in Holding /\ worker'.pc \in Holding /\ worker'.task = worker.task
      BY <1>0, <1>4 DEF MarkRunning
    <2>2. Queued' = Queued /\ Held' = Held
      BY <1>0, <2>1 DEF Queued, Held
    <2>3. /\ worker.task \in Held
          /\ db'[worker.task] = "running"
          /\ \A t \in Tasks : t # worker.task => db'[t] = db[t]
      BY <1>0, <2>1
    <2>4. request[worker.task] \notin InFlight /\ request[worker.task] # "none"
      BY <1>0, <2>1, <2>3 DEF ApartInv, RowInv, Unfinished
    <2>5. RowInv'
      BY <1>a, <1>0, <2>1, <2>2, <2>3, <2>4 DEF RowInv, Unfinished
    <2>6. ApartInv' /\ QueueDiscipline'
      BY <1>a, <2>1, <2>2 DEF ApartInv, QueueDiscipline
    <2> QED BY <1>c, <2>5, <2>6
  <1>5. CASE DropTask \/ FinishTask \/ FinishLost
    <2>1. /\ UNCHANGED queue
          /\ enqueued' = enqueued \ {worker.task}
          /\ worker.pc \in Holding /\ worker'.pc = "select"
          /\ db' = db \/ db' = [db EXCEPT ![worker.task] = worker.outcome]
          /\ db' # db => worker.pc = "finish"
      BY <1>0, <1>5 DEF DropTask, FinishTask, FinishLost, Selecting
    <2>2. Queued' = Queued /\ Held' = {} /\ Held = {worker.task}
      BY <1>0, <2>1 DEF Queued, Held
    <2>3. /\ \A t \in Tasks : t # worker.task => db'[t] = db[t]
          /\ worker.task \in Tasks
      BY <1>0, <2>1
    <2>4. db'[worker.task] # "absent"
      <3>1. db[worker.task] # "absent"
        BY <2>2, <2>3 DEF RowInv, Unfinished
      <3>2. worker.pc = "finish" => worker.outcome \in Terminal
        BY <1>0 DEF TypeInv, Shape
      <3> QED BY <1>0, <2>1, <2>3, <3>1, <3>2 DEF Terminal
    <2>5. /\ worker.task \notin Queued /\ request[worker.task] \notin InFlight
          /\ worker.task \notin toRecover /\ request[worker.task] # "none"
      <3>1. toRecover = {}
        BY <1>b DEF PhaseInv
      <3> QED BY <2>2, <2>3, <3>1 DEF QueueDiscipline, ApartInv, RowInv, Unfinished
    <2>6. RowInv'
      BY <1>a, <2>1, <2>2, <2>3, <2>4, <2>5 DEF RowInv
    <2>7. ApartInv' /\ QueueDiscipline'
      BY <1>a, <2>1, <2>2, <2>5 DEF ApartInv, QueueDiscipline, InFlight
    <2> QED BY <1>c, <2>6, <2>7
  <1> QED BY <1>1, <1>2, <1>3, <1>4, <1>5 DEF Worker

LEMMA NextIInv == IInv /\ [Next]_vars => IInv'
  <1> SUFFICES ASSUME IInv, [Next]_vars PROVE IInv'
    OBVIOUS
  <1>1. TypeInv'
    BY NextTypeInv DEF IInv
  <1>2. CASE Lifecycle
    <2>1. CASE BeginBoot \/ FinishBoot \/ \E t \in Tasks : RecoverTask(t)
      BY <1>1, <2>1, StartIInv
    <2>2. CASE RecoverOverflow \/ Crash \/ Exit
      BY <2>2, EndProcessIInv DEF RecoverOverflow, Crash, Exit
    <2>3. CASE Stop
      <3>1. Queued' = Queued /\ Held' = Held
        BY <2>3 DEF Stop, volatile, Queued, Held
      <3> QED
        BY <1>1, <2>3, <3>1
        DEF Stop, volatile, IInv, PhaseInv, RowInv, ApartInv, QueueDiscipline
    <2> QED BY <1>2, <2>1, <2>2, <2>3 DEF Lifecycle
  <1>3. ASSUME NEW t \in Tasks, Request(t) PROVE IInv'
    BY <1>1, <1>3, RequestIInv
  <1>4. ASSUME NEW r \in Readers, Poll(r) PROVE IInv'
    <2>1. UNCHANGED <<db, proc, queue, enqueued, worker, toRecover, request>>
      BY <1>4 DEF Poll, PollMiss, PollRead, PollFill
    <2>2. Queued' = Queued /\ Held' = Held
      BY <2>1 DEF Queued, Held
    <2> QED
      BY <1>1, <2>1, <2>2 DEF IInv, PhaseInv, RowInv, ApartInv, QueueDiscipline
  <1>5. CASE Worker
    BY <1>1, <1>5, WorkerIInv
  <1>6. CASE UNCHANGED vars
    <2>1. Queued' = Queued /\ Held' = Held
      BY <1>6 DEF vars, volatile, Queued, Held
    <2> QED
      BY <1>1, <1>6, <2>1
      DEF vars, volatile, IInv, PhaseInv, RowInv, ApartInv, QueueDiscipline
  <1> QED BY <1>2, <1>3, <1>4, <1>5, <1>6 DEF Next

THEOREM Invariance == Spec => []IInv
  BY InitIInv, NextIInv, PTL DEF Spec

\* No id is queued twice or queued while it runs, and the marks are exact.
THEOREM QueueIsDisciplined == Spec => []QueueDiscipline
  <1>1. IInv => QueueDiscipline
    BY DEF IInv
  <1> QED BY Invariance, <1>1, PTL

-----------------------------------------------------------------------------
(* Final statuses stay, although both row updates address the row by id only. *)

LEMMA StepKeepsTerminal ==
  ASSUME IInv, [Next]_vars, NEW t \in Tasks, db[t] \in Terminal
  PROVE  db'[t] = db[t]
  <1>1. CASE UNCHANGED db
    BY <1>1
  <1>2. ASSUME NEW u \in Tasks, CreateTask(u) PROVE db'[t] = db[t]
    <2>1. u # t
      BY <1>2 DEF CreateTask, Terminal
    <2> QED BY <1>2, <2>1 DEF CreateTask, IInv, TypeInv, TypeOK
  <1>3. CASE MarkRunning \/ FinishTask
    <2>1. /\ worker.pc \in Holding /\ Held = {worker.task} /\ worker.task \in Tasks
          /\ \E s : db' = [db EXCEPT ![worker.task] = s]
      BY <1>3
      DEF MarkRunning, FinishTask, Held, IInv, TypeInv, Shape, Holding, Marking, Reporting
    <2>2. worker.task # t
      BY <2>1 DEF IInv, RowInv, Unfinished, Terminal
    <2> QED BY <2>1, <2>2 DEF IInv, TypeInv, TypeOK
  <1> QED
    BY <1>1, <1>2, <1>3
    DEF Next, Lifecycle, Request, Poll, Worker, BeginBoot, RecoverTask, FinishBoot,
        RecoverOverflow, Crash, Exit, EndProcess, Stop, CachePending, MarkEnqueued,
        SendToQueue, PollMiss, PollRead, PollFill, Dequeue, Quit, Fetch, DropTask,
        CacheRunning, ExecuteCommit, ExecuteFail, CacheOutcome, FinishLost, vars

\* A task that succeeded or failed keeps that status for ever.
THEOREM TerminalStays == Spec => TerminalIsFinal
  <1>1. IInv /\ [Next]_vars => [\A t \in Tasks : db[t] \in Terminal => db'[t] = db[t]]_vars
    BY StepKeepsTerminal
  <1> QED BY Invariance, <1>1, PTL DEF Spec, TerminalIsFinal

-----------------------------------------------------------------------------
(* Commits and their reports. *)

\* What a report under way adds to the reported commits of t.
Reported(t) == IF \/ db[t] = "succeeded"
                  \/ InReport(t) /\ worker.outcome = "succeeded" THEN 1 ELSE 0

LEMMA StepAccounts ==
  ASSUME IInv, EffectAccounting, [Next]_vars
  PROVE  EffectAccounting'
  <1> SUFFICES ASSUME NEW t \in Tasks
               PROVE  applied'[t] = lost'[t] + Reported(t)'
    BY DEF EffectAccounting, Reported
  <1>0. applied[t] = lost[t] + Reported(t)
    BY DEF EffectAccounting, Reported
  <1>a. /\ applied \in [Tasks -> Nat] /\ lost \in [Tasks -> Nat]
        /\ db \in [Tasks -> Statuses \cup {"absent"}]
        /\ worker \in [pc : Holding \cup {"off", "select"}, task : Tasks \cup {NoTask},
                       outcome : Terminal \cup {"none"}]
        /\ worker.pc \in Holding => worker.task \in Tasks
        /\ worker.pc \in Reporting <=> worker.outcome # "none"
        /\ worker.pc \in Executing \cup Reporting => db[worker.task] = "running"
        /\ worker.pc \in Holding => db[worker.task] # "succeeded"
    <2>1. worker.pc \in Holding => db[worker.task] # "succeeded"
      BY DEF IInv, TypeInv, Shape, RowInv, Held, Unfinished
    <2> QED BY <2>1 DEF IInv, TypeInv, TypeOK, Shape, RowInv
  <1> USE DEF Holding, Marking, Executing, Reporting
  <1>1. CASE UNCHANGED <<applied, lost, db, worker>>
    BY <1>0, <1>1 DEF Reported, InReport
  <1>2. CASE EndProcess
    <2>1. /\ Reported(t)' = IF db[t] = "succeeded" THEN 1 ELSE 0
          /\ applied' = applied
      BY <1>2 DEF EndProcess, Reported, InReport, OffWorker
    <2>2. CASE worker.pc \in Reporting /\ worker.task = t /\ worker.outcome = "succeeded"
      <3>1. lost'[t] = lost[t] + 1 /\ db[t] # "succeeded"
        BY <1>2, <1>a, <2>2 DEF EndProcess
      <3>2. Reported(t) = 1
        BY <2>2 DEF Reported, InReport
      <3> QED BY <1>0, <1>a, <2>1, <3>1, <3>2
    <2>3. CASE ~(worker.pc \in Reporting /\ worker.task = t /\ worker.outcome = "succeeded")
      <3>1. lost'[t] = lost[t]
        BY <1>2, <1>a, <2>3 DEF EndProcess
      <3>2. Reported(t) = IF db[t] = "succeeded" THEN 1 ELSE 0
        BY <2>3 DEF Reported, InReport
      <3> QED BY <1>0, <1>a, <2>1, <3>1, <3>2
    <2> QED BY <2>2, <2>3
  <1>3. ASSUME NEW u \in Tasks, CreateTask(u) PROVE applied'[t] = lost'[t] + Reported(t)'
    <2>1. /\ UNCHANGED <<applied, lost, worker>>
          /\ db'[t] = "succeeded" <=> db[t] = "succeeded"
      BY <1>3, <1>a DEF CreateTask, volatile, history
    <2> QED BY <1>0, <2>1 DEF Reported, InReport
  <1>4. CASE MarkRunning
    <2>1. /\ UNCHANGED <<applied, lost>>
          /\ db'[t] = "succeeded" <=> db[t] = "succeeded"
          /\ worker.pc \notin Reporting /\ worker'.pc \notin Reporting
      BY <1>4, <1>a DEF MarkRunning, history
    <2> QED BY <1>0, <2>1 DEF Reported, InReport
  <1>5. CASE ExecuteCommit
    <2>1. UNCHANGED <<lost, db>> /\ worker.pc \notin Reporting
          /\ worker.task \in Tasks /\ db[worker.task] # "succeeded"
      BY <1>5, <1>a DEF ExecuteCommit
    <2>2. worker' = [worker EXCEPT !.pc = "cacheOutcome", !.outcome = "succeeded"]
      BY <1>5 DEF ExecuteCommit
    <2>3. worker'.pc \in Reporting /\ worker'.task = worker.task /\ worker'.outcome = "succeeded"
      BY <1>a, <2>2
    <2>4. applied' = [applied EXCEPT ![worker.task] = @ + 1]
      BY <1>5 DEF ExecuteCommit
    <2>5. CASE t = worker.task
      <3>1. Reported(t) = 0 /\ Reported(t)' = 1
        BY <2>1, <2>3, <2>5 DEF Reported, InReport
      <3>2. applied'[t] = applied[t] + 1
        BY <1>a, <2>4, <2>5
      <3> QED BY <1>0, <1>a, <2>1, <3>1, <3>2
    <2>6. CASE t # worker.task
      <3>1. Reported(t)' = Reported(t)
        BY <2>1, <2>3, <2>6 DEF Reported, InReport
      <3>2. applied'[t] = applied[t]
        BY <1>a, <2>4, <2>6
      <3> QED BY <1>0, <2>1, <3>1, <3>2
    <2> QED BY <2>5, <2>6
  <1>6. CASE FinishTask
    <2>1. /\ UNCHANGED <<applied, lost>> /\ worker'.pc = "select"
          /\ db' = [db EXCEPT ![worker.task] = worker.outcome]
          /\ worker.pc \in Reporting /\ worker.task \in Tasks
      BY <1>6, <1>a DEF FinishTask, history, Selecting
    <2>2. Reported(t)' = Reported(t)
      BY <1>a, <2>1 DEF Reported, InReport
    <2> QED BY <1>0, <2>1, <2>2
  <1>7. CASE FinishLost
    <2>1. /\ UNCHANGED <<applied, db>> /\ worker'.pc = "select"
          /\ worker.pc \in Reporting /\ worker.task \in Tasks
      BY <1>7, <1>a DEF FinishLost, Selecting
    <2>2. Reported(t)' = IF db[t] = "succeeded" THEN 1 ELSE 0
      BY <2>1 DEF Reported, InReport
    <2>3. CASE t = worker.task /\ worker.outcome = "succeeded"
      <3>1. lost'[t] = lost[t] + 1 /\ Reported(t) = 1 /\ Reported(t)' = 0
        BY <1>7, <1>a, <2>1, <2>2, <2>3 DEF FinishLost, Reported, InReport
      <3> QED BY <1>0, <1>a, <2>1, <3>1
    <2>4. CASE ~(t = worker.task /\ worker.outcome = "succeeded")
      <3>1. lost'[t] = lost[t] /\ Reported(t)' = Reported(t)
        BY <1>7, <1>a, <2>1, <2>2, <2>4 DEF FinishLost, Reported, InReport
      <3> QED BY <1>0, <2>1, <3>1
    <2> QED BY <2>3, <2>4
  <1>8. CASE Dequeue \/ Quit \/ Fetch \/ DropTask \/ CacheRunning \/ ExecuteFail \/ CacheOutcome
             \/ FinishBoot
    <2>1. UNCHANGED <<applied, lost, db>>
      BY <1>8
      DEF Dequeue, Quit, Fetch, DropTask, CacheRunning, ExecuteFail, CacheOutcome,
          FinishBoot, history
    <2>2. (InReport(t) /\ worker.outcome = "succeeded")'
          <=> InReport(t) /\ worker.outcome = "succeeded"
      <3>1. CASE FinishBoot
        <4>1. worker.outcome = "none"
          BY <1>a, <3>1 DEF FinishBoot, IInv, PhaseInv
        <4> QED BY <3>1, <4>1 DEF FinishBoot, Selecting, InReport
      <3>2. CASE CacheOutcome
        BY <1>a, <3>2 DEF CacheOutcome, InReport
      <3>3. CASE Dequeue \/ Quit \/ Fetch \/ DropTask \/ CacheRunning \/ ExecuteFail
        <4>1. worker.pc \notin Reporting
          BY <3>3 DEF Dequeue, Quit, Fetch, DropTask, CacheRunning, ExecuteFail
        <4>2. worker'.outcome # "succeeded"
          <5>1. CASE ExecuteFail
            BY <1>a, <5>1 DEF ExecuteFail
          <5>2. CASE DropTask \/ Quit
            BY <5>2 DEF DropTask, Quit, Selecting, OffWorker
          <5>3. CASE Dequeue \/ Fetch \/ CacheRunning
            <6>1. worker.outcome = "none"
              BY <1>a, <4>1
            <6> QED BY <1>a, <5>3, <6>1 DEF Dequeue, Fetch, CacheRunning
          <5> QED BY <3>3, <5>1, <5>2, <5>3
        <4> QED BY <4>1, <4>2 DEF InReport
      <3> QED BY <1>8, <3>1, <3>2, <3>3
    <2> QED BY <1>0, <2>1, <2>2 DEF Reported
  <1> QED
    BY <1>1, <1>2, <1>3, <1>4, <1>5, <1>6, <1>7, <1>8
    DEF Next, Lifecycle, Request, Poll, Worker, BeginBoot, RecoverTask, RecoverOverflow,
        Crash, Exit, Stop, CachePending, MarkEnqueued, SendToQueue, PollMiss, PollRead,
        PollFill, vars, volatile, history

\* Every commit of a batch is reported, being reported, or counted as lost.
THEOREM CommitsAreAccounted == Spec => []EffectAccounting
  <1>1. Init => EffectAccounting
    BY DEF Init, EffectAccounting, InReport, OffWorker, Reporting
  <1>2. IInv /\ EffectAccounting /\ [Next]_vars => EffectAccounting'
    BY StepAccounts
  <1> QED BY Invariance, <1>1, <1>2, PTL DEF Spec

-----------------------------------------------------------------------------
(* No unfinished task falls out of memory while the process is up. *)

\* NoLostTask, with its counterpart while rows are being recovered.
MemoryInv ==
  /\ NoLostTask
  /\ proc = "recovering" =>
       \A t \in Tasks : db[t] \in Unfinished => t \in toRecover \cup Queued

LEMMA StepKeepsMemory ==
  ASSUME IInv, IInv', MemoryInv, [Next]_vars
  PROVE  MemoryInv'
  <1> USE DEF MemoryInv, NoLostTask
  <1>1. CASE BeginBoot
    BY <1>1 DEF BeginBoot
  <1>2. ASSUME NEW t \in Tasks, RecoverTask(t) PROVE MemoryInv'
    BY <1>2, RecoverTaskQueues DEF RecoverTask
  <1>3. CASE FinishBoot
    <2>1. Queued' = Queued
      BY <1>3 DEF FinishBoot, Queued
    <2> QED BY <1>3, <2>1 DEF FinishBoot
  <1>4. CASE EndProcess
    BY <1>4 DEF EndProcess
  <1>5. CASE Stop
    BY <1>5 DEF Stop
  <1>6. ASSUME NEW t \in Tasks, CreateTask(t) \/ CachePending(t) \/ MarkEnqueued(t)
        PROVE  MemoryInv'
    <2>1. /\ UNCHANGED <<proc, queue, worker, toRecover, faulted>>
          /\ \A u \in Tasks : u # t => db'[u] = db[u] /\ request'[u] = request[u]
      BY <1>6
      DEF CreateTask, CachePending, MarkEnqueued, volatile, history, IInv, TypeInv, TypeOK
    <2>2. Queued' = Queued /\ Held' = Held
      BY <2>1 DEF Queued, Held
    <2>3. request'[t] \in InFlight
      <3>1. CASE MarkEnqueued(t)
        <4>1. t \notin enqueued
          BY <3>1 DEF MarkEnqueued, IInv, ApartInv, QueueDiscipline, InFlight
        <4> QED BY <3>1, <4>1 DEF MarkEnqueued, IInv, TypeInv, TypeOK, InFlight
      <3>2. CASE CreateTask(t) \/ CachePending(t)
        BY <3>2 DEF CreateTask, CachePending, IInv, TypeInv, TypeOK, InFlight
      <3> QED BY <1>6, <3>1, <3>2
    <2>4. proc # "recovering"
      BY <1>6 DEF CreateTask, CachePending, MarkEnqueued, Serving, IInv, PhaseInv, InFlight
    <2> QED BY <2>1, <2>2, <2>3, <2>4 DEF InFlight
  <1>7. ASSUME NEW t \in Tasks, SendToQueue(t) PROVE MemoryInv'
    <2>1. /\ UNCHANGED <<db, proc, worker, toRecover, faulted>>
          /\ \A u \in Tasks : u # t => request'[u] = request[u]
          /\ ~(Len(queue) < QueueSize) => request'[t] = "rejected"
      BY <1>7 DEF SendToQueue, history, IInv, TypeInv, TypeOK
    <2>2. Held' = Held
      BY <2>1 DEF Held
    <2>3. proc # "recovering"
      BY <1>7 DEF SendToQueue, IInv, PhaseInv, InFlight
    <2> QED BY <1>7, <2>1, <2>2, <2>3, SendToQueueQueues
  <1>8. ASSUME NEW r \in Readers, Poll(r) PROVE MemoryInv'
    <2>1. UNCHANGED <<db, proc, queue, worker, toRecover, request, faulted>>
      BY <1>8 DEF Poll, PollMiss, PollRead, PollFill, history
    <2>2. Queued' = Queued /\ Held' = Held
      BY <2>1 DEF Queued, Held
    <2> QED BY <2>1, <2>2
  <1>9. CASE Worker
    <2>1. UNCHANGED <<proc, request>> /\ proc # "recovering"
      BY <1>9
      DEF Worker, Dequeue, Quit, Fetch, MarkRunning, DropTask, CacheRunning, ExecuteCommit,
          ExecuteFail, CacheOutcome, FinishTask, FinishLost, history, IInv, PhaseInv, Marking
    <2>2. CASE Dequeue
      BY <2>1, <2>2, DequeueMoves DEF Dequeue, history
    <2>3. CASE Quit
      BY <2>1, <2>3 DEF Quit, Cancelled
    <2>4. CASE Fetch \/ MarkRunning \/ CacheRunning \/ ExecuteCommit \/ ExecuteFail \/ CacheOutcome
      <3>1. /\ UNCHANGED <<queue, faulted>> /\ Held' = Held
            /\ db' = db \/ MarkRunning
        <4>1. /\ UNCHANGED <<queue, faulted>>
              /\ db' = db \/ MarkRunning
          BY <2>4
          DEF Fetch, MarkRunning, CacheRunning, ExecuteCommit, ExecuteFail, CacheOutcome, history
        <4>2. worker \in [pc : Holding \cup {"off", "select"}, task : Tasks \cup {NoTask},
                          outcome : Terminal \cup {"none"}]
          BY DEF IInv, TypeInv, TypeOK
        <4>3. worker.pc \in Holding /\ worker'.pc \in Holding /\ worker'.task = worker.task
          BY <2>4, <4>2
          DEF Fetch, MarkRunning, CacheRunning, ExecuteCommit, ExecuteFail, CacheOutcome,
              Holding, Marking, Executing, Reporting
        <4> QED BY <4>1, <4>3 DEF Held
      <3>2. \A t \in Tasks : t \notin Held => db'[t] = db[t]
        <4>1. CASE MarkRunning
          BY <4>1
          DEF MarkRunning, Held, Holding, Marking, IInv, TypeInv, TypeOK
        <4> QED BY <3>1, <4>1
      <3>3. Queued' = Queued
        BY <3>1 DEF Queued
      <3> QED BY <2>1, <3>1, <3>2, <3>3
    <2>5. CASE DropTask \/ FinishTask \/ FinishLost
      <3>1. /\ UNCHANGED queue /\ faulted \subseteq faulted'
            /\ Held = {worker.task} /\ worker.task \in Tasks
            /\ \A t \in Tasks : t # worker.task => db'[t] = db[t]
        BY <2>5
        DEF DropTask, FinishTask, FinishLost, history, Held, Holding, Marking, Reporting,
            IInv, TypeInv, TypeOK, Shape
      <3>2. CASE DropTask \/ FinishLost
        <4>1. proc = "up" => worker.task \in faulted'
          BY <3>2 DEF DropTask, FinishLost, Cancelled
        <4>2. Queued' = Queued
          BY <3>1 DEF Queued
        <4> QED BY <2>1, <3>1, <4>1, <4>2
      <3>3. CASE FinishTask
        <4>1. db'[worker.task] \in Terminal
          BY <3>1, <3>3
          DEF FinishTask, IInv, TypeInv, TypeOK, Shape, Reporting
        <4>2. Queued' = Queued
          BY <3>1 DEF Queued
        <4> QED BY <2>1, <3>1, <4>1, <4>2 DEF Terminal, Unfinished
      <3> QED BY <2>5, <3>2, <3>3
    <2> QED BY <1>9, <2>2, <2>3, <2>4, <2>5 DEF Worker
  <1>10. CASE UNCHANGED vars
    BY <1>10 DEF vars, volatile, history, Queued, Held
  <1> QED
    BY <1>1, <1>2, <1>3, <1>4, <1>5, <1>6, <1>7, <1>8, <1>9, <1>10
    DEF Next, Lifecycle, Request, RecoverOverflow, Crash, Exit

LEMMA MemoryInvariance == Spec => []MemoryInv
  <1>1. Init => MemoryInv
    BY DEF Init, MemoryInv, NoLostTask
  <1>2. IInv /\ IInv' /\ MemoryInv /\ [Next]_vars => MemoryInv'
    BY StepKeepsMemory
  <1> QED BY Invariance, <1>1, <1>2, PTL DEF Spec

\* An accepted unfinished task stays in memory while the process is up.
THEOREM AcceptedTaskIsHeld == Spec => []NoLostTask
  <1>1. MemoryInv => NoLostTask
    BY DEF MemoryInv
  <1> QED BY MemoryInvariance, <1>1, PTL

\* A start that completes has queued every unfinished row.
THEOREM StartQueuesAll == Spec => StartRecoversAll
  <1>1. IInv /\ MemoryInv /\ [Next]_vars
          => [proc = "recovering" /\ proc' = "up"
                => {t \in Tasks : db[t] \in Unfinished} \subseteq Queued]_vars
    <2> SUFFICES ASSUME IInv, MemoryInv, Next, proc = "recovering", proc' = "up"
                 PROVE  {t \in Tasks : db[t] \in Unfinished} \subseteq Queued
      OBVIOUS
    <2>1. toRecover = {}
      BY DEF Next, Lifecycle, Request, Poll, Worker, BeginBoot, RecoverTask, FinishBoot,
             RecoverOverflow, Crash, Exit, EndProcess, Stop, CreateTask, CachePending,
             MarkEnqueued, SendToQueue, PollMiss, PollRead, PollFill, Dequeue, Quit, Fetch,
             MarkRunning, DropTask, CacheRunning, ExecuteCommit, ExecuteFail, CacheOutcome,
             FinishTask, FinishLost
    <2> QED BY <2>1 DEF MemoryInv
  <1> QED BY Invariance, MemoryInvariance, <1>1, PTL DEF Spec, StartRecoversAll

-----------------------------------------------------------------------------
(* BatchTask implements TaskLedger. *)

\* What is known of the worker and the rows at the steps of an attempt.
LEMMA AttemptFacts ==
  ASSUME IInv
  PROVE  /\ worker \in [pc : Holding \cup {"off", "select"}, task : Tasks \cup {NoTask},
                        outcome : Terminal \cup {"none"}]
         /\ db \in [Tasks -> Statuses \cup {"absent"}]
         /\ worker.pc \in Holding => worker.task \in Tasks /\ db[worker.task] \in Unfinished
         /\ worker.pc \in Reporting <=> worker.outcome # "none"
         /\ worker.pc \in Executing \cup Reporting => db[worker.task] = "running"
  <1>1. worker.pc \in Holding => worker.task \in Tasks /\ db[worker.task] \in Unfinished
    BY DEF IInv, TypeInv, Shape, RowInv, Held
  <1> QED BY <1>1 DEF IInv, TypeInv, TypeOK, Shape, RowInv

LEMMA InitLedger == Init => Ledger!LedgerInit
  BY DEF Init, Ledger!LedgerInit, Ledger!NoAttempt, Attempt, OffWorker, NoTask,
         Executing, Reporting

\* Steps that leave the rows, the commits and the attempt alone.
LEMMA StutterLedger ==
  ASSUME UNCHANGED <<db, applied>>, Attempt' = Attempt
  PROVE  [Ledger!LedgerNext]_(Ledger!ledgerVars)
  BY DEF Ledger!ledgerVars

LEMMA StepLedger ==
  ASSUME IInv, [Next]_vars
  PROVE  [Ledger!LedgerNext]_(Ledger!ledgerVars)
  <1> USE AttemptFacts DEF Holding, Marking, Executing, Reporting
  <1>1. CASE UNCHANGED <<db, applied, worker>>
    BY <1>1, StutterLedger DEF Attempt
  <1>2. ASSUME NEW t \in Tasks, CreateTask(t) PROVE Ledger!LedgerNext
    <2>1. Attempt' = Attempt
      BY <1>2 DEF CreateTask, volatile, Attempt
    <2>2. Ledger!Submit(t)
      BY <1>2, <2>1 DEF CreateTask, history, Ledger!Submit
    <2> QED BY <2>2 DEF Ledger!LedgerNext
  <1>3. CASE EndProcess
    <2>1. UNCHANGED <<db, applied>> /\ Attempt' = Ledger!NoAttempt
      BY <1>3 DEF EndProcess, Attempt, OffWorker, Ledger!NoAttempt, NoTask
    <2>2. CASE Attempt = Ledger!NoAttempt
      BY <2>1, <2>2, StutterLedger
    <2>3. CASE Attempt # Ledger!NoAttempt
      BY <2>1, <2>3 DEF Ledger!Abandon, Ledger!LedgerNext
    <2> QED BY <2>2, <2>3
  <1>4. CASE MarkRunning
    <2>1. worker.task \in Tasks /\ db[worker.task] \in Unfinished
      BY <1>4 DEF MarkRunning
    <2>2. Attempt = Ledger!NoAttempt
      BY <1>4 DEF MarkRunning, Attempt, Ledger!NoAttempt, NoTask
    <2>3. worker'.pc = "cacheRunning" /\ worker'.task = worker.task /\ worker'.outcome = "none"
      BY <1>4 DEF MarkRunning
    <2>4. Attempt' = [task |-> worker.task, committed |-> FALSE]
      BY <2>3 DEF Attempt
    <2>5. Ledger!Begin(worker.task)
      BY <1>4, <2>1, <2>2, <2>4
      DEF MarkRunning, history, Ledger!Begin, Ledger!Unfinished, Unfinished
    <2> QED BY <2>1, <2>5 DEF Ledger!LedgerNext
  <1>5. CASE ExecuteCommit
    <2>1. worker.task \in Tasks /\ worker.outcome = "none"
      BY <1>5 DEF ExecuteCommit
    <2>2. Attempt = [task |-> worker.task, committed |-> FALSE]
      BY <1>5, <2>1 DEF ExecuteCommit, Attempt
    <2>3. /\ worker'.pc = "cacheOutcome" /\ worker'.task = worker.task
          /\ worker'.outcome = "succeeded"
      BY <1>5 DEF ExecuteCommit
    <2>4. Attempt' = [task |-> worker.task, committed |-> TRUE]
      BY <2>3 DEF Attempt
    <2>5. Ledger!Commit(worker.task)
      BY <1>5, <2>2, <2>4 DEF ExecuteCommit, Ledger!Commit
    <2> QED BY <2>1, <2>5 DEF Ledger!LedgerNext
  <1>6. CASE FinishTask
    <2>1. worker.task \in Tasks /\ worker.outcome \in Terminal
      BY <1>6 DEF FinishTask
    <2>2. Attempt = [task |-> worker.task, committed |-> worker.outcome = "succeeded"]
      BY <1>6 DEF FinishTask, Attempt
    <2>3. Attempt' = Ledger!NoAttempt
      BY <1>6 DEF FinishTask, Selecting, Attempt, Ledger!NoAttempt, NoTask
    <2>4. worker.outcome = IF worker.outcome = "succeeded" THEN "succeeded" ELSE "failed"
      BY <2>1 DEF Terminal
    <2>5. db' = [db EXCEPT ![worker.task] =
                   IF worker.outcome = "succeeded" THEN "succeeded" ELSE "failed"]
      BY <1>6, <2>4 DEF FinishTask
    <2>6. Ledger!Conclude(worker.task)
      <3>1. (worker.outcome = "succeeded") \in BOOLEAN /\ UNCHANGED applied
        BY <1>6 DEF FinishTask, history
      <3> QED BY <2>2, <2>3, <2>5, <3>1 DEF Ledger!Conclude
    <2> QED BY <2>1, <2>6 DEF Ledger!LedgerNext
  <1>7. CASE FinishLost
    <2>1. worker.task \in Tasks /\ UNCHANGED <<db, applied>>
      BY <1>7 DEF FinishLost
    <2>2. Attempt' = Ledger!NoAttempt
      BY <1>7 DEF FinishLost, Selecting, Attempt, Ledger!NoAttempt, NoTask
    <2>3. Attempt # Ledger!NoAttempt
      BY <1>7, <2>1, TasksArePositive DEF FinishLost, Attempt, Ledger!NoAttempt, NoTask
    <2> QED BY <2>1, <2>2, <2>3 DEF Ledger!Abandon, Ledger!LedgerNext
  <1>8. CASE FinishBoot \/ Dequeue \/ Quit \/ Fetch \/ DropTask
    <2>1. UNCHANGED <<db, applied>>
      BY <1>8 DEF FinishBoot, Dequeue, Quit, Fetch, DropTask, history
    <2>2. worker.pc \notin Executing \cup Reporting /\ worker'.pc \notin Executing \cup Reporting
      <3>1. CASE FinishBoot
        BY <3>1 DEF FinishBoot, Selecting, IInv, PhaseInv
      <3>2. CASE Quit \/ DropTask
        BY <3>2 DEF Quit, DropTask, Selecting, OffWorker
      <3>3. CASE Dequeue \/ Fetch
        BY <3>3 DEF Dequeue, Fetch
      <3> QED BY <1>8, <3>1, <3>2, <3>3
    <2> QED BY <2>1, <2>2, StutterLedger DEF Attempt
  <1>9. CASE CacheRunning \/ ExecuteFail \/ CacheOutcome
    <2>1. UNCHANGED <<db, applied>>
      BY <1>9 DEF CacheRunning, ExecuteFail, CacheOutcome, history
    <2>2. /\ worker.pc \in Executing \cup Reporting /\ worker'.pc \in Executing \cup Reporting
          /\ worker'.task = worker.task
          /\ worker'.outcome = "succeeded" <=> worker.outcome = "succeeded"
      BY <1>9 DEF CacheRunning, ExecuteFail, CacheOutcome
    <2>3. (worker'.outcome = "succeeded") = (worker.outcome = "succeeded")
      BY <2>2
    <2> QED BY <2>1, <2>2, <2>3, StutterLedger DEF Attempt
  <1> QED
    BY <1>1, <1>2, <1>3, <1>4, <1>5, <1>6, <1>7, <1>8, <1>9
    DEF Next, Lifecycle, Request, Poll, Worker, BeginBoot, RecoverTask, RecoverOverflow,
        Crash, Exit, Stop, CachePending, MarkEnqueued, SendToQueue, PollMiss, PollRead,
        PollFill, vars, volatile, history

\* The service implements the ledger: whatever requests, polls, the worker and
\* restarts do, the rows and the commits behave as TaskLedger says.
THEOREM Refinement == Spec => ImplementsLedger
  <1>1. IInv /\ [Next]_vars => [Ledger!LedgerNext]_(Ledger!ledgerVars)
    BY StepLedger
  <1> QED
    BY InitLedger, Invariance, <1>1, PTL DEF Spec, ImplementsLedger, Ledger!LedgerSpec

-----------------------------------------------------------------------------
(* Final statuses in the cache. *)

\* CacheHonest, and what makes it last: a poll that carries a final status
\* carries the row's, and between the worker's two writes the cache holds
\* either no final status, the outcome, or one left by a refused update.
HonestInv ==
  /\ CacheHonest
  /\ \A r \in Readers :
       reader[r].pc = "fill" /\ reader[r].got \in Terminal
         => db[reader[r].task] = reader[r].got
  /\ worker.pc = "finish" /\ cache[worker.task] \in Terminal
       => cache[worker.task] = worker.outcome \/ worker.task \in faulted

LEMMA StepStaysHonest ==
  ASSUME IInv, HonestInv, [Next]_vars
  PROVE  HonestInv'
  <1> USE AttemptFacts DEF HonestInv, CacheHonest
  <1>0. /\ cache \in [Tasks -> Statuses \cup {"none"}]
        /\ reader \in [Readers -> [pc : {"idle", "read", "fill"}, task : Tasks \cup {NoTask},
                                   got : Statuses \cup {"none"}]]
        /\ \A r \in Readers : reader[r].pc # "idle" => reader[r].task \in Tasks
    BY DEF IInv, TypeInv, TypeOK, Shape
  <1>1. CASE UNCHANGED <<db, cache, reader, worker, faulted>>
    BY <1>1
  <1>2. CASE EndProcess
    BY <1>2 DEF EndProcess, IdleReader, OffWorker, Terminal
  <1>3. ASSUME NEW t \in Tasks, RecoverTask(t) \/ CachePending(t) PROVE HonestInv'
    <2>1. /\ UNCHANGED <<db, reader, worker, faulted>>
          /\ cache' = [cache EXCEPT ![t] = "pending"]
      BY <1>3 DEF RecoverTask, CachePending, history
    <2>2. \A u \in Tasks : cache'[u] \in Terminal => cache'[u] = cache[u]
      BY <1>0, <2>1 DEF Terminal
    <2>3. worker.pc = "finish" => worker.task \in Tasks
      BY DEF Holding, Reporting
    <2> QED BY <2>1, <2>2, <2>3
  <1>4. ASSUME NEW t \in Tasks, CreateTask(t) PROVE HonestInv'
    <2>1. /\ UNCHANGED <<cache, reader, worker, faulted>>
          /\ \A u \in Tasks : db[u] \in Terminal => db'[u] = db[u]
      BY <1>4 DEF CreateTask, volatile, history, Terminal
    <2> QED BY <1>0, <2>1
  <1>5. ASSUME NEW r \in Readers, Poll(r) PROVE HonestInv'
    <2>1. UNCHANGED <<db, worker, faulted>>
      BY <1>5 DEF Poll, PollMiss, PollRead, PollFill, history
    <2>2. ASSUME NEW t \in Tasks, PollMiss(r, t) PROVE HonestInv'
      BY <1>0, <2>1, <2>2 DEF PollMiss
    <2>3. CASE PollRead(r)
      BY <1>0, <2>1, <2>3 DEF PollRead, IdleReader
    <2>4. CASE PollFill(r)
      <3>1. /\ cache' = [cache EXCEPT ![reader[r].task] = reader[r].got]
            /\ reader' = [reader EXCEPT ![r] = IdleReader]
            /\ reader[r].task \in Tasks
        BY <1>0, <2>4 DEF PollFill
      <3>2. CacheHonest'
        BY <1>0, <2>1, <2>4, <3>1 DEF PollFill
      <3>3. worker.pc = "finish" =>
              db[worker.task] = "running" /\ worker.task \in Tasks
        BY DEF Holding, Reporting
      <3>4. ASSUME worker.pc = "finish", cache'[worker.task] \in Terminal
            PROVE  cache'[worker.task] = worker.outcome \/ worker.task \in faulted
        <4>1. CASE worker.task = reader[r].task
          BY <1>0, <2>4, <3>1, <3>3, <3>4, <4>1 DEF PollFill, Terminal
        <4>2. CASE worker.task # reader[r].task
          BY <1>0, <3>1, <3>3, <3>4, <4>2
        <4> QED BY <4>1, <4>2
      <3>5. \A q \in Readers : reader'[q].pc = "fill" => reader'[q] = reader[q]
        BY <1>0, <3>1 DEF IdleReader
      <3> QED BY <2>1, <3>2, <3>4, <3>5
    <2> QED BY <1>5, <2>2, <2>3, <2>4 DEF Poll
  <1>6. CASE MarkRunning
    <2>1. /\ UNCHANGED <<cache, reader, faulted>>
          /\ db' = [db EXCEPT ![worker.task] = "running"]
          /\ worker.pc = "mark" /\ worker'.pc = "cacheRunning"
          /\ worker.task \in Tasks /\ db[worker.task] \in Unfinished
      BY <1>6 DEF MarkRunning, history, Holding, Marking
    <2>2. \A u \in Tasks : db[u] \in Terminal => db'[u] = db[u]
      BY <2>1 DEF Terminal, Unfinished
    <2> QED BY <1>0, <2>1, <2>2
  <1>7. CASE CacheRunning
    <2>1. /\ UNCHANGED <<db, reader, faulted>>
          /\ cache' = [cache EXCEPT ![worker.task] = "running"]
          /\ worker.pc = "cacheRunning" /\ worker'.pc = "execute"
      BY <1>7 DEF CacheRunning, history
    <2>2. \A u \in Tasks : cache'[u] \in Terminal => cache'[u] = cache[u]
      BY <1>0, <2>1 DEF Terminal
    <2> QED BY <2>1, <2>2
  <1>8. CASE CacheOutcome
    <2>1. /\ UNCHANGED <<db, reader, faulted>>
          /\ cache' = [cache EXCEPT ![worker.task] = worker.outcome]
          /\ worker.pc = "cacheOutcome" /\ worker'.pc = "finish"
          /\ worker'.task = worker.task /\ worker'.outcome = worker.outcome
          /\ worker.task \in Tasks
      BY <1>8 DEF CacheOutcome, history, Holding, Reporting
    <2>2. /\ \A u \in Tasks : u # worker.task => cache'[u] = cache[u]
          /\ cache'[worker.task] = worker.outcome
      BY <1>0, <2>1
    <2> QED BY <2>1, <2>2
  <1>9. CASE FinishTask
    <2>1. /\ UNCHANGED <<cache, reader, faulted>>
          /\ db' = [db EXCEPT ![worker.task] = worker.outcome]
          /\ worker.pc = "finish" /\ worker'.pc = "select"
          /\ worker.task \in Tasks /\ db[worker.task] = "running"
      BY <1>9 DEF FinishTask, history, Selecting, Holding, Reporting
    <2>2. \A u \in Tasks : u # worker.task => db'[u] = db[u]
      BY <2>1
    <2>3. db'[worker.task] = worker.outcome
      BY <2>1
    <2>4. \A u \in Tasks : db[u] \in Terminal => db'[u] = db[u]
      BY <2>1, <2>2 DEF Terminal
    <2> QED BY <1>0, <2>1, <2>2, <2>3, <2>4
  <1>10. CASE FinishLost
    <2>1. /\ UNCHANGED <<db, cache, reader>> /\ faulted' = faulted \cup {worker.task}
          /\ worker.pc = "finish" /\ worker'.pc = "select"
      BY <1>10 DEF FinishLost, Selecting
    <2> QED BY <2>1
  <1>11. CASE FinishBoot \/ Dequeue \/ Quit \/ Fetch \/ DropTask \/ ExecuteCommit \/ ExecuteFail
    <2>1. /\ UNCHANGED <<db, cache, reader>> /\ faulted \subseteq faulted'
          /\ worker.pc # "finish" /\ worker'.pc # "finish"
      <3>1. UNCHANGED <<db, cache, reader>> /\ faulted \subseteq faulted'
        BY <1>11
        DEF FinishBoot, Dequeue, Quit, Fetch, DropTask, ExecuteCommit, ExecuteFail, history
      <3>2. CASE FinishBoot
        BY <3>1, <3>2 DEF FinishBoot, Selecting, IInv, PhaseInv
      <3>3. CASE Quit \/ DropTask
        BY <3>1, <3>3 DEF Quit, DropTask, Selecting, OffWorker, Marking
      <3>4. CASE Dequeue \/ Fetch
        <4>1. worker.pc \in {"select", "get"} /\ worker'.pc \in {"get", "mark"}
          BY <3>4 DEF Dequeue, Fetch
        <4> QED BY <3>1, <4>1
      <3>5. CASE ExecuteCommit
        BY <3>1, <3>5 DEF ExecuteCommit
      <3>6. CASE ExecuteFail
        BY <3>1, <3>6 DEF ExecuteFail
      <3> QED BY <1>11, <3>2, <3>3, <3>4, <3>5, <3>6
    <2> QED BY <2>1
  <1> QED
    BY <1>1, <1>2, <1>3, <1>4, <1>5, <1>6, <1>7, <1>8, <1>9, <1>10, <1>11
    DEF Next, Lifecycle, Request, Worker, BeginBoot, RecoverOverflow, Crash, Exit, Stop,
        MarkEnqueued, SendToQueue, vars, volatile, history

\* A final status served from the cache is the row's, except between the
\* worker's two writes and after a final update the database refused.
THEOREM CacheIsHonest == Spec => []CacheHonest
  <1>1. Init => HonestInv
    BY DEF Init, HonestInv, CacheHonest, IdleReader, OffWorker, Terminal
  <1>2. IInv /\ HonestInv /\ [Next]_vars => HonestInv'
    BY StepStaysHonest
  <1>3. HonestInv => CacheHonest
    BY DEF HonestInv
  <1> QED BY Invariance, <1>1, <1>2, <1>3, PTL DEF Spec

-----------------------------------------------------------------------------
(* What polls are told of finished tasks, when ids are polled only after    *)
(* they were handed out.                                                    *)

\* FinishedIsReported, and what makes it last: while the process serves, an
\* unfinished row is cached unless its request is just about to do so, hence
\* whoever misses the cache reads a final status.
ReportInv ==
  /\ FinishedIsReported
  /\ Serving => \A t \in Tasks : db[t] \in Unfinished /\ cache[t] = "none" => request[t] = "created"
  /\ proc = "recovering" =>
       \A t \in Tasks : db[t] \in Unfinished => t \in toRecover \/ cache[t] # "none"
  /\ \A r \in Readers : reader[r].pc # "idle" => db[reader[r].task] \in Terminal
  /\ \A r \in Readers : reader[r].pc = "fill" => reader[r].got = db[reader[r].task]
  /\ worker.pc = "finish" => cache[worker.task] = worker.outcome

LEMMA StepStaysReported ==
  ASSUME ~PollAnyId, IInv, ReportInv, [Next]_vars
  PROVE  ReportInv'
  <1> USE AttemptFacts DEF ReportInv, FinishedIsReported, Serving
  <1>0. /\ cache \in [Tasks -> Statuses \cup {"none"}]
        /\ db \in [Tasks -> Statuses \cup {"absent"}]
        /\ reader \in [Readers -> [pc : {"idle", "read", "fill"}, task : Tasks \cup {NoTask},
                                   got : Statuses \cup {"none"}]]
        /\ request \in [Tasks -> InFlight \cup {"none", "accepted", "rejected", "cut"}]
        /\ \A r \in Readers : reader[r].pc # "idle" => reader[r].task \in Tasks
    BY DEF IInv, TypeInv, TypeOK, Shape
  <1>00. /\ \A t \in Tasks : db[t] = "absent" <=> request[t] = "none"
         /\ \A t \in Tasks : request[t] \in InFlight => db[t] = "pending" /\ t \notin Held
         /\ \A t \in toRecover : t \in Tasks => db[t] \in Unfinished
    BY DEF IInv, RowInv, ApartInv
  <1>1. CASE UNCHANGED <<db, proc, cache, reader, worker, request, toRecover>>
    BY <1>1
  <1>2. CASE EndProcess
    BY <1>2 DEF EndProcess, IdleReader, OffWorker
  <1>3. CASE BeginBoot
    BY <1>3 DEF BeginBoot
  <1>4. ASSUME NEW t \in Tasks, RecoverTask(t) PROVE ReportInv'
    <2>1. /\ UNCHANGED <<db, proc, reader, worker, request>> /\ proc = "recovering"
          /\ cache' = [cache EXCEPT ![t] = "pending"] /\ toRecover' = toRecover \ {t}
          /\ db[t] \in Unfinished
      BY <1>00, <1>4 DEF RecoverTask, history, NextToRecover
    <2>2. worker.pc = "off"
      BY <2>1 DEF IInv, PhaseInv
    <2> QED BY <1>0, <2>1, <2>2 DEF Unfinished, Terminal
  <1>5. CASE FinishBoot
    BY <1>5 DEF FinishBoot, Selecting
  <1>6. CASE Stop
    BY <1>6 DEF Stop, volatile
  <1>7. ASSUME NEW t \in Tasks, CreateTask(t) PROVE ReportInv'
    <2>1. /\ UNCHANGED <<proc, cache, reader, worker, toRecover>> /\ proc # "recovering"
          /\ db[t] = "absent" /\ db' = [db EXCEPT ![t] = "pending"]
          /\ request' = [request EXCEPT ![t] = "created"]
      BY <1>7 DEF CreateTask, volatile
    <2>2. \A u \in Tasks : u # t => db'[u] = db[u] /\ request'[u] = request[u]
      BY <1>0, <2>1
    <2>3. db'[t] = "pending" /\ request'[t] = "created"
      BY <1>0, <2>1
    <2> QED BY <1>0, <2>1, <2>2, <2>3 DEF Terminal
  <1>8. ASSUME NEW t \in Tasks, CachePending(t) PROVE ReportInv'
    <2>1. /\ UNCHANGED <<db, proc, reader, worker, toRecover>>
          /\ request[t] = "created" /\ db[t] = "pending" /\ t \notin Held
          /\ cache' = [cache EXCEPT ![t] = "pending"]
          /\ request' = [request EXCEPT ![t] = "cached"]
      BY <1>00, <1>8 DEF CachePending, InFlight
    <2>2. worker.pc = "finish" => worker.task # t
      BY <2>1 DEF Held, Holding, Reporting
    <2> QED BY <1>0, <2>1, <2>2 DEF Terminal
  <1>9. ASSUME NEW t \in Tasks, MarkEnqueued(t) \/ SendToQueue(t) PROVE ReportInv'
    <2>1. /\ UNCHANGED <<db, proc, cache, reader, worker, toRecover>>
          /\ \A u \in Tasks : request[u] = "created" => request'[u] = "created"
      BY <1>0, <1>9 DEF MarkEnqueued, SendToQueue
    <2> QED BY <2>1
  <1>10. ASSUME NEW r \in Readers, NEW t \in Tasks, PollMiss(r, t) PROVE ReportInv'
    <2>1. /\ UNCHANGED <<db, proc, cache, worker, request, toRecover>>
          /\ reader' = [reader EXCEPT ![r] = [pc |-> "read", task |-> t, got |-> "none"]]
          /\ Serving /\ request[t] = "accepted" /\ cache[t] = "none"
      BY <1>10 DEF PollMiss
    <2>2. db[t] \in Terminal
      BY <1>0, <1>00, <2>1 DEF Statuses
    <2> QED BY <1>0, <2>1, <2>2
  <1>11. ASSUME NEW r \in Readers, PollRead(r) PROVE ReportInv'
    <2>1. UNCHANGED <<db, proc, cache, worker, request, toRecover>> /\ reader[r].pc = "read"
      BY <1>11 DEF PollRead
    <2>2. reader' = [reader EXCEPT ![r] = [pc |-> "fill", task |-> reader[r].task,
                                          got |-> db[reader[r].task]]]
      BY <1>11, <2>1 DEF PollRead, Terminal
    <2> QED BY <1>0, <2>1, <2>2
  <1>12. ASSUME NEW r \in Readers, PollFill(r) PROVE ReportInv'
    <2>1. /\ UNCHANGED <<db, proc, worker, request, toRecover>>
          /\ cache' = [cache EXCEPT ![reader[r].task] = db[reader[r].task]]
          /\ reader' = [reader EXCEPT ![r] = IdleReader]
          /\ reader[r].task \in Tasks /\ db[reader[r].task] \in Terminal
      BY <1>0, <1>12 DEF PollFill
    <2>2. worker.pc = "finish" => worker.task # reader[r].task /\ worker.task \in Tasks
      BY <2>1 DEF Terminal, Reporting, Executing, Holding
    <2>3. \A u \in Tasks : u # reader[r].task => cache'[u] = cache[u]
      BY <1>0, <2>1
    <2>4. cache'[reader[r].task] = db[reader[r].task]
      BY <1>0, <2>1
    <2>5. \A q \in Readers : reader'[q].pc # "idle" => reader'[q] = reader[q]
      BY <1>0, <2>1 DEF IdleReader
    <2> QED BY <1>0, <2>1, <2>2, <2>3, <2>4, <2>5 DEF Terminal
  <1>13. CASE MarkRunning
    <2>1. /\ UNCHANGED <<proc, cache, reader, request, toRecover>>
          /\ db' = [db EXCEPT ![worker.task] = "running"]
          /\ worker.pc = "mark" /\ worker'.pc = "cacheRunning"
          /\ worker.task \in Tasks /\ db[worker.task] \in Unfinished
      BY <1>13 DEF MarkRunning, Holding, Marking
    <2>2. proc # "recovering"
      BY <2>1 DEF IInv, PhaseInv
    <2>3. \A u \in Tasks : db[u] \in Terminal => db'[u] = db[u]
      BY <2>1 DEF Terminal, Unfinished
    <2>4. \A u \in Tasks : db'[u] \in Terminal => db'[u] = db[u]
      BY <1>0, <2>1 DEF Terminal
    <2>5. \A u \in Tasks : db'[u] \in Unfinished => db[u] \in Unfinished
      BY <1>0, <2>1
    <2> QED BY <1>0, <2>1, <2>2, <2>3, <2>4, <2>5
  <1>14. CASE CacheRunning
    <2>1. /\ UNCHANGED <<db, proc, reader, request, toRecover>>
          /\ cache' = [cache EXCEPT ![worker.task] = "running"]
          /\ worker.pc = "cacheRunning" /\ worker'.pc = "execute"
          /\ worker.task \in Tasks /\ db[worker.task] = "running"
      BY <1>14 DEF CacheRunning, Holding, Executing
    <2> QED BY <1>0, <2>1 DEF Terminal
  <1>15. CASE CacheOutcome
    <2>1. /\ UNCHANGED <<db, proc, reader, request, toRecover>>
          /\ cache' = [cache EXCEPT ![worker.task] = worker.outcome]
          /\ worker'.task = worker.task /\ worker'.outcome = worker.outcome
          /\ worker.task \in Tasks /\ db[worker.task] = "running" /\ worker.outcome # "none"
      BY <1>15 DEF CacheOutcome, Holding, Reporting
    <2> QED BY <1>0, <2>1 DEF Terminal
  <1>16. CASE FinishTask
    <2>1. /\ UNCHANGED <<proc, cache, reader, request, toRecover>>
          /\ db' = [db EXCEPT ![worker.task] = worker.outcome]
          /\ worker.pc = "finish" /\ worker'.pc = "select"
          /\ worker.task \in Tasks /\ db[worker.task] = "running"
          /\ worker.outcome \in Terminal /\ cache[worker.task] = worker.outcome
      BY <1>16 DEF FinishTask, Selecting, Holding, Reporting
    <2>2. \A u \in Tasks : u # worker.task => db'[u] = db[u]
      BY <2>1
    <2>3. db'[worker.task] = worker.outcome
      BY <1>0, <2>1
    <2>4. \A u \in Tasks : db[u] \in Terminal => db'[u] = db[u]
      BY <2>1, <2>2 DEF Terminal
    <2>5. \A u \in Tasks : db'[u] \in Unfinished => db[u] \in Unfinished
      BY <2>1, <2>2, <2>3 DEF Terminal, Unfinished
    <2> QED BY <1>0, <2>1, <2>2, <2>3, <2>4, <2>5
  <1>17. CASE Dequeue \/ Quit \/ Fetch \/ DropTask \/ ExecuteCommit \/ ExecuteFail \/ FinishLost
    <2>1. /\ UNCHANGED <<db, proc, cache, reader, request, toRecover>> /\ worker'.pc # "finish"
      <3>1. CASE Dequeue \/ Fetch
        BY <3>1 DEF Dequeue, Fetch
      <3>2. CASE Quit \/ DropTask \/ FinishLost
        BY <3>2 DEF Quit, DropTask, FinishLost, Selecting, OffWorker
      <3>3. CASE ExecuteCommit
        BY <3>3 DEF ExecuteCommit
      <3>4. CASE ExecuteFail
        BY <3>4 DEF ExecuteFail, history
      <3> QED BY <1>17, <3>1, <3>2, <3>3, <3>4
    <2> QED BY <2>1
  <1> QED
    BY <1>1, <1>2, <1>3, <1>4, <1>5, <1>6, <1>7, <1>8, <1>9, <1>10, <1>11, <1>12, <1>13, <1>14,
       <1>15, <1>16, <1>17
    DEF Next, Lifecycle, Request, Poll, Worker, RecoverOverflow, Crash, Exit, vars, volatile

\* A poll of an id that was handed out never gets an older status than the
\* final one (GetModelBatchTask overwrites the cache with what it has read).
THEOREM FinalStatusIsReported ==
  ASSUME ~PollAnyId
  PROVE  Spec => []FinishedIsReported
  <1>1. Init => ReportInv
    BY DEF Init, ReportInv, FinishedIsReported, Serving, IdleReader, OffWorker
  <1>2. IInv /\ ReportInv /\ [Next]_vars => ReportInv'
    BY StepStaysReported
  <1>3. ReportInv => FinishedIsReported
    BY DEF ReportInv
  <1> QED BY Invariance, <1>1, <1>2, <1>3, PTL DEF Spec
=============================================================================
