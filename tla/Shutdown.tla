------------------------------- MODULE Shutdown -------------------------------
(***************************************************************************)
(* The life of the process in server/bootstrap.go from the moment it       *)
(* listens: requests and the batch worker use the database and log, a      *)
(* signal starts shutdown(), which closes the gateway, the worker, the web *)
(* server, the database and the log file in this order, waiting at most    *)
(* five seconds for each of the first three.                               *)
(*                                                                         *)
(* What requests and tasks do is in other modules (DataPlane,              *)
(* StreamPipeline, BatchTask); here each is busy, and uses the database,   *)
(* until it is done.  Main logs before and after most steps of shutdown(); *)
(* one record stands for both.                                             *)
(***************************************************************************)
EXTENDS DailyLog

CONSTANTS
  Requests,     \* requests under way at a time
  main, worker, \* the other goroutines
  app, gin,     \* the loggers of main; gin's also writes one record per request
  svc           \* the loggers of the services

ASSUME ShutdownAssumption ==
  /\ Goroutines = Requests \cup {main, worker}
  /\ Lasting = {app, gin, svc}
  /\ Derived = Requests

VARIABLES
  phase,      \* how far main is
  task,       \* the worker: "waiting", "busy", "stopped"
  request,    \* per request: "none", "busy", "ending"
  listening,  \* whether connections are accepted
  database,   \* "open" or "closed"
  late        \* history: what did not end within its five seconds

serverVars == <<phase, task, request, listening, database, late>>
shutdownVars == <<logVars, serverVars>>

Active == {r \in Requests : request[r] # "none"}

ShutdownInit ==
  /\ LogInit
  /\ phase = "serving"
  /\ task = "waiting"
  /\ request = [r \in Requests |-> "none"]
  /\ listening = TRUE
  /\ database = "open"
  /\ late = {}

Running == phase # "exited"

-----------------------------------------------------------------------------
\* Requests and the worker

\* The handler's first step: a logger of its own (EnrichLogger).
Accept(r) ==
  /\ Running /\ listening
  /\ request[r] = "none"
  /\ request' = [request EXCEPT ![r] = "busy"]
  /\ Derive(r, svc)
  /\ UNCHANGED <<phase, task, listening, database, late>>

\* The handler logs with its own logger, gin's middleware once it has returned.
RequestLogs(r) ==
  /\ Running
  /\ \/ request[r] = "busy" /\ Log(r, r) /\ UNCHANGED request
     \/ request[r] = "busy" /\ Log(r, gin) /\ request' = [request EXCEPT ![r] = "ending"]
  /\ UNCHANGED <<phase, task, listening, database, late>>

Respond(r) ==
  /\ Running
  /\ request[r] = "ending" /\ call[r] = NoCall
  /\ request' = [request EXCEPT ![r] = "none"]
  /\ Forget(r)
  /\ UNCHANGED <<phase, task, listening, database, late>>

TakeTask ==
  /\ Running
  /\ task = "waiting" /\ phase \in {"serving", "signalled", "gateway"}
  /\ task' = "busy"
  /\ UNCHANGED <<logVars, phase, request, listening, database, late>>

WorkerLogs ==
  /\ Running
  /\ task = "busy" /\ Log(worker, svc)
  /\ UNCHANGED serverVars

\* Once its context is cancelled the loop ends instead of waiting.
EndTask ==
  /\ Running
  /\ task = "busy" /\ call[worker] = NoCall
  /\ task' = IF phase \in {"serving", "signalled", "gateway"} THEN "waiting" ELSE "stopped"
  /\ UNCHANGED <<logVars, phase, request, listening, database, late>>

\* Rotation and writing of whatever record a goroutine has begun to log.
Proceed(g) ==
  /\ Running
  /\ Rotate(g) \/ Write(g)
  /\ UNCHANGED serverVars

-----------------------------------------------------------------------------
\* main.  Each step of shutdown() ends with a record of how it went.

\* Main is past step p and has logged it.
Past(p) == phase = p /\ call[main] = NoCall

Step(p, q, h) == Past(p) /\ phase' = q /\ Log(main, h)

\* ListenAndServe fails: a record, and os.Exit.  It is another goroutine that does
\* this; a signal at the same time is left out.
ListenFails ==
  /\ Past("serving")
  /\ phase' = "unable"
  /\ listening' = FALSE
  /\ Log(main, gin)
  /\ UNCHANGED <<task, request, database, late>>

GiveUp ==
  /\ Past("unable")
  /\ phase' = "exited"
  /\ UNCHANGED <<logVars, task, request, listening, database, late>>

\* A second signal stays in the channel.
Signal ==
  /\ Step("serving", "signalled", app)
  /\ UNCHANGED <<task, request, listening, database, late>>

\* GatewayService.Close has returned, in time or not: requests go on.
CloseGateway ==
  /\ Step("signalled", "gateway", app)
  /\ UNCHANGED <<task, request, listening, database, late>>

\* StopModelBatchTaskWorker cancels the worker's context; a worker that waits
\* wakes up to leave its loop, with a record.
CancelWorker ==
  /\ Past("gateway")
  /\ phase' = "stopping"
  /\ task' = "busy"
  /\ UNCHANGED <<logVars, request, listening, database, late>>

\* Seeded bug: the wait for the worker has no deadline.
WorkerStopped_waits ==
  /\ task = "stopped"
  /\ Step("stopping", "worker", app)
  /\ UNCHANGED <<task, request, listening, database, late>>

WorkerStopped ==
  /\ Step("stopping", "worker", app)
  /\ late' = IF task = "stopped" THEN late ELSE late \cup {"worker"}
  /\ UNCHANGED <<task, request, listening, database>>

\* Server.Shutdown closes the listeners, then waits for the connections.
StopListening ==
  /\ Past("worker")
  /\ phase' = "draining"
  /\ listening' = FALSE
  /\ UNCHANGED <<logVars, task, request, database, late>>

\* Seeded bug: the server is closed without waiting for its requests.
Drained_atOnce ==
  /\ Step("draining", "http", gin)
  /\ UNCHANGED <<task, request, listening, database, late>>

Drained ==
  /\ Step("draining", "http", gin)
  /\ late' = IF Active = {} THEN late ELSE late \cup {"http"}
  /\ UNCHANGED <<task, request, listening, database>>

CloseDatabase ==
  /\ Step("http", "db", app)
  /\ database' = "closed"
  /\ UNCHANGED <<task, request, listening, late>>

CloseLogFile ==
  /\ Past("db")
  /\ phase' = "logfile"
  /\ CloseLog(app)
  /\ UNCHANGED <<task, request, listening, database, late>>

LastRecord ==
  /\ Step("logfile", "closed", app)
  /\ UNCHANGED <<task, request, listening, database, late>>

Exit ==
  /\ Past("closed")
  /\ phase' = "exited"
  /\ UNCHANGED <<logVars, task, request, listening, database, late>>

Closing ==
  \/ CloseGateway \/ CancelWorker \/ WorkerStopped \/ StopListening \/ Drained
  \/ CloseDatabase \/ CloseLogFile \/ LastRecord \/ Exit

NextDay == Running /\ Midnight /\ UNCHANGED serverVars

ShutdownNext ==
  \/ \E r \in Requests : Accept(r) \/ RequestLogs(r) \/ Respond(r)
  \/ TakeTask \/ WorkerLogs \/ EndTask
  \/ \E g \in Goroutines : Proceed(g)
  \/ ListenFails \/ GiveUp \/ Signal \/ Closing
  \/ NextDay

(* main runs, its records get the locks (no lock is held across a wait),   *)
(* and the timers of the three waits fire.  Nothing is assumed of requests *)
(* and tasks.                                                              *)
Fairness ==
  /\ WF_shutdownVars(Closing)
  /\ WF_shutdownVars(Proceed(main))

ShutdownSpec == ShutdownInit /\ [][ShutdownNext]_shutdownVars /\ Fairness
-----------------------------------------------------------------------------

Phases == {"serving", "unable", "signalled", "gateway", "stopping", "worker", "draining",
           "http", "db", "logfile", "closed", "exited"}

ShutdownTypeOK ==
  /\ day \in Days
  /\ handler \in [Handlers -> [date : Days, file : Files] \cup {NoHandler}]
  /\ open \subseteq Files
  /\ call \in [Goroutines -> [at : {"dated", "rotated"}, handler : Handlers, date : Days]
                             \cup {NoCall}]
  /\ \A g \in Goroutines : call[g] # NoCall => Exists(call[g].handler)
  /\ spoiled \subseteq Days
  /\ phase \in Phases
  /\ task \in {"waiting", "busy", "stopped"}
  /\ request \in [Requests -> {"none", "busy", "ending"}]
  /\ \A r \in Requests : request[r] = "none" <=> ~Exists(r)

(* The database is closed last of all that requests and tasks need         *)
(* (bootstrap.go:205-215): if one of them is still under way then, the     *)
(* wait for it has run into its deadline.                                  *)
DatabaseOutlivesItsUsers ==
  database = "closed" =>
     /\ task # "stopped" => "worker" \in late
     /\ Active # {} => "http" \in late

LogClosed == phase \in {"logfile", "closed", "exited"}

(* A record is lost to a closed file (not to one that cannot be opened)    *)
(* only if the day changed while it was being logged, if the day's file    *)
(* was closed by a goroutine that brought an older date into the lock      *)
(* (daily_handler.go:37-39 reads the date before), or after the log was    *)
(* closed: sharing a file with handlers that rotate on their own costs     *)
(* nothing else.                                                           *)
LostOnlyAtMidnight ==
  [][\A g \in Goroutines :
       (/\ call[g].at = "rotated" /\ call'[g] = NoCall
        /\ handler[call[g].handler].file \notin open)
       => call[g].date # day \/ day \in spoiled \/ LogClosed]_shutdownVars

(* A handler whose date is today and whose file is closed does not rotate  *)
(* any more: its records are lost for the rest of the day.  That happens   *)
(* to no handler, the copies requests log with included, unless an older   *)
(* date closed the file of the day, or the log was closed.                 *)
DeadHandlersAreSpoiled ==
  \A h \in Handlers :
     (handler[h].date = day /\ handler[h].file \notin open) => day \in spoiled \/ LogClosed

(* A process that was told to end does, whatever requests and tasks do:    *)
(* every wait of shutdown() has a deadline, and logging takes no lock that *)
(* is held for long.                                                       *)
ShutdownEnds == phase = "signalled" ~> phase = "exited"
=============================================================================
