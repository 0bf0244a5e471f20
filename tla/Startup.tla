------------------------------- MODULE Startup -------------------------------
(***************************************************************************)
(* The start of the process (server/bootstrap.go newBootstrapRuntime):     *)
(* frontend, database, services, routes, in that order, again and again.   *)
(* A frontend that fails is switched off for the run; any other failing    *)
(* step ends the process, as a crash at any moment does.  What outlives it *)
(* is the database (Migrations) and the frontend directory (FrontendDir).  *)
(***************************************************************************)
EXTENDS Migrations, FrontendDir

CONSTANTS
  MaxFaults     \* bound: failing statements and crashes

ASSUME FaultsAreBounded == MaxFaults \in Nat

VARIABLES
  check,    \* EnableFrontendUpdate of this run
  faults,   \* faults so far
  past      \* history, see PastType

vars == <<migrationVars, frontendVars, check, faults, past>>

PastType ==
  [served : BOOLEAN,           \* some start went through
   faulty : BOOLEAN,           \* a statement of this start failed
   seen   : 1..MaxRelease,     \* the latest release when this start began
   recut  : 0..MaxFaults,      \* starts cut off with endpoints made, columns not dropped
   robbed : BOOLEAN]           \* a start was cut off with the health records in memory

WebStates == {"off", "read", "release", "clear", "download", "unzip", "unzipRest", "remove", "save"}
Steps == {"none", "web", "open", "health", "healthDrop", "healthCreate", "healthRestore",
          "schema", "schemaLogs", "format", "formatRow", "links", "endpoints", "endpointRow",
          "dropVariant", "dropHeaders", "logs", "logsDrop", "orphans", "services", "routes",
          "serving"}

Init ==
  /\ MigrationInit /\ FrontendInit
  /\ check = FALSE /\ faults = 0
  /\ past = [served |-> FALSE, faulty |-> FALSE, seen |-> 1, recut |-> 0, robbed |-> FALSE]

-----------------------------------------------------------------------------

Boot(enableWeb, checkUpdate) ==
  /\ step = "none"
  /\ step' = IF enableWeb THEN "web" ELSE "open"
  /\ web' = [WebIdle EXCEPT !.enabled = enableWeb, !.step = IF enableWeb THEN "read" ELSE "off"]
  /\ check' = (enableWeb /\ checkUpdate)
  /\ past' = [past EXCEPT !.seen = latest]
  /\ UNCHANGED <<db, todo, kept, origin, dir, latest, faults>>

Web ==
  /\ step = "web"
  /\ WebRead(check) \/ InstallOrUpdate
  /\ UNCHANGED <<migrationVars, check, faults, past>>

\* InitializeWeb has returned; whatever it returned, the start goes on.
WebDone ==
  /\ step = "web" /\ web.step = "off"
  /\ step' = "open"
  /\ UNCHANGED <<db, todo, kept, origin, frontendVars, check, faults, past>>

\* gorm.Open, and PRAGMA journal_mode=WAL on SQLite.
Open ==
  /\ step = "open"
  /\ step' = "health"
  /\ UNCHANGED <<db, todo, kept, origin, frontendVars, check, faults, past>>

Database ==
  /\ Migrate
  /\ UNCHANGED <<frontendVars, check, faults, past>>

\* NewServices, then SetupRoutes.
Services ==
  /\ step = "services"
  /\ step' = "routes"
  /\ UNCHANGED <<db, todo, kept, origin, frontendVars, check, faults, past>>

Routes ==
  /\ step = "routes"
  /\ step' = "serving"
  /\ past' = [past EXCEPT !.served = TRUE]
  /\ UNCHANGED <<db, todo, kept, origin, frontendVars, check, faults>>

-----------------------------------------------------------------------------

\* All memory is gone; the tables and the directory stay.
ProcessEnds ==
  /\ step' = "none" /\ todo' = {} /\ kept' = {}
  /\ web' = WebIdle
  /\ check' = FALSE
  /\ UNCHANGED <<db, origin, latest>>

\* What the history keeps of a start that is over.
Over == [past EXCEPT !.faulty = FALSE, !.seen = 1]

Fault == faults < MaxFaults /\ faults' = faults + 1

\* A statement of Connect, NewServices or SetupRoutes fails (the process
\* exits), or the process is killed before it.
StartFails ==
  /\ step \notin {"none", "web", "serving"}
  /\ Fault
  /\ ProcessEnds
  /\ past' = [Over EXCEPT !.recut  = @ + (IF step = "endpointRow" THEN 1 ELSE 0),
                          !.robbed = @ \/ (step \in {"healthCreate", "healthRestore"})]
  /\ UNCHANGED dir

\* The process is killed inside InitializeWeb.
WebCrashes ==
  /\ step = "web"
  /\ Fault
  /\ ProcessEnds
  /\ dir' \in Torn
  /\ past' = Over

WebFault ==
  /\ step = "web"
  /\ Fault
  /\ WebFails \/ WebWarns
  /\ past' = [past EXCEPT !.faulty = TRUE]
  /\ UNCHANGED <<migrationVars, check>>

Stop ==
  /\ step = "serving"
  /\ ProcessEnds
  /\ past' = Over
  /\ UNCHANGED <<dir, faults>>

Released ==
  /\ Publish
  /\ UNCHANGED <<migrationVars, check, faults, past>>

Statement == Web \/ WebDone \/ Open \/ Database \/ Services \/ Routes

Next ==
  \/ \E enableWeb, checkUpdate \in BOOLEAN : Boot(enableWeb, checkUpdate)
  \/ Statement
  \/ StartFails \/ WebCrashes \/ WebFault
  \/ Stop
  \/ Released

Spec == Init /\ [][Next]_vars

-----------------------------------------------------------------------------
(* Properties *)

\* Types of the tables, the directory, the start in progress and the history.
TypeOK ==
  /\ step \in Steps /\ web.step \in WebStates
  /\ db.healths.shape \in {"absent", "old", "new"}
  /\ db.healths.rows \subseteq origin.healths.rows
  /\ db.columns \subseteq origin.columns
  /\ todo \subseteq DOMAIN db.platforms
  /\ dir.version \in {Unreadable} \cup 0..MaxRelease
  /\ dir.files.of \in 0..MaxRelease /\ dir.zip \in BOOLEAN
  /\ latest \in 1..MaxRelease
  /\ past \in PastType

\* The provider and variant a platform of the old schema stands for.
Described(p) == LET row == origin.platforms[p] IN
  IF row.provider # "" \/ row.format = "" THEN <<row.provider, row.variant>>
  ELSE <<row.format, DefaultVariant(row.format)>>

EndpointsOf(p) == {i \in DOMAIN db.endpoints : db.endpoints[i].platform = p}

Converted(p) == \E i \in DOMAIN db.endpoints : db.endpoints[i] =
  [platform |-> p, type |-> EndpointType(Described(p)[1]), variant |-> Described(p)[2]]

StillInRow(p) == LET row == db.platforms[p] IN
  /\ "provider" \in db.columns
  /\ \/ <<row.provider, row.variant>> = Described(p)
     \/ "format" \in db.columns /\ row = origin.platforms[p]

HasOldPlatforms == OldColumns \subseteq origin.columns

\* migrate_platform.go, migrate_endpoint.go, migrate_request_log.go: wherever a
\* start is cut off, the old columns hold what the new ones do not yet, so that
\* no start deletes the only copy of a platform's provider or a log's type.
OldDataSurvives ==
  /\ HasOldPlatforms => \A p \in DOMAIN db.platforms : Converted(p) \/ StillInRow(p)
  /\ \A t \in DOMAIN db.logs : \/ db.logs[t].type = t
                               \/ db.logs[t].stream = Streams(t) /\ db.logs[t].native = Native(t)

\* However many starts were cut off before, a process that serves has all
\* platforms converted, and no more endpoints for a platform than one and one
\* for each start that was cut off before it dropped the provider column.
ServingIsMigrated ==
  step = "serving" /\ HasOldPlatforms =>
    \A p \in DOMAIN db.platforms :
      /\ Converted(p)
      /\ Cardinality(EndpointsOf(p)) <= 1 + past.recut
      /\ \A i, j \in EndpointsOf(p) : db.endpoints[i] = db.endpoints[j]

\* The newest health record of every platform that exists.
Retained == {row \in origin.healths.rows : /\ row[1] \in DOMAIN origin.platforms
                                           /\ row[2] = Newest(origin.healths.rows, row[1])}

\* migrate_health.go:25: the newest record of each resource is kept.  All are,
\* or none: they are gone together when a start was cut off between dropping
\* the table and inserting them, and only then.
HealthsKeptTogether ==
  step = "serving" => db.healths.rows = Retained \/ (past.robbed /\ db.healths.rows = {})

\* Whatever start was cut off where (migrate_*.go): types, and the old data.
DataInv == TypeOK /\ OldDataSurvives /\ HealthsKeptTogether

\* Once a process has served, no later start changes a table, however it ends:
\* the migrations recognise what they have done.
LaterStartsChangeNothing == [][past.served => db' = db]_vars

\* The version file names the latest release only when its files are all there.
VersionIsEarned == dir.version = latest => dir.files = [of |-> latest, whole |-> TRUE]

\* frontend.go:70: whatever earlier starts left behind, a start that checks for
\* updates and meets no error serves all files of a release, the latest when
\* the start began or a later one, and its version file says which.
CheckedStartRepairs ==
  step = "serving" /\ web.enabled /\ check /\ ~past.faulty =>
    /\ dir.files = [of |-> dir.version, whole |-> TRUE]
    /\ dir.version >= past.seen

\* What is in the web directory, between and after all of its statements
\* (frontend.go:70-240): the version file tells the truth, and checks repair.
FrontendInv == VersionIsEarned /\ CheckedStartRepairs
=============================================================================
