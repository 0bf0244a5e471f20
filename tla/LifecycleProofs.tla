---------------------------- MODULE LifecycleProofs ----------------------------
(***************************************************************************)
(* Theorems about the two ends of the process.                             *)
(*                                                                         *)
(* Startup, for any platforms, records, releases and number of faults:     *)
(* DataInv, ServingIsMigrated and FrontendInv are invariants, and          *)
(* LaterStartsChangeNothing holds of every step.                           *)
(*                                                                         *)
(* The invariant says, of each table, which of its states the places of    *)
(* the migrations go with: what the health migration holds in memory       *)
(* (HealthsOk), which old columns are still there, what has been moved     *)
(* out of them and how many endpoints a platform can have got from starts  *)
(* that were cut off (PlatformsOk), which flags the logs have (LogsOk),    *)
(* what a start that served has left for the next one to find (Settled),   *)
(* and what is in the frontend directory at each statement of an update    *)
(* (WebOk).                                                                *)
(*                                                                         *)
(* Shutdown, for any finite set of requests, any number of days and        *)
(* without its fairness: DatabaseOutlivesItsUsers and                      *)
(* DeadHandlersAreSpoiled are invariants, and LostOnlyAtMidnight holds of  *)
(* every step.                                                             *)
(*                                                                         *)
(* The log's invariant rests on three facts: no date is ahead of the day   *)
(* (Dated), handlers that share a file have the same date, since a         *)
(* rotation opens a file for one handler alone (Shared), and a call that   *)
(* has rotated for today finds its handler at today's date (CallsFresh).   *)
(* So the file of the day is closed only by a rotation to an older date.   *)
(***************************************************************************)
EXTENDS Startup, Shutdown, FiniteSetTheorems, TLAPS

Providers == Formats \cup {"", "OpenAI"}
Variants == {"", "chat_completions", "messages", "generate", "default"}
PlatformRow == [format : Providers, provider : Providers, variant : Variants]
EndpointRecord ==
  [platform : Platforms, type : {EndpointType(f) : f \in Providers}, variant : Variants]
HealthRows == (Platforms \cup {Ghost}) \X Nat
LogRecord == [type : RequestTypes \cup {""}, stream : BOOLEAN, native : BOOLEAN]

Tables ==
  [healths   : [shape : {"absent", "old", "new"}, rows : SUBSET HealthRows],
   columns   : SUBSET (OldColumns \cup {"format"}),
   platforms : [DOMAIN origin.platforms -> PlatformRow],
   endpoints : Seq(EndpointRecord),
   logCols   : SUBSET {"request_type", "is_stream", "is_native"},
   logs      : [DOMAIN origin.logs -> LogRecord]]

DirType ==
  [version : {Unreadable} \cup (0..MaxRelease),
   files : [of : 0..MaxRelease, whole : BOOLEAN], zip : BOOLEAN]
WebType ==
  [step : WebStates, mode : {"none", "install", "update"},
   target : 0..MaxRelease, enabled : BOOLEAN]

WebTyped ==
  /\ dir \in DirType
  /\ latest \in 1..MaxRelease
  /\ web \in WebType
  /\ check \in BOOLEAN
  /\ faults \in 0..MaxFaults
  /\ past \in PastType
  /\ past.recut <= faults

Typed ==
  /\ db \in Tables /\ origin \in Tables
  /\ DOMAIN origin.platforms \subseteq Platforms
  /\ DOMAIN origin.logs \subseteq RequestTypes
  /\ todo \subseteq DOMAIN origin.platforms
  /\ kept \subseteq HealthRows
  /\ step \in Steps
  /\ WebTyped

HealthSteps == {"health", "healthDrop", "healthCreate", "healthRestore"}
FromOrphans == {"orphans", "services", "routes", "serving"}
FromLogs == {"logs", "logsDrop"} \cup FromOrphans
FromVariant == {"dropVariant", "dropHeaders"} \cup FromLogs
FromFormat == {"format", "formatRow", "links", "endpoints", "endpointRow"} \cup FromVariant
FromSchemaLogs == {"schemaLogs"} \cup FromFormat
FromSchema == {"schema"} \cup FromSchemaLogs

NewestRows ==
  {row \in origin.healths.rows : row[2] = Newest(origin.healths.rows, row[1])}

HealthsOk ==
  /\ \/ /\ db.healths.shape = "old"
        /\ db.healths.rows = origin.healths.rows
     \/ /\ db.healths.shape # "old"
        /\ \/ Retained \subseteq db.healths.rows /\ db.healths.rows \subseteq NewestRows
           \/ db.healths.rows = {} /\ (past.robbed \/ step \in {"healthCreate", "healthRestore"})
  /\ step \in {"healthDrop", "healthCreate", "healthRestore"} => kept = NewestRows
  /\ step = "healthDrop" => db.healths.shape = "old"
  /\ step = "healthCreate" => db.healths.shape = "absent"
  /\ step = "healthRestore" => db.healths.shape = "new"
  /\ step \in {"healthCreate", "healthRestore"} => db.healths.rows = {}
  /\ step \in FromSchema => db.healths.shape # "old"
  /\ step \in FromSchemaLogs => db.healths.shape = "new"
  /\ step \in {"services", "routes", "serving"} => Orphans = {}

Moved(p) == <<db.platforms[p].provider, db.platforms[p].variant>> = Described(p)

Converse(p) ==
  [platform |-> p, type |-> EndpointType(Described(p)[1]), variant |-> Described(p)[2]]

PlatformOk(p) ==
  /\ db.platforms[p].format \in {origin.platforms[p].format, ""}
  /\ "provider" \in db.columns => StillInRow(p)
  /\ "provider" \in db.columns /\ step \in {"links", "endpoints", "endpointRow"} => Moved(p)
  /\ step = "formatRow" /\ p \notin todo => Moved(p)
  /\ "provider" \notin db.columns \/ (step = "endpointRow" /\ p \notin todo) => Converted(p)
  /\ \A i \in DOMAIN db.endpoints : db.endpoints[i].platform = p => db.endpoints[i] = Converse(p)
  /\ Cardinality(EndpointsOf(p)) <= past.recut + 1
  /\ "provider" \in db.columns /\ (step = "endpointRow" => p \in todo) =>
       Cardinality(EndpointsOf(p)) <= past.recut

ColumnsOk ==
  /\ db.columns \subseteq origin.columns
  /\ "provider" \in db.columns => OldColumns \subseteq db.columns
  /\ step \in FromVariant => "provider" \notin db.columns
  /\ step = "formatRow" => {"format", "provider"} \subseteq db.columns
  /\ step = "endpointRow" => OldColumns \subseteq db.columns

PlatformsOk ==
  /\ ColumnsOk
  /\ HasOldPlatforms => \A p \in DOMAIN origin.platforms : PlatformOk(p)

Flags(t) == db.logs[t].stream = Streams(t) /\ db.logs[t].native = Native(t)
NoFlags(t) == db.logs[t].stream = FALSE /\ db.logs[t].native = FALSE

LogsOk ==
  /\ \A t \in DOMAIN origin.logs :
       /\ "request_type" \in db.logCols => db.logs[t].type = t
       /\ Flags(t) \/ NoFlags(t)
       /\ "request_type" \notin db.logCols \/ step = "logsDrop" => Flags(t)
  /\ step \in FromFormat => {"is_stream", "is_native"} \subseteq db.logCols
  /\ step \in FromOrphans => "request_type" \notin db.logCols

Settled ==
  past.served =>
    /\ db.healths.shape = "new" /\ Orphans = {}
    /\ "provider" \notin db.columns
    /\ {"is_stream", "is_native"} \subseteq db.logCols
    /\ "request_type" \notin db.logCols
    /\ step \notin {"healthDrop", "healthCreate", "healthRestore", "formatRow", "endpointRow",
                    "dropVariant", "dropHeaders", "logsDrop"}

Repaired ==
  /\ dir.files = [of |-> dir.version, whole |-> TRUE]
  /\ dir.version >= past.seen

Under == {"clear", "download", "unzip", "unzipRest", "remove", "save"}

WebOk ==
  /\ step # "web" => web.step = "off"
  /\ step = "none" => ~check
  /\ dir.version <= latest /\ past.seen <= latest
  /\ VersionIsEarned
  /\ web.step = "release" => web.mode = "update" \/ dir.version = NoVersion
  /\ web.step \in Under =>
       dir.version < web.target /\ past.seen <= web.target /\ web.target <= latest
  /\ web.step = "unzipRest" => dir.files.of = web.target
  /\ web.step \in {"remove", "save"} => dir.files = [of |-> web.target, whole |-> TRUE]
  /\ web.step = "off" /\ web.enabled /\ check /\ ~past.faulty => Repaired

IInv == Typed /\ HealthsOk /\ PlatformsOk /\ LogsOk /\ Settled /\ WebOk

-----------------------------------------------------------------------------
\* What is not a step of the migrations leaves the tables alone.
LEMMA OtherSteps ==
  ASSUME [Next]_vars, ~Database
  PROVE  /\ UNCHANGED <<db, origin>>
         /\ \/ \E enableWeb, checkUpdate \in BOOLEAN : Boot(enableWeb, checkUpdate)
            \/ Web \/ WebDone \/ Open \/ Services \/ Routes
            \/ StartFails \/ WebCrashes \/ WebFault \/ Stop \/ Released
            \/ UNCHANGED vars
<1>1. \/ \E enableWeb, checkUpdate \in BOOLEAN : Boot(enableWeb, checkUpdate)
      \/ Web \/ WebDone \/ Open \/ Services \/ Routes
      \/ StartFails \/ WebCrashes \/ WebFault \/ Stop \/ Released
      \/ UNCHANGED vars
  BY DEF Next, Statement
<1> QED
  BY <1>1 DEF Boot, Web, WebDone, Open, Services, Routes, StartFails, WebCrashes,
     WebFault, Stop, Released, ProcessEnds, migrationVars, vars

LEMMA NewestKeep ==
  ASSUME Typed
  PROVE  /\ Retained \subseteq NewestRows /\ NewestRows \subseteq origin.healths.rows
         /\ origin.healths.rows \subseteq HealthRows
BY DEF Typed, Tables, Retained, NewestRows

LEMMA PlatformRows ==
  ASSUME NEW row \in PlatformRow
  PROVE  /\ [row EXCEPT !.format = ""] \in PlatformRow
         /\ [row EXCEPT !.provider = ""] \in PlatformRow
         /\ [row EXCEPT !.variant = ""] \in PlatformRow
         /\ [row EXCEPT !.provider = row.format, !.variant = DefaultVariant(row.format)]
              \in PlatformRow
BY DEF PlatformRow, Providers, Variants, DefaultVariant

\* What the two columns of a row become is one new row.
Refilled(d, q, provider, variant) ==
  [d EXCEPT !.platforms[q].provider = provider, !.platforms[q].variant = variant]

NewRow(row, provider, variant) == [row EXCEPT !.provider = provider, !.variant = variant]

WithRow(d, q, row) == [d EXCEPT !.platforms = [d.platforms EXCEPT ![q] = row]]

LEMMA RowUpdate ==
  ASSUME NEW d, "platforms" \in DOMAIN d, NEW q, NEW a, NEW b,
         q \in DOMAIN d.platforms, d.platforms[q] \in PlatformRow
  PROVE  Refilled(d, q, a, b) = WithRow(d, q, NewRow(d.platforms[q], a, b))
<1> DEFINE one == [d.platforms[q] EXCEPT !.provider = a]
           first == [d EXCEPT !.platforms = [d.platforms EXCEPT ![q] = one]]
<1>1. first.platforms[q] = one /\ first.platforms = [d.platforms EXCEPT ![q] = one]
  OBVIOUS
<1>2. [one EXCEPT !.variant = b] = [d.platforms[q] EXCEPT !.provider = a, !.variant = b]
  BY DEF PlatformRow
<1>3. [d EXCEPT !.platforms[q].provider = a] = first
  OBVIOUS
<1>4. [d EXCEPT !.platforms[q].provider = a, !.platforms[q].variant = b]
        = [first EXCEPT !.platforms = [first.platforms EXCEPT ![q] = [one EXCEPT !.variant = b]]]
  BY <1>1, <1>3
<1> HIDE DEF one
<1>5. [first.platforms EXCEPT ![q] = [one EXCEPT !.variant = b]]
        = [d.platforms EXCEPT ![q] = [one EXCEPT !.variant = b]]
  BY <1>1
<1> QED
  BY <1>2, <1>4, <1>5 DEF Refilled, NewRow, WithRow

LEMMA LogRecords ==
  ASSUME NEW row \in LogRecord
  PROVE  /\ [row EXCEPT !.type = ""] \in LogRecord
         /\ Flagged(row) \in LogRecord
<1>1. Streams(row.type) \in BOOLEAN /\ Native(row.type) \in BOOLEAN
  BY DEF Streams, Native
<1> QED
  BY <1>1 DEF Flagged, LogRecord

LEMMA OldOnes ==
  ASSUME OldDatabase
  PROVE  \E H \in OldHealths, columns \in SUBSET (OldColumns \cup {"format"}),
            rows \in [Platforms -> PlatformRow] :
           /\ db = Old(H, columns, rows)
           /\ columns \in {OldColumns, OldColumns \cup {"format"}, {"format"}}
           /\ columns = OldColumns => \A p \in Platforms : rows[p].format = ""
<1>1. ASSUME NEW f \in Providers, NEW g \in Providers
      PROVE  Row(f, g) \in PlatformRow
  BY DEF Row, PlatformRow, Variants
<1>2. PICK H \in OldHealths :
        \/ \E f \in [Platforms -> Formats] :
             db = Old(H, OldColumns, [p \in Platforms |-> Row("", f[p])])
        \/ \E f \in [Platforms -> Formats \cup {""}], g \in [Platforms -> {"", "OpenAI"}] :
             db = Old(H, OldColumns \cup {"format"}, [p \in Platforms |-> Row(f[p], g[p])])
        \/ db = Old(H, {"format"}, [p \in Platforms |-> Row("OpenAI", "")])
  BY DEF OldDatabase
<1> DEFINE Found(columns, rows) ==
             /\ db = Old(H, columns, rows) /\ rows \in [Platforms -> PlatformRow]
             /\ columns = OldColumns => \A p \in Platforms : rows[p].format = ""
<1>0. OldColumns \cup {"format"} # OldColumns /\ {"format"} # OldColumns
  BY DEF OldColumns
<1>3. ASSUME NEW f \in [Platforms -> Formats],
             db = Old(H, OldColumns, [p \in Platforms |-> Row("", f[p])])
      PROVE  Found(OldColumns, [p \in Platforms |-> Row("", f[p])])
  BY <1>1, <1>3 DEF Providers, Row
<1>4. ASSUME NEW f \in [Platforms -> Formats \cup {""}], NEW g \in [Platforms -> {"", "OpenAI"}],
             db = Old(H, OldColumns \cup {"format"}, [p \in Platforms |-> Row(f[p], g[p])])
      PROVE  Found(OldColumns \cup {"format"}, [p \in Platforms |-> Row(f[p], g[p])])
  BY <1>0, <1>1, <1>4 DEF Providers
<1>5. ASSUME db = Old(H, {"format"}, [p \in Platforms |-> Row("OpenAI", "")])
      PROVE  Found({"format"}, [p \in Platforms |-> Row("OpenAI", "")])
  BY <1>0, <1>1, <1>5 DEF Providers
<1>6. \E columns \in {OldColumns, OldColumns \cup {"format"}, {"format"}} : \E rows : Found(columns, rows)
  BY <1>2, <1>3, <1>4, <1>5
<1> QED
  BY <1>6

LEMMA TypedInit == ASSUME Init PROVE Typed
<1>1. origin = db /\ (db = Fresh \/ OldDatabase)
  BY DEF Init, MigrationInit
<1>2. db \in Tables
  <2>1. CASE db = Fresh
    BY <2>1, <1>1 DEF Fresh, Tables, NoPlatforms, NoLogs
  <2> DEFINE Logs == [t \in RequestTypes |-> LogRow(t)]
  <2>2. Logs \in [RequestTypes -> LogRecord]
    BY DEF LogRow, LogRecord
  <2>3. ASSUME NEW H \in OldHealths, NEW columns \in SUBSET (OldColumns \cup {"format"}),
               NEW rows \in [Platforms -> PlatformRow], db = Old(H, columns, rows)
        PROVE  db \in Tables
    <3>1. H \subseteq HealthRows
      BY OldHealthRows DEF HealthRows
    <3>2. <<>> \in Seq(EndpointRecord)
      OBVIOUS
    <3>3. /\ db.platforms = rows /\ db.logs = Logs
          /\ DOMAIN db.platforms = Platforms /\ DOMAIN db.logs = RequestTypes
      BY <2>3, <2>2 DEF Old
    <3> QED
      BY <2>3, <1>1, <2>2, <3>1, <3>2, <3>3 DEF Old, Tables
  <2>5. CASE OldDatabase
    <3>1. PICK H \in OldHealths, columns \in SUBSET (OldColumns \cup {"format"}),
               rows \in [Platforms -> PlatformRow] : db = Old(H, columns, rows)
      BY <2>5, OldOnes
    <3> QED
      BY <3>1, <2>3
  <2> QED
    BY <1>1, <2>1, <2>5
<1>3. DOMAIN origin.platforms \subseteq Platforms /\ DOMAIN origin.logs \subseteq RequestTypes
  <2>1. CASE db = Fresh
    BY <2>1, <1>1 DEF Fresh, NoPlatforms, NoLogs
  <2>2. CASE OldDatabase
    <3>1. PICK H \in OldHealths, columns \in SUBSET (OldColumns \cup {"format"}),
               rows \in [Platforms -> PlatformRow] : db = Old(H, columns, rows)
      BY <2>2, OldOnes
    <3> QED
      BY <3>1, <1>1 DEF Old
  <2> QED
    BY <1>1, <2>1, <2>2
<1>4. todo = {} /\ kept = {} /\ step \in Steps
  BY DEF Init, MigrationInit, Steps
<1>5. WebTyped
  <2>1. past \in PastType /\ past.recut = 0
    BY ReleasesExist, FaultsAreBounded DEF Init, PastType
  <2>2. /\ dir = [version |-> NoVersion, files |-> NoFiles, zip |-> FALSE]
        /\ latest = 1 /\ web = WebIdle /\ check = FALSE /\ faults = 0
    BY DEF Init, FrontendInit
  <2>3. web \in WebType
    BY <2>2, ReleasesExist DEF WebIdle, WebStates, WebType
  <2>4. dir \in DirType
    BY <2>2, ReleasesExist DEF NoVersion, NoFiles, DirType
  <2>5. latest \in 1..MaxRelease /\ faults \in 0..MaxFaults /\ past.recut <= faults
    BY <2>1, <2>2, ReleasesExist, FaultsAreBounded
  <2>6. check \in BOOLEAN
    BY <2>2
  <2> QED
    BY <2>1, <2>3, <2>4, <2>5, <2>6 DEF WebTyped
<1> QED
  BY <1>1, <1>2, <1>3, <1>4, <1>5 DEF Typed

LEMMA TypedTables == ASSUME Typed, [Next]_vars PROVE db' \in Tables'
<1> USE DEF Typed, Tables
<1>0. CASE ~Database
  BY <1>0, OtherSteps
<1> SUFFICES ASSUME Migrate PROVE db' \in Tables'
  BY <1>0 DEF Database
<1>1. CASE HealthBackup
  BY <1>1 DEF HealthBackup
<1>2. CASE HealthDrop
  BY <1>2 DEF HealthDrop
<1>3. CASE HealthCreate
  BY <1>3 DEF HealthCreate
<1>4. CASE HealthRestore
  BY <1>4 DEF HealthRestore
<1>5. CASE Schema
  BY <1>5 DEF Schema
<1>6. CASE SchemaLogs
  BY <1>6 DEF SchemaLogs
<1>7. CASE FormatRead
  BY <1>7 DEF FormatRead
<1>8. ASSUME NEW p \in todo, FormatRow(p) PROVE db' \in Tables'
  <2> DEFINE row == [db.platforms[p] EXCEPT !.provider = db.platforms[p].format,
                        !.variant = DefaultVariant(db.platforms[p].format)]
  <2>1. db.platforms[p] \in PlatformRow
    OBVIOUS
  <2>2. row \in PlatformRow
    BY <2>1, PlatformRows
  <2>3. UNCHANGED db \/ db' = [db EXCEPT !.platforms = [db.platforms EXCEPT ![p] = row]]
    <3>1. "platforms" \in DOMAIN db /\ p \in DOMAIN db.platforms
      OBVIOUS
    <3> DEFINE f == db.platforms[p].format
               v == DefaultVariant(f)
    <3> HIDE DEF Typed, Tables
    <3>2. Refilled(db, p, f, v)
            = WithRow(db, p, row)
      <4> HIDE DEF f, v
      <4>1. row = NewRow(db.platforms[p], f, v)
        BY DEF f, v, NewRow
      <4> HIDE DEF row
      <4> QED
        BY <2>1, <3>1, <4>1, RowUpdate
    <3>3. \/ UNCHANGED db
          \/ db' = Refilled(db, p, f, v)
      BY <1>8 DEF FormatRow, Refilled
    <3> HIDE DEF row, f, v
    <3> QED
      BY <3>2, <3>3 DEF WithRow
  <2> HIDE DEF row
  <2>4. [db.platforms EXCEPT ![p] = row] \in [DOMAIN origin.platforms -> PlatformRow]
    BY <2>2
  <2>5. UNCHANGED origin
    BY <1>8 DEF FormatRow
  <2> QED BY <2>3, <2>4, <2>5
<1>9. CASE FormatDrop
  <2>1. [p \in DOMAIN db.platforms |-> [db.platforms[p] EXCEPT !.format = ""]]
          \in [DOMAIN origin.platforms -> PlatformRow]
    BY PlatformRows
  <2> QED BY <1>9, <2>1 DEF FormatDrop
<1>10. CASE Links
  BY <1>10 DEF Links
<1>11. CASE EndpointsRead
  BY <1>11 DEF EndpointsRead
<1>12. ASSUME NEW p \in todo, EndpointRow(p) PROVE db' \in Tables'
  <2>1. DefaultEndpoint(p) \in EndpointRecord
    BY DEF DefaultEndpoint, EndpointRecord, PlatformRow
  <2>2. Append(db.endpoints, DefaultEndpoint(p)) \in Seq(EndpointRecord)
    BY <2>1
  <2> QED BY <1>12, <2>2 DEF EndpointRow
<1>13. CASE DropProvider
  <2>1. [p \in DOMAIN db.platforms |-> [db.platforms[p] EXCEPT !.provider = ""]]
          \in [DOMAIN origin.platforms -> PlatformRow]
    BY PlatformRows
  <2> QED BY <1>13, <2>1 DEF DropProvider
<1>14. CASE DropVariant
  <2>1. [p \in DOMAIN db.platforms |-> [db.platforms[p] EXCEPT !.variant = ""]]
          \in [DOMAIN origin.platforms -> PlatformRow]
    BY PlatformRows
  <2> QED BY <1>14, <2>1 DEF DropVariant
<1>15. CASE DropHeaders
  BY <1>15 DEF DropHeaders
<1>16. CASE LogsFill
  <2>1. \A t \in DOMAIN origin.logs : Flagged(db.logs[t]) \in LogRecord
    BY LogRecords
  <2>2. [t \in DOMAIN db.logs |-> IF db.logs[t].stream \/ db.logs[t].native THEN db.logs[t]
                                        ELSE Flagged(db.logs[t])]
          \in [DOMAIN origin.logs -> LogRecord]
    BY <2>1
  <2> QED BY <1>16, <2>2 DEF LogsFill
<1>17. CASE LogsDrop
  <2>1. [t \in DOMAIN db.logs |-> [db.logs[t] EXCEPT !.type = ""]]
          \in [DOMAIN origin.logs -> LogRecord]
    BY LogRecords
  <2> QED BY <1>17, <2>1 DEF LogsDrop
<1>18. CASE CleanOrphan
  <2>1. PICK row \in Orphans : db' = [db EXCEPT !.healths.rows = @ \ {row}]
    BY <1>18 DEF CleanOrphan
  <2>2. UNCHANGED origin
    BY <1>18 DEF CleanOrphan
  <2> QED BY <2>1, <2>2
<1>19. CASE Migrated
  BY <1>19 DEF Migrated
<1> QED
  BY <1>1, <1>2, <1>3, <1>4, <1>5, <1>6, <1>7, <1>8, <1>9, <1>10, <1>11, <1>12, <1>13, <1>14,
     <1>15, <1>16, <1>17, <1>18, <1>19 DEF Migrate

\* A statement of the migrations leaves the frontend and the history alone.
LEMMA MigrateSteps ==
  ASSUME Database
  PROVE  /\ UNCHANGED <<origin, dir, latest, web, check, faults, past>>
         /\ step \notin {"none", "web", "open", "services", "routes", "serving"}
         /\ step' \in Steps \ {"none", "web", "open", "routes", "serving"}
BY DEF Database, Migrate, frontendVars, HealthBackup, HealthDrop, HealthCreate, HealthRestore,
       Schema, SchemaLogs, FormatRead, FormatRow, FormatDrop, Links, EndpointsRead, EndpointRow,
       DropProvider, DropVariant, DropHeaders, LogsFill, LogsDrop, CleanOrphan, Migrated, Then,
       Steps

LEMMA TornTyped ==
  ASSUME WebTyped
  PROVE  /\ Torn \subseteq DirType
         /\ \A d \in DirType : Tidied(d) \subseteq DirType
<1>1. dir \in DirType
  BY DEF WebTyped, DirType
<1>2. /\ [dir EXCEPT !.files.whole = FALSE] \in DirType
      /\ [dir EXCEPT !.zip = TRUE] \in DirType
      /\ [dir EXCEPT !.version = Unreadable] \in DirType
  BY <1>1 DEF DirType
<1>3. \A d \in DirType : [d EXCEPT !.zip = FALSE] \in DirType
  BY DEF DirType
<1> QED
  BY <1>1, <1>2, <1>3 DEF Torn, Tidied

LEMMA WebStatementTyped ==
  ASSUME WebTyped, WebRead(check) \/ InstallOrUpdate
  PROVE  dir' \in DirType /\ web' \in WebType /\ latest' = latest
<1>1. dir \in DirType /\ web \in WebType /\ latest \in 0..MaxRelease
  BY DEF WebTyped
<1>2. NoFiles \in [of : 0..MaxRelease, whole : BOOLEAN]
  BY ReleasesExist DEF NoFiles
<1>3. CASE WebRead(check)
  BY <1>1, <1>3 DEF WebRead, Returns, WebType, WebStates
<1>4. CASE WebRelease
  BY <1>1, <1>4 DEF WebRelease, Returns, WebType, WebStates
<1>5. CASE WebClear
  BY <1>1, <1>2, <1>5 DEF WebClear, DirType
<1>6. CASE WebCleared
  BY <1>1, <1>6 DEF WebCleared, WebGoes, WebType, WebStates
<1>7. CASE WebDownload
  BY <1>1, <1>7 DEF WebDownload, WebGoes, WebType, WebStates, DirType
<1>8. CASE WebUnzip
  <2>1. [of |-> web.target, whole |-> FALSE] \in [of : 0..MaxRelease, whole : BOOLEAN]
    BY <1>1 DEF WebType
  <2> QED
    BY <1>1, <2>1, <1>8 DEF WebUnzip, WebGoes, WebType, WebStates, DirType
<1>9. CASE WebUnzipRest
  BY <1>1, <1>9 DEF WebUnzipRest, WebGoes, WebType, WebStates, DirType
<1>10. CASE WebRemove
  BY <1>1, <1>10 DEF WebRemove, WebGoes, WebType, WebStates, DirType
<1>11. CASE WebSave
  BY <1>1, <1>11 DEF WebSave, Returns, WebType, WebStates, DirType
<1> QED
  BY <1>3, <1>4, <1>5, <1>6, <1>7, <1>8, <1>9, <1>10, <1>11 DEF InstallOrUpdate

LEMMA PastTyped ==
  ASSUME WebTyped
  PROVE  /\ Over \in PastType /\ Over.recut = past.recut
         /\ WebIdle \in WebType
         /\ [WebIdle EXCEPT !.enabled = TRUE, !.step = "read"] \in WebType
         /\ [WebIdle EXCEPT !.enabled = FALSE, !.step = "off"] \in WebType
<1>1. past \in PastType /\ 1 \in 1..MaxRelease /\ 0 \in 0..MaxRelease
  BY ReleasesExist DEF WebTyped
<1>2. Over \in PastType /\ Over.recut = past.recut
  BY <1>1 DEF Over, PastType
<1>3. WebIdle \in WebType
  BY <1>1 DEF WebIdle, WebType, WebStates
<1>4. [WebIdle EXCEPT !.enabled = TRUE, !.step = "read"] \in WebType
  BY <1>3 DEF WebType, WebStates
<1>5. [WebIdle EXCEPT !.enabled = FALSE, !.step = "off"] \in WebType
  BY <1>3 DEF WebType, WebStates
<1> QED
  BY <1>2, <1>3, <1>4, <1>5

LEMMA WebTypedStep == ASSUME Typed, [Next]_vars PROVE WebTyped'
<1>1. WebTyped
  BY DEF Typed
<1> USE DEF WebTyped
<1>2. CASE Database
  BY <1>1, <1>2, MigrateSteps
<1>3. ASSUME NEW enableWeb \in BOOLEAN, NEW checkUpdate \in BOOLEAN, Boot(enableWeb, checkUpdate)
      PROVE  WebTyped'
  <2>1. past' \in PastType /\ past'.recut = past.recut
    BY <1>1, <1>3 DEF Boot, PastType
  <2>2. web' \in WebType
    <3>1. CASE enableWeb = TRUE
      BY <1>1, <1>3, <3>1, PastTyped DEF Boot
    <3>2. CASE enableWeb = FALSE
      BY <1>1, <1>3, <3>2, PastTyped DEF Boot
    <3> QED
      BY <3>1, <3>2
  <2>3. check' \in BOOLEAN
    BY <1>3 DEF Boot
  <2> QED
    BY <1>1, <1>3, <2>1, <2>2, <2>3 DEF Boot
<1>4. CASE Web
  BY <1>1, <1>4, WebStatementTyped DEF Web
<1>5. CASE WebDone \/ Open \/ Services
  BY <1>1, <1>5 DEF WebDone, Open, Services, frontendVars
<1>6. CASE Routes
  BY <1>1, <1>6 DEF Routes, frontendVars, PastType
<1>7. CASE StartFails
  <2>1. past' \in PastType /\ past'.recut <= faults'
    <3> DEFINE n == past.recut + (IF step = "endpointRow" THEN 1 ELSE 0)
               b == Over.robbed \/ (step \in {"healthCreate", "healthRestore"})
    <3>1. past' = [Over EXCEPT !.recut = n, !.robbed = b]
      BY <1>1, <1>7, PastTyped DEF StartFails, PastType
    <3>2. n \in 0..MaxFaults /\ n <= faults' /\ b \in BOOLEAN
      BY <1>1, <1>7, FaultsAreBounded DEF StartFails, Fault, PastType
    <3> HIDE DEF n, b
    <3> QED
      BY <1>1, <3>1, <3>2, PastTyped DEF PastType
  <2>2. check' \in BOOLEAN
    BY <1>7 DEF StartFails, ProcessEnds
  <2>3. faults' \in 0..MaxFaults /\ UNCHANGED <<dir, latest>> /\ web' = WebIdle
    BY <1>1, <1>7, FaultsAreBounded DEF StartFails, Fault, ProcessEnds
  <2> QED
    BY <1>1, <2>1, <2>2, <2>3, PastTyped
<1>8. CASE WebCrashes
  <2>1. check' \in BOOLEAN
    BY <1>8 DEF WebCrashes, ProcessEnds
  <2>2. /\ faults' \in 0..MaxFaults /\ faults' >= faults
        /\ UNCHANGED latest /\ web' = WebIdle /\ past' = Over
    BY <1>1, <1>8, FaultsAreBounded DEF WebCrashes, Fault, ProcessEnds
  <2>3. dir' \in DirType
    BY <1>1, <1>8, TornTyped DEF WebCrashes
  <2>4. past.recut <= faults'
    BY <1>1, <2>2 DEF PastType
  <2> QED
    BY <1>1, <2>1, <2>2, <2>3, <2>4, PastTyped
<1>9. CASE WebFault
  <2>1. past' \in PastType /\ past'.recut = past.recut
    BY <1>1, <1>9 DEF WebFault, PastType
  <2>2. web' \in WebType
    BY <1>1, <1>9 DEF WebFault, WebFails, WebWarns, WebFailed, WebGoes, Returns, WebType, WebStates
  <2>3. dir' \in DirType
    BY <1>1, <1>9, TornTyped DEF WebFault, WebFails, WebWarns
  <2>4. faults' \in 0..MaxFaults /\ past'.recut <= faults'
    BY <1>1, <1>9, <2>1, FaultsAreBounded DEF WebFault, Fault, PastType
  <2>5. UNCHANGED <<latest, check>>
    BY <1>9 DEF WebFault, WebFails, WebWarns
  <2> QED
    BY <1>1, <2>1, <2>2, <2>3, <2>4, <2>5
<1>10. CASE Stop
  <2>1. check' \in BOOLEAN
    BY <1>10 DEF Stop, ProcessEnds
  <2>2. UNCHANGED <<dir, latest, faults>> /\ web' = WebIdle /\ past' = Over
    BY <1>10 DEF Stop, ProcessEnds
  <2> QED
    BY <1>1, <2>1, <2>2, PastTyped
<1>11. CASE Released
  BY <1>1, <1>11, ReleasesExist DEF Released, Publish
<1>12. CASE UNCHANGED vars
  BY <1>1, <1>12 DEF vars, frontendVars
<1> QED
  BY <1>2, <1>3, <1>4, <1>5, <1>6, <1>7, <1>8, <1>9, <1>10, <1>11, <1>12, OtherSteps

\* What the statements read and keep in memory.
LEMMA TypedStep == ASSUME Typed, [Next]_vars PROVE Typed'
<1> USE DEF Typed, Tables
<1>1. db' \in Tables'
  BY TypedTables
<1>2. UNCHANGED origin
  BY OtherSteps, MigrateSteps
<1>3. origin' \in Tables'
  BY <1>2
<1>4. WebTyped'
  BY WebTypedStep
<1>5. step' \in Steps
  BY OtherSteps, MigrateSteps
  DEF Boot, Web, WebDone, Open, Services, Routes, StartFails, WebCrashes, WebFault, Stop,
      Released, ProcessEnds, migrationVars, vars, Steps
<1>6. todo' \subseteq DOMAIN origin.platforms /\ kept' \subseteq HealthRows
  <2>1. CASE Database
    <3>1. DOMAIN db.platforms = DOMAIN origin.platforms /\ db.healths.rows \subseteq HealthRows
      OBVIOUS
    <3>2. todo' \in {todo, DOMAIN db.platforms} \/ \E p \in todo : todo' = todo \ {p}
      BY <2>1 DEF Database, Migrate, HealthBackup, HealthDrop, HealthCreate, HealthRestore,
         Schema, SchemaLogs, FormatRead, FormatRow, FormatDrop, Links, EndpointsRead, EndpointRow,
         DropProvider, DropVariant, DropHeaders, LogsFill, LogsDrop, CleanOrphan, Migrated
    <3>3. kept' \in {kept, {}} \/ kept' \subseteq db.healths.rows
      BY <2>1 DEF Database, Migrate, HealthBackup, HealthDrop, HealthCreate, HealthRestore,
         Schema, SchemaLogs, FormatRead, FormatRow, FormatDrop, Links, EndpointsRead, EndpointRow,
         DropProvider, DropVariant, DropHeaders, LogsFill, LogsDrop, CleanOrphan, Migrated
    <3> HIDE DEF Typed, Tables
    <3>4. todo \subseteq DOMAIN origin.platforms /\ kept \subseteq HealthRows
      BY DEF Typed
    <3> QED
      BY <3>1, <3>2, <3>3, <3>4
  <2>2. CASE ~Database
    BY <2>2, OtherSteps DEF Boot, Web, WebDone, Open, Services, Routes, StartFails, WebCrashes,
       WebFault, Stop, Released, ProcessEnds, migrationVars, vars
  <2> QED
    BY <2>1, <2>2
<1> QED
  BY <1>1, <1>2, <1>3, <1>4, <1>5, <1>6

-----------------------------------------------------------------------------
(* The health records. *)

LEMMA OrphanRows ==
  ASSUME Typed
  PROVE  /\ Orphans = {row \in db.healths.rows : row[1] \notin DOMAIN origin.platforms}
         /\ Retained = {row \in NewestRows : row[1] \in DOMAIN origin.platforms}
BY DEF Typed, Tables, Orphans, Retained, NewestRows

LEMMA SameOrphans ==
  ASSUME Typed, Typed', UNCHANGED origin, db'.healths.rows = db.healths.rows
  PROVE  Orphans' = Orphans
<1>1. DOMAIN db.platforms = DOMAIN origin.platforms /\ DOMAIN db'.platforms = DOMAIN origin'.platforms
  BY DEF Typed, Tables
<1> QED
  BY <1>1 DEF Orphans

\* A step that leaves the records where they are.
LEMMA HealthsAside ==
  ASSUME Typed, Typed', HealthsOk, UNCHANGED <<origin, kept>>,
         db'.healths = db.healths, past'.robbed = past.robbed,
         step \notin {"health", "healthDrop", "healthCreate", "healthRestore"},
         step' \notin {"healthDrop", "healthCreate", "healthRestore"},
         step' \in FromSchema => step \in FromSchema,
         step' \in FromSchemaLogs => step \in FromSchemaLogs,
         step' \in {"services", "routes", "serving"} => step \in {"services", "routes", "serving"}
  PROVE  HealthsOk'
<1>1. Retained' = Retained /\ NewestRows' = NewestRows
  BY DEF Retained, NewestRows
<1>2. Orphans' = Orphans
  BY SameOrphans
<1> QED
  BY <1>1, <1>2 DEF HealthsOk, FromSchema, FromSchemaLogs, FromFormat, FromVariant, FromLogs,
     FromOrphans

LEMMA HealthsStep == ASSUME Typed, Typed', HealthsOk, [Next]_vars PROVE HealthsOk'
<1> USE DEF FromSchema, FromSchemaLogs, FromFormat, FromVariant, FromLogs, FromOrphans
<1>1. UNCHANGED origin
  BY OtherSteps, MigrateSteps
<1>2. Retained' = Retained /\ NewestRows' = NewestRows
  BY <1>1 DEF Retained, NewestRows
<1>3. Retained \subseteq NewestRows /\ NewestRows \subseteq origin.healths.rows
  BY NewestKeep
<1>4. db \in Tables /\ DOMAIN db.platforms = DOMAIN origin.platforms
  BY DEF Typed, Tables
<1>13. CASE ~Database
  <2>1. UNCHANGED db
    BY <1>13, OtherSteps
  <2>2. Orphans' = Orphans
    BY <1>1, <2>1, SameOrphans
  <2>3. CASE StartFails
    <3>1. past'.robbed = (past.robbed \/ step \in {"healthCreate", "healthRestore"})
      BY <2>3 DEF StartFails, Over, Typed, WebTyped, PastType
    <3> QED
      BY <1>1, <1>2, <2>1, <2>2, <2>3, <3>1 DEF HealthsOk, StartFails, ProcessEnds
  <2>4. CASE ~StartFails
    <3>1. past'.robbed = past.robbed
      BY <1>13, <2>4, OtherSteps DEF Boot, Web, WebDone, Open, Services, Routes, WebCrashes,
         WebFault, Stop, Released, Over, vars, Typed, WebTyped, PastType
    <3>3. past.robbed => past'.robbed
      BY <3>1
    <3>2. \/ step' = step /\ kept' = kept
          \/ /\ step \notin {"healthCreate", "healthRestore"}
             /\ \/ step' \in {"none", "web", "open", "health"}
                \/ step \in {"services", "routes"} /\ step' \in {"routes", "serving"}
      BY <1>13, <2>4, OtherSteps DEF Boot, Web, WebDone, Open, Services, Routes, WebCrashes,
         WebFault, Stop, Released, ProcessEnds, vars, migrationVars
    <3> QED
      <4>1. CASE step' = step /\ kept' = kept
        BY <1>1, <1>2, <2>1, <2>2, <3>3, <4>1 DEF HealthsOk
      <4>2. CASE step \notin {"healthCreate", "healthRestore"} /\ step' \in {"none", "web", "open", "health"}
        BY <1>1, <1>2, <2>1, <2>2, <3>3, <4>2 DEF HealthsOk
      <4>3. CASE step \in {"services", "routes"} /\ step' \in {"routes", "serving"}
        BY <1>1, <1>2, <2>1, <2>2, <3>3, <4>3 DEF HealthsOk
      <4> QED
        BY <3>2, <4>1, <4>2, <4>3
  <2> QED
    BY <2>3, <2>4
<1> SUFFICES ASSUME Database PROVE HealthsOk'
  BY <1>13
<1>0. past' = past
  BY MigrateSteps
<1>5. CASE HealthBackup
  <2>1. CASE db.healths.shape = "old"
    <3>1. db.healths.rows = origin.healths.rows
      BY <2>1 DEF HealthsOk
    <3>2. kept' = NewestRows
      BY <1>5, <2>1, <3>1 DEF HealthBackup, NewestRows
    <3> QED
      BY <1>2, <1>0, <1>5, <2>1, <3>1, <3>2 DEF HealthsOk, HealthBackup, Then
  <2>2. CASE db.healths.shape # "old"
    BY <1>2, <1>0, <1>5, <2>2 DEF HealthsOk, HealthBackup, Then
  <2> QED
    BY <2>1, <2>2
<1>6. CASE HealthDrop
  <2>1. db'.healths = [shape |-> "absent", rows |-> {}]
    BY <1>4, <1>6 DEF HealthDrop, Tables
  <2> QED
    BY <1>2, <1>0, <1>6, <2>1 DEF HealthsOk, HealthDrop, Then
<1>7. CASE HealthCreate
  <2>1. db'.healths.shape = "new" /\ db'.healths.rows = db.healths.rows
    BY <1>4, <1>7 DEF HealthCreate, Tables
  <2> QED
    BY <1>2, <1>0, <1>7, <2>1 DEF HealthsOk, HealthCreate, Then
<1>8. CASE HealthRestore
  <2>1. db'.healths.shape = db.healths.shape /\ db'.healths.rows = kept
    BY <1>4, <1>8 DEF HealthRestore, Tables
  <2> QED
    BY <1>2, <1>0, <1>3, <1>8, <2>1 DEF HealthsOk, HealthRestore, Then
<1>9. CASE Schema
  <2>1. /\ db'.healths.rows = db.healths.rows
        /\ db'.healths.shape = IF db.healths.shape = "absent" THEN "new" ELSE db.healths.shape
    BY <1>4, <1>9 DEF Schema, Tables
  <2>2. db.healths.shape \in {"absent", "new"}
    BY <1>4, <1>9 DEF Schema, Tables, HealthsOk
  <2> QED
    BY <1>2, <1>0, <1>9, <2>1, <2>2 DEF HealthsOk, Schema, Then
<1>10. CASE CleanOrphan
  <2>1. PICK row \in Orphans : db' = [db EXCEPT !.healths.rows = @ \ {row}]
    BY <1>10 DEF CleanOrphan
  <2>2. db'.healths.shape = db.healths.shape /\ db'.healths.rows = db.healths.rows \ {row}
    BY <1>4, <2>1 DEF Tables
  <2>3. row \notin Retained
    BY <1>4, OrphanRows
  <2> QED
    BY <1>2, <1>0, <1>10, <2>2, <2>3 DEF HealthsOk, CleanOrphan
<1>11. CASE Migrated
  <2>1. UNCHANGED <<db, kept>> /\ step = "orphans" /\ step' = "services" /\ Orphans = {}
    BY <1>11 DEF Migrated, Then
  <2>2. Orphans' = {}
    BY <1>1, <2>1, SameOrphans
  <2> QED
    BY <1>2, <1>0, <2>1, <2>2 DEF HealthsOk
<1>12. CASE Migrate /\ ~(HealthBackup \/ HealthDrop \/ HealthCreate \/ HealthRestore \/ Schema
                      \/ CleanOrphan \/ Migrated)
  <2>1. db'.healths = db.healths
    BY <1>4, <1>12 DEF Migrate, SchemaLogs, FormatRead, FormatRow, FormatDrop, Links, EndpointsRead,
       EndpointRow, DropProvider, DropVariant, DropHeaders, LogsFill, LogsDrop, Tables
  <2>2. /\ UNCHANGED kept
        /\ step \in FromSchemaLogs \ {"services", "routes", "serving"}
        /\ step' \in FromSchemaLogs \ {"services", "routes", "serving"}
    BY <1>12 DEF Migrate, SchemaLogs, FormatRead, FormatRow, FormatDrop, Links, EndpointsRead,
       EndpointRow, DropProvider, DropVariant, DropHeaders, LogsFill, LogsDrop, Then
  <2> QED
    BY <1>0, <1>1, <2>1, <2>2, HealthsAside
<1> QED
  BY <1>5, <1>6, <1>7, <1>8, <1>9, <1>10, <1>11, <1>12 DEF Migrate, Database

LEMMA HealthsInit == ASSUME Init PROVE HealthsOk
<1>1. origin = db /\ step = "none" /\ (db = Fresh \/ OldDatabase)
  BY DEF Init, MigrationInit
<1>2. CASE db = Fresh
  BY <1>1, <1>2 DEF HealthsOk, Fresh, NewestRows, Retained, FromSchema, FromSchemaLogs, FromFormat,
     FromVariant, FromLogs, FromOrphans
<1>3. CASE OldDatabase
  <2>1. db.healths.shape = "old"
    <3>1. PICK H \in OldHealths, columns \in SUBSET (OldColumns \cup {"format"}),
               rows \in [Platforms -> PlatformRow] : db = Old(H, columns, rows)
      BY <1>3, OldOnes
    <3> QED
      BY <3>1 DEF Old
  <2> QED
    BY <1>1, <2>1 DEF HealthsOk, FromSchema, FromSchemaLogs, FromFormat, FromVariant, FromLogs,
       FromOrphans
<1> QED
  BY <1>1, <1>2, <1>3

-----------------------------------------------------------------------------
(* The frontend directory. *)

\* What a statement that fails in InitializeWeb leaves of the directory.
LEMMA TornEarns ==
  ASSUME WebTyped, WebOk, NEW d \in Torn, NEW e \in Tidied(d)
  PROVE  /\ e.version <= latest
         /\ e.version = latest => e.files = [of |-> latest, whole |-> TRUE]
<1> USE DEF WebTyped, DirType, WebType
<1>1. e.files \in {dir.files, [dir.files EXCEPT !.whole = FALSE]}
  BY DEF Torn, Tidied
<1>2. e.version \in {dir.version, Unreadable} /\ d.version \in {dir.version, Unreadable}
  BY DEF Torn, Tidied
<1>3. web.step \in Under \/ e = dir
  BY DEF Torn, Tidied, Under
<1>4. CASE web.step \in Under
  BY <1>2, <1>4, ReleasesExist DEF WebOk, Unreadable
<1>5. CASE e = dir
  BY <1>5 DEF WebOk, VersionIsEarned
<1> QED
  BY <1>3, <1>4, <1>5

\* The statements of InitializeWeb that go through.
LEMMA WebStatements ==
  ASSUME Typed, WebTyped', WebOk, Web PROVE WebOk'
<1> USE DEF WebTyped, DirType, WebType, Under
<1>1. /\ WebTyped /\ UNCHANGED <<step, check, past, latest>> /\ step = "web"
      /\ WebRead(check) \/ InstallOrUpdate
  BY WebStatementTyped DEF Web, Typed, migrationVars
<1>2. latest > NoVersion /\ Unreadable < NoVersion
  BY <1>1, ReleasesExist DEF NoVersion, Unreadable
<1>3. CASE WebRead(check)
  BY <1>1, <1>3 DEF WebRead, Returns, WebOk, VersionIsEarned, Empty, NoFiles
<1>4. CASE WebRelease
  <2>0. UNCHANGED <<dir, latest>> /\ web.step = "release"
    BY <1>4 DEF WebRelease
  <2>1. CASE web.mode = "update" /\ CurrentVersion = latest
    <3>1. dir.version = latest
      BY <1>1, <1>2, <2>1 DEF CurrentVersion
    <3>2. Repaired
      BY <1>1, <3>1 DEF WebOk, VersionIsEarned, Repaired
    <3>3. Repaired' /\ VersionIsEarned'
      BY <1>1, <2>0, <3>2 DEF Repaired, WebOk, VersionIsEarned
    <3>4. web'.step = "off"
      BY <1>1, <1>4, <2>1 DEF WebRelease, Returns
    <3> QED
      BY <1>1, <2>0, <3>3, <3>4 DEF WebOk
  <2>2. CASE ~(web.mode = "update" /\ CurrentVersion = latest)
    <3>1. dir.version < latest
      BY <1>1, <1>2, <2>0, <2>2 DEF CurrentVersion, WebOk, Unreadable, NoVersion
    <3>2. web'.target = latest /\ web'.step \in {"clear", "download"}
      BY <1>1, <1>4, <2>2 DEF WebRelease
    <3> QED
      BY <1>1, <2>0, <3>1, <3>2 DEF WebOk, VersionIsEarned
  <2> QED
    BY <2>1, <2>2
<1>5. CASE WebClear
  BY <1>1, <1>5 DEF WebClear, WebOk, VersionIsEarned
<1>6. CASE WebCleared
  BY <1>1, <1>6 DEF WebCleared, WebGoes, WebOk, VersionIsEarned
<1>7. CASE WebDownload
  BY <1>1, <1>7 DEF WebDownload, WebGoes, WebOk, VersionIsEarned
<1>8. CASE WebUnzip
  BY <1>1, <1>8 DEF WebUnzip, WebGoes, WebOk, VersionIsEarned
<1>9. CASE WebUnzipRest
  <2>1. /\ dir'.files = [of |-> web.target, whole |-> TRUE] /\ dir'.version = dir.version
        /\ web' = [web EXCEPT !.step = "remove"] /\ web.step = "unzipRest"
    BY <1>1, <1>9 DEF WebUnzipRest, WebGoes, WebOk
  <2> QED
    BY <1>1, <2>1 DEF WebOk, VersionIsEarned
<1>10. CASE WebRemove
  BY <1>1, <1>10 DEF WebRemove, WebGoes, WebOk, VersionIsEarned
<1>11. CASE WebSave
  <2>1. /\ dir'.version = web.target /\ dir'.files = [of |-> web.target, whole |-> TRUE]
        /\ web'.step = "off" /\ past.seen <= web.target /\ web.target <= latest
    BY <1>1, <1>11 DEF WebSave, Returns, WebOk
  <2>2. Repaired' /\ VersionIsEarned'
    BY <1>1, <2>1 DEF Repaired, VersionIsEarned, WebOk
  <2> QED
    BY <1>1, <2>1, <2>2 DEF WebOk
<1> QED
  BY <1>1, <1>3, <1>4, <1>5, <1>6, <1>7, <1>8, <1>9, <1>10, <1>11 DEF InstallOrUpdate

\* A process that ends leaves nothing but the directory.
LEMMA WebEnds ==
  ASSUME Typed, Typed', WebOk, ProcessEnds, past'.seen = 1,
         dir' = dir \/ \E d \in Torn : dir' \in Tidied(d)
  PROVE  WebOk'
<1>1. /\ web'.step = "off" /\ step' = "none" /\ latest' = latest /\ latest' >= 1
      /\ WebTyped
  BY DEF ProcessEnds, WebIdle, Typed, WebTyped
<1>2. check' = FALSE
  BY DEF ProcessEnds
<1>3. dir'.version <= latest /\ (dir'.version = latest => dir'.files = [of |-> latest, whole |-> TRUE])
  BY <1>1, TornEarns DEF WebOk, VersionIsEarned
<1> QED
  BY <1>1, <1>2, <1>3 DEF WebOk, VersionIsEarned, Under

LEMMA WebStep == ASSUME Typed, Typed', WebOk, [Next]_vars PROVE WebOk'
<1> USE DEF Under
<1>0. WebTyped /\ WebTyped'
  BY DEF Typed
<1>1. CASE Database
  BY <1>1, MigrateSteps DEF WebOk, Repaired, VersionIsEarned
<1>2. ASSUME NEW enableWeb \in BOOLEAN, NEW checkUpdate \in BOOLEAN, Boot(enableWeb, checkUpdate)
      PROVE  WebOk'
  <2>1. /\ UNCHANGED <<dir, latest>> /\ past'.seen = latest /\ step' \in {"web", "open"}
        /\ web'.step \in {"read", "off"} /\ (web'.step = "off" => ~web'.enabled)
        /\ (step' = "open" => web'.step = "off")
    BY <1>0, <1>2 DEF Boot, WebTyped, PastType, WebIdle
  <2> QED
    BY <1>0, <2>1 DEF WebOk, VersionIsEarned, WebTyped
<1>3. CASE Web
  BY <1>0, <1>3, WebStatements
<1>4. CASE WebDone \/ Open \/ Services
  <2>1. /\ UNCHANGED <<dir, latest, web, check, past>> /\ step' \notin {"none", "web"}
        /\ step = "web" => web.step = "off"
    BY <1>4 DEF WebDone, Open, Services, frontendVars
  <2> QED
    BY <2>1 DEF WebOk, Repaired, VersionIsEarned
<1>5. CASE Routes
  <2>1. UNCHANGED <<dir, latest, web, check>> /\ step = "routes" /\ step' = "serving"
    BY <1>5 DEF Routes, frontendVars
  <2>2. past'.seen = past.seen /\ (past.faulty => past'.faulty) /\ (past'.faulty => past.faulty)
    BY <1>0, <1>5 DEF Routes, WebTyped, PastType
  <2> QED
    BY <2>1, <2>2 DEF WebOk, Repaired, VersionIsEarned
<1>6. CASE StartFails
  <2>1. past'.seen = 1 /\ ProcessEnds /\ dir' = dir
    BY <1>0, <1>6 DEF StartFails, Over, WebTyped, PastType
  <2> QED
    BY <2>1, WebEnds
<1>7. CASE WebCrashes
  <2>1. past'.seen = 1 /\ ProcessEnds /\ dir' \in Torn
    BY <1>0, <1>7 DEF WebCrashes, Over, WebTyped, PastType
  <2>2. dir' \in Tidied(dir')
    BY DEF Tidied
  <2> QED
    BY <2>1, <2>2, WebEnds
<1>8. CASE WebFault
  <2>1. UNCHANGED <<latest, check, step>> /\ past'.seen = past.seen /\ step = "web"
    BY <1>0, <1>8 DEF WebFault, WebFails, WebWarns, migrationVars, WebTyped, PastType
  <2>2. past'.faulty
    BY <1>0, <1>8 DEF WebFault, WebTyped, PastType
  <2>3. CASE WebFails
    <3>1. web'.step = "off" /\ \E d \in Torn : dir' \in Tidied(d)
      BY <1>0, <2>3 DEF WebFails, WebFailed, WebTyped, WebType
    <3>2. dir'.version <= latest /\ (dir'.version = latest => dir'.files = [of |-> latest, whole |-> TRUE])
      BY <1>0, <3>1, TornEarns
    <3> QED
      BY <2>1, <2>2, <3>1, <3>2 DEF WebOk, VersionIsEarned
  <2>4. CASE WebWarns /\ web.step = "remove"
    <3>1. dir' = dir /\ web' = [web EXCEPT !.step = "save"]
      BY <2>4 DEF WebWarns, Torn, WebGoes
    <3> QED
      BY <1>0, <2>1, <2>2, <2>4, <3>1 DEF WebOk, VersionIsEarned, WebTyped, WebType
  <2>5. CASE WebWarns /\ web.step = "save"
    <3>1. web'.step = "off" /\ dir' \in Torn
      BY <1>0, <2>5 DEF WebWarns, Returns, WebTyped, WebType
    <3>2. dir' \in Tidied(dir')
      BY DEF Tidied
    <3>3. dir'.version <= latest /\ (dir'.version = latest => dir'.files = [of |-> latest, whole |-> TRUE])
      BY <1>0, <3>1, <3>2, TornEarns
    <3> QED
      BY <2>1, <2>2, <3>1, <3>3 DEF WebOk, VersionIsEarned
  <2> QED
    BY <1>8, <2>3, <2>4, <2>5 DEF WebFault, WebWarns
<1>9. CASE Stop
  <2>1. past'.seen = 1 /\ ProcessEnds /\ dir' = dir
    BY <1>0, <1>9 DEF Stop, Over, WebTyped, PastType
  <2> QED
    BY <2>1, WebEnds
<1>10. CASE Released
  <2>1. latest' = latest + 1 /\ UNCHANGED <<dir, web, step, check, past>>
    BY <1>10 DEF Released, Publish, migrationVars
  <2> QED
    BY <1>0, <2>1 DEF WebOk, VersionIsEarned, Repaired, WebTyped, DirType, WebType, PastType, Unreadable
<1>11. CASE UNCHANGED vars
  BY <1>11 DEF vars, frontendVars, migrationVars, WebOk, Repaired, VersionIsEarned
<1> QED
  BY <1>1, <1>2, <1>3, <1>4, <1>5, <1>6, <1>7, <1>8, <1>9, <1>10, <1>11, OtherSteps

LEMMA WebInit == ASSUME Init PROVE WebOk
<1>1. /\ dir = [version |-> NoVersion, files |-> NoFiles, zip |-> FALSE] /\ latest = 1
      /\ web = WebIdle /\ check = FALSE /\ past.seen = 1 /\ step = "none"
  BY DEF Init, FrontendInit, MigrationInit
<1>2. 1 \in 1..MaxRelease
  BY ReleasesExist
<1> QED
  BY <1>1 DEF WebOk, VersionIsEarned, WebIdle, NoVersion, Under

-----------------------------------------------------------------------------
(* The columns and the endpoints. *)

\* A platform's endpoints before and after one is appended for platform q.
LEMMA OneMore ==
  ASSUME Typed, Typed', NEW q \in DOMAIN origin.platforms,
         db'.endpoints = Append(db.endpoints, Converse(q)),
         NEW p \in DOMAIN origin.platforms
  PROVE  /\ EndpointsOf(p)' = EndpointsOf(p) \cup (IF p = q THEN {Len(db.endpoints) + 1} ELSE {})
         /\ Cardinality(EndpointsOf(p)') = Cardinality(EndpointsOf(p)) + (IF p = q THEN 1 ELSE 0)
         /\ Cardinality(EndpointsOf(p)) \in Nat
<1> DEFINE n == Len(db.endpoints)
<1>1. db.endpoints \in Seq(EndpointRecord) /\ db'.endpoints \in Seq(EndpointRecord)
  BY DEF Typed, Tables
<1>2. /\ n \in Nat /\ DOMAIN db.endpoints = 1..n /\ DOMAIN db'.endpoints = 1..(n + 1)
      /\ \A i \in 1..n : db'.endpoints[i] = db.endpoints[i]
      /\ db'.endpoints[n + 1] = Converse(q) /\ Converse(q).platform = q
  BY <1>1 DEF Converse
<1> HIDE DEF n
<1>3. EndpointsOf(p)' = EndpointsOf(p) \cup (IF p = q THEN {n + 1} ELSE {})
  BY <1>2 DEF EndpointsOf
<1>4. IsFiniteSet(EndpointsOf(p)) /\ n + 1 \notin EndpointsOf(p)
  <2>1. EndpointsOf(p) \subseteq 1..n
    BY <1>2 DEF EndpointsOf
  <2> QED
    <3>1. IsFiniteSet(1..n)
      BY <1>2, FS_Interval
    <3>2. IsFiniteSet(EndpointsOf(p))
      BY <2>1, <3>1, FS_Subset
    <3> QED
      BY <1>2, <2>1, <3>2
<1>5. Cardinality(EndpointsOf(p)) \in Nat
  BY <1>4, FS_CardinalityType
<1>6. CASE p = q
  BY <1>3, <1>4, <1>5, <1>6, FS_AddElement DEF n
<1>7. CASE p # q
  <2>1. EndpointsOf(p)' = EndpointsOf(p)
    BY <1>3, <1>7
  <2> QED
    BY <1>5, <1>7, <2>1 DEF n
<1> QED
  BY <1>6, <1>7

\* Nothing moves: what the endpoints are does not change.
LEMMA NoneMore ==
  ASSUME UNCHANGED origin, db'.endpoints = db.endpoints, NEW p
  PROVE  /\ EndpointsOf(p)' = EndpointsOf(p)
         /\ Described(p)' = Described(p) /\ Converse(p)' = Converse(p)
         /\ Converted(p)' = Converted(p)
BY DEF EndpointsOf, Described, Converse, Converted

\* Where the columns and the next statement can go together.
LEMMA ColumnsStep == ASSUME Typed, Typed', ColumnsOk, [Next]_vars PROVE ColumnsOk'
<1> USE DEF FromVariant, FromLogs, FromOrphans, OldColumns
<1>1. UNCHANGED origin
  BY OtherSteps, MigrateSteps
<1>2. db \in Tables /\ DOMAIN db.platforms = DOMAIN origin.platforms
  BY DEF Typed, Tables
<1>3. CASE ~Database
  <2>1. UNCHANGED db
    BY <1>3, OtherSteps
  <2>2. \/ step' = step
        \/ step' \in {"none", "web", "open", "health"}
        \/ step \in {"services", "routes"} /\ step' \in {"routes", "serving"}
    BY <1>3, OtherSteps DEF Boot, Web, WebDone, Open, Services, Routes, StartFails, WebCrashes,
       WebFault, Stop, Released, ProcessEnds, vars, migrationVars
  <2> QED
    BY <1>1, <2>1, <2>2 DEF ColumnsOk
<1>4. CASE FormatRead
  BY <1>1, <1>4 DEF FormatRead, Then, ColumnsOk
<1>5. CASE FormatDrop
  <2>1. db'.columns = db.columns \ {"format"}
    BY <1>2, <1>5 DEF FormatDrop, Tables
  <2> QED
    BY <1>1, <1>5, <2>1 DEF FormatDrop, Then, ColumnsOk
<1>6. CASE EndpointsRead
  BY <1>1, <1>6 DEF EndpointsRead, Then, ColumnsOk
<1>7. CASE DropProvider
  <2>1. db'.columns = db.columns \ {"provider"}
    BY <1>2, <1>7 DEF DropProvider, Tables
  <2> QED
    BY <1>1, <1>7, <2>1 DEF DropProvider, Then, ColumnsOk
<1>8. CASE DropVariant
  <2>1. db'.columns = db.columns \ {"variant"}
    BY <1>2, <1>8 DEF DropVariant, Tables
  <2> QED
    BY <1>1, <1>8, <2>1 DEF DropVariant, Then, ColumnsOk
<1>9. CASE DropHeaders
  <2>1. db'.columns = db.columns \ {"custom_headers"}
    BY <1>2, <1>9 DEF DropHeaders, Tables
  <2> QED
    BY <1>1, <1>9, <2>1 DEF DropHeaders, Then, ColumnsOk
<1>10. CASE Migrate /\ ~(FormatRead \/ FormatDrop \/ EndpointsRead \/ DropProvider \/ DropVariant
                         \/ DropHeaders)
  <2>1. db'.columns = db.columns
    BY <1>2, <1>10 DEF Migrate, HealthBackup, HealthDrop, HealthCreate, HealthRestore, Schema,
       SchemaLogs, FormatRow, Links, EndpointRow, LogsFill, LogsDrop, CleanOrphan, Migrated, Tables
  <2>2. \/ step' = step
        \/ step' \notin (FromVariant \cup {"formatRow", "endpointRow"})
        \/ step \in FromVariant /\ step' \in FromVariant
    BY <1>10 DEF Migrate, HealthBackup, HealthDrop, HealthCreate, HealthRestore, Schema,
       SchemaLogs, FormatRow, Links, EndpointRow, LogsFill, LogsDrop, CleanOrphan, Migrated, Then
  <2> QED
    BY <1>1, <2>1, <2>2 DEF ColumnsOk
<1> QED
  BY <1>3, <1>4, <1>5, <1>6, <1>7, <1>8, <1>9, <1>10 DEF Database

\* A statement that moves nothing of a platform.
LEMMA SamePlatform ==
  ASSUME UNCHANGED origin, db'.platforms = db.platforms, db'.columns = db.columns,
         db'.endpoints = db.endpoints, NEW p
  PROVE  /\ EndpointsOf(p)' = EndpointsOf(p)
         /\ StillInRow(p)' = StillInRow(p) /\ Moved(p)' = Moved(p)
         /\ Converse(p)' = Converse(p) /\ Converted(p)' = Converted(p)
<1>1. /\ EndpointsOf(p)' = EndpointsOf(p) /\ Described(p)' = Described(p)
      /\ Converse(p)' = Converse(p) /\ Converted(p)' = Converted(p)
  BY NoneMore
<1> QED
  BY <1>1 DEF StillInRow, Moved

\* Such a statement, when no more is asked after it than before.
LEMMA PlatformAside ==
  ASSUME Typed, NEW p \in DOMAIN origin.platforms, PlatformOk(p), UNCHANGED origin,
         db'.platforms = db.platforms, db'.columns = db.columns, db'.endpoints = db.endpoints,
         past'.recut = past.recut,
         step \notin {"formatRow", "endpointRow"}, step' \notin {"formatRow", "endpointRow"},
         step' \in {"links", "endpoints"} /\ "provider" \in db.columns => Moved(p)
  PROVE  PlatformOk(p)'
<1>1. /\ EndpointsOf(p)' = EndpointsOf(p)
      /\ StillInRow(p)' = StillInRow(p) /\ Moved(p)' = Moved(p)
      /\ Converse(p)' = Converse(p) /\ Converted(p)' = Converted(p)
  BY SamePlatform
<1> QED
  BY <1>1 DEF PlatformOk

\* Such a statement, with what the next one asks of the platform.
LEMMA PlatformStays ==
  ASSUME NEW p, PlatformOk(p), UNCHANGED origin,
         db'.platforms = db.platforms, db'.columns = db.columns, db'.endpoints = db.endpoints,
         step' \in {"links", "endpoints", "endpointRow"} /\ "provider" \in db.columns => Moved(p),
         step' = "formatRow" /\ p \notin todo' => Moved(p),
         step' = "endpointRow" /\ p \notin todo' => Converted(p),
         Cardinality(EndpointsOf(p)) <= past'.recut + 1,
         "provider" \in db.columns /\ (step' = "endpointRow" => p \in todo') =>
           Cardinality(EndpointsOf(p)) <= past'.recut
  PROVE  PlatformOk(p)'
<1>1. /\ EndpointsOf(p)' = EndpointsOf(p)
      /\ StillInRow(p)' = StillInRow(p) /\ Moved(p)' = Moved(p)
      /\ Converse(p)' = Converse(p) /\ Converted(p)' = Converted(p)
  BY SamePlatform
<1>2. \A i \in DOMAIN db'.endpoints : db'.endpoints[i].platform = p => db'.endpoints[i] = Converse(p)'
  BY <1>1 DEF PlatformOk
<1>3. /\ Cardinality(EndpointsOf(p)') <= past'.recut + 1
      /\ "provider" \in db'.columns /\ (step' = "endpointRow" => p \in todo') =>
           Cardinality(EndpointsOf(p)') <= past'.recut
  BY <1>1
<1>4. "provider" \notin db.columns => Converted(p)
  BY DEF PlatformOk
<1>5. /\ db.platforms[p].format \in {origin.platforms[p].format, ""}
      /\ "provider" \in db.columns => StillInRow(p)
  BY DEF PlatformOk
<1> QED
  BY <1>1, <1>2, <1>3, <1>4, <1>5 DEF PlatformOk

LEMMA FormatRowStep ==
  ASSUME Typed, Typed', ColumnsOk, NEW q \in todo, FormatRow(q), UNCHANGED <<origin, past>>,
         NEW p \in DOMAIN origin.platforms, PlatformOk(p)
  PROVE  PlatformOk(p)'
<1>1. /\ DOMAIN db.platforms = DOMAIN origin.platforms /\ db.platforms[p] \in PlatformRow
      /\ origin.platforms[p] \in PlatformRow
  BY DEF Typed, Tables
<1>2. /\ step = "formatRow" /\ step' = "formatRow" /\ {"format", "provider"} \subseteq db.columns
      /\ todo' = todo \ {q}
  BY DEF FormatRow, ColumnsOk
<1> DEFINE row == [db.platforms[q] EXCEPT !.provider = db.platforms[q].format,
                       !.variant = DefaultVariant(db.platforms[q].format)]
           kept1 == db.platforms[q].provider # "" \/ db.platforms[q].format = ""
<1>0. q \in DOMAIN origin.platforms /\ db.platforms[q] \in PlatformRow
  BY DEF Typed, Tables
<1>7. kept1 => UNCHANGED db
  BY DEF FormatRow
<1>8. ~kept1 => db' = [db EXCEPT !.platforms = [db.platforms EXCEPT ![q] = row]]
  <2>1. "platforms" \in DOMAIN db /\ q \in DOMAIN db.platforms
    BY <1>0, <1>1 DEF Typed, Tables
  <2> DEFINE f == db.platforms[q].format
             v == DefaultVariant(f)
  <2>2. Refilled(db, q, f, v)
          = WithRow(db, q, row)
    <3> HIDE DEF f, v
    <3>1. row = NewRow(db.platforms[q], f, v)
      BY DEF f, v, NewRow
    <3> HIDE DEF row
    <3> QED
      BY <1>0, <2>1, <3>1, RowUpdate
  <2>3. ~kept1 => db' = Refilled(db, q, f, v)
    BY DEF FormatRow, Refilled
  <2> HIDE DEF row, f, v, kept1
  <2> QED
    BY <2>2, <2>3 DEF WithRow
<1>9. /\ row.format = db.platforms[q].format /\ row.provider = db.platforms[q].format
      /\ row.variant = DefaultVariant(db.platforms[q].format)
  BY <1>0 DEF PlatformRow
<1> HIDE DEF row
<1>10. /\ ~kept1 => db'.platforms = [db.platforms EXCEPT ![q] = row]
       /\ DOMAIN db.platforms = DOMAIN origin.platforms
  BY <1>8 DEF Typed, Tables
<1>3. db'.endpoints = db.endpoints /\ db'.columns = db.columns
  BY <1>7, <1>8 DEF Typed, Tables
<1> HIDE DEF kept1
<1>4. /\ EndpointsOf(p)' = EndpointsOf(p) /\ Described(p)' = Described(p)
      /\ Converse(p)' = Converse(p) /\ Converted(p)' = Converted(p)
  BY <1>3, NoneMore
<1>5. CASE p # q
  <2>1. db'.platforms[p] = db.platforms[p]
    BY <1>1, <1>5, <1>7, <1>10
  <2>2. StillInRow(p)' = StillInRow(p) /\ Moved(p)' = Moved(p)
    BY <1>3, <1>4, <2>1 DEF StillInRow, Moved
  <2> QED
    BY <1>2, <1>3, <1>4, <1>5, <2>1, <2>2 DEF PlatformOk
<1>6. CASE p = q
  <2>1. StillInRow(p) /\ db.platforms[p].format \in {origin.platforms[p].format, ""}
    BY <1>2 DEF PlatformOk
  <2>2. Moved(p)' /\ db'.platforms[p].format = db.platforms[p].format
    <3>1. CASE kept1
      <4>1. UNCHANGED db
        BY <1>7, <3>1
      <4>2. Moved(p)
        BY <1>6, <2>1, <3>1 DEF StillInRow, Moved, Described, kept1
      <4> QED
        BY <1>4, <4>1, <4>2 DEF Moved
    <3>2. CASE ~kept1
      <4>1. /\ db'.platforms[p].provider = db.platforms[p].format
            /\ db'.platforms[p].variant = DefaultVariant(db.platforms[p].format)
            /\ db'.platforms[p].format = db.platforms[p].format
        BY <1>0, <1>6, <1>9, <1>10, <3>2
      <4>2. Described(p) = <<db.platforms[p].format, DefaultVariant(db.platforms[p].format)>>
        BY <1>6, <2>1, <3>2 DEF StillInRow, Described, kept1
      <4> QED
        BY <1>4, <4>1, <4>2 DEF Moved
    <3> QED
      BY <3>1, <3>2
  <2>3. StillInRow(p)'
    BY <1>2, <1>3, <2>2 DEF StillInRow, Moved
  <2> QED
    BY <1>2, <1>3, <1>4, <2>1, <2>2, <2>3 DEF PlatformOk
<1> QED
  BY <1>5, <1>6

LEMMA EndpointRowStep ==
  ASSUME Typed, Typed', ColumnsOk, NEW q \in todo, EndpointRow(q), UNCHANGED <<origin, past>>,
         NEW p \in DOMAIN origin.platforms, PlatformOk(p), PlatformOk(q)
  PROVE  PlatformOk(p)'
<1>1. /\ step = "endpointRow" /\ step' = "endpointRow" /\ "provider" \in db.columns
      /\ todo' = todo \ {q} /\ q \in DOMAIN origin.platforms
  BY DEF EndpointRow, ColumnsOk, OldColumns, Typed
<1>2. /\ db'.platforms = db.platforms /\ db'.columns = db.columns
      /\ db'.endpoints = Append(db.endpoints, DefaultEndpoint(q))
  BY DEF EndpointRow, Typed, Tables
<1>3. DefaultEndpoint(q) = Converse(q)
  <2>1. <<db.platforms[q].provider, db.platforms[q].variant>> = Described(q)
    BY <1>1 DEF PlatformOk, Moved
  <2>2. db.platforms[q].provider = Described(q)[1] /\ db.platforms[q].variant = Described(q)[2]
    BY <2>1
  <2> QED
    BY <2>2 DEF DefaultEndpoint, Converse
<1>4. /\ EndpointsOf(p)' = EndpointsOf(p) \cup (IF p = q THEN {Len(db.endpoints) + 1} ELSE {})
      /\ Cardinality(EndpointsOf(p)') = Cardinality(EndpointsOf(p)) + (IF p = q THEN 1 ELSE 0)
      /\ Cardinality(EndpointsOf(p)) \in Nat
  BY <1>1, <1>2, <1>3, OneMore
<1>5. Described(p)' = Described(p) /\ Converse(p)' = Converse(p)
  BY DEF Described, Converse
<1>6. StillInRow(p)' = StillInRow(p) /\ Moved(p)' = Moved(p)
  BY <1>2, <1>5 DEF StillInRow, Moved
<1>7. /\ Len(db.endpoints) \in Nat
      /\ DOMAIN db.endpoints = 1..Len(db.endpoints)
      /\ DOMAIN db'.endpoints = 1..(Len(db.endpoints) + 1)
      /\ \A i \in DOMAIN db.endpoints : db'.endpoints[i] = db.endpoints[i]
      /\ db'.endpoints[Len(db.endpoints) + 1] = Converse(q) /\ Converse(q).platform = q
  BY <1>2, <1>3 DEF Typed, Tables, Converse
<1>8. \A i \in DOMAIN db'.endpoints : db'.endpoints[i].platform = p => db'.endpoints[i] = Converse(p)
  <2>1. \A i \in DOMAIN db.endpoints : db.endpoints[i].platform = p => db.endpoints[i] = Converse(p)
    BY DEF PlatformOk
  <2> QED
    BY <1>7, <2>1
<1>9. Converted(p)' <=> Converted(p) \/ p = q
  BY <1>5, <1>7, <1>8 DEF Converted, Converse
<1>10. past.recut \in Nat
  BY FaultsAreBounded DEF Typed, WebTyped, PastType
<1>11. Cardinality(EndpointsOf(p)') <= past.recut + 1
       /\ (p \in todo' => Cardinality(EndpointsOf(p)') <= past.recut)
  <2>1. /\ Cardinality(EndpointsOf(p)) <= past.recut + 1
        /\ p \in todo => Cardinality(EndpointsOf(p)) <= past.recut
    BY <1>1 DEF PlatformOk
  <2>2. CASE p = q
    BY <1>1, <1>4, <1>10, <2>1, <2>2
  <2>3. CASE p # q
    BY <1>1, <1>4, <1>10, <2>1, <2>3
  <2> QED
    BY <2>2, <2>3
<1> QED
  BY <1>1, <1>2, <1>5, <1>6, <1>8, <1>9, <1>11 DEF PlatformOk

LEMMA FormatDropStep ==
  ASSUME Typed, Typed', ColumnsOk, FormatDrop, UNCHANGED <<origin, past>>,
         NEW p \in DOMAIN origin.platforms, PlatformOk(p)
  PROVE  PlatformOk(p)'
<1>1. /\ step = "formatRow" /\ todo = {} /\ step' = "links" /\ "provider" \in db.columns
      /\ p \in DOMAIN db.platforms /\ db.platforms[p] \in PlatformRow
  BY DEF FormatDrop, Then, ColumnsOk, Typed, Tables
<1>2. /\ db'.endpoints = db.endpoints /\ db'.columns = db.columns \ {"format"}
      /\ db'.platforms[p] = [db.platforms[p] EXCEPT !.format = ""]
  BY <1>1 DEF FormatDrop, Typed, Tables
<1>3. /\ db'.platforms[p].format = "" /\ db'.platforms[p].provider = db.platforms[p].provider
      /\ db'.platforms[p].variant = db.platforms[p].variant
  BY <1>1, <1>2 DEF PlatformRow
<1>4. /\ EndpointsOf(p)' = EndpointsOf(p) /\ Described(p)' = Described(p)
      /\ Converse(p)' = Converse(p) /\ Converted(p)' = Converted(p)
  BY <1>2, NoneMore
<1>5. Moved(p)'
  BY <1>1, <1>3, <1>4 DEF PlatformOk, Moved
<1>6. StillInRow(p)'
  BY <1>1, <1>2, <1>5 DEF StillInRow, Moved
<1> QED
  BY <1>1, <1>2, <1>3, <1>4, <1>5, <1>6 DEF PlatformOk

\* The statements that drop an old column of a converted platform.
LEMMA DropsStep ==
  ASSUME Typed, Typed', ColumnsOk, DropProvider \/ DropVariant \/ DropHeaders,
         UNCHANGED <<origin, past>>,
         NEW p \in DOMAIN origin.platforms, PlatformOk(p)
  PROVE  PlatformOk(p)'
<1>1. p \in DOMAIN db.platforms /\ db.platforms[p] \in PlatformRow
  BY DEF Typed, Tables
<1>2. /\ db'.endpoints = db.endpoints /\ "provider" \notin db'.columns
      /\ db'.platforms[p].format = db.platforms[p].format
      /\ step' \in {"dropVariant", "dropHeaders", "logs"}
  <2>1. CASE DropProvider
    BY <1>1, <2>1 DEF DropProvider, Then, Typed, Tables, PlatformRow
  <2>2. CASE DropVariant
    BY <1>1, <2>2 DEF DropVariant, Then, ColumnsOk, FromVariant, Typed, Tables, PlatformRow
  <2>3. CASE DropHeaders
    BY <1>1, <2>3 DEF DropHeaders, Then, ColumnsOk, FromVariant, Typed, Tables, PlatformRow
  <2> QED
    BY <2>1, <2>2, <2>3
<1>3. /\ EndpointsOf(p)' = EndpointsOf(p) /\ Described(p)' = Described(p)
      /\ Converse(p)' = Converse(p) /\ Converted(p)' = Converted(p)
  BY <1>2, NoneMore
<1>4. Converted(p)
  BY DEF PlatformOk, ColumnsOk, DropProvider, DropVariant, DropHeaders, FromVariant
<1> QED
  BY <1>2, <1>3, <1>4 DEF PlatformOk

LEMMA PlatformStep ==
  ASSUME Typed, Typed', ColumnsOk, [Next]_vars,
         \A q \in DOMAIN origin.platforms : PlatformOk(q),
         NEW p \in DOMAIN origin.platforms
  PROVE  PlatformOk(p)'
<1>1. UNCHANGED origin
  BY OtherSteps, MigrateSteps
<1>2. PlatformOk(p) /\ todo \subseteq DOMAIN origin.platforms
  BY DEF Typed
<1>3. DOMAIN db.platforms = DOMAIN origin.platforms /\ past.recut \in Nat
  BY FaultsAreBounded DEF Typed, Tables, WebTyped, PastType
<1> DEFINE Same == /\ db'.platforms = db.platforms /\ db'.columns = db.columns
                   /\ db'.endpoints = db.endpoints
<1>4. CASE Same
  <2>1. EndpointsOf(p)' = EndpointsOf(p)
    BY <1>1, <1>4, SamePlatform
  <2>2. /\ StillInRow(p)' = StillInRow(p) /\ Moved(p)' = Moved(p)
        /\ Converse(p)' = Converse(p) /\ Converted(p)' = Converted(p)
    BY <1>1, <1>4, SamePlatform
  <2>3. CASE UNCHANGED <<step, todo>> /\ past'.recut = past.recut
    <3> USE DEF PlatformOk
    <3> QED
      BY <1>1, <1>2, <1>4, <2>3, PlatformStays
  <2>4. CASE StartFails
    <3>1. past'.recut = past.recut + (IF step = "endpointRow" THEN 1 ELSE 0) /\ step' = "none"
      BY <2>4 DEF StartFails, ProcessEnds, Over, Typed, WebTyped, PastType
    <3>2. Cardinality(EndpointsOf(p)) \in Nat
      <4>1. EndpointsOf(p) \subseteq 1..Len(db.endpoints) /\ Len(db.endpoints) \in Nat
        BY DEF EndpointsOf, Typed, Tables
      <4>2. IsFiniteSet(1..Len(db.endpoints))
        BY <4>1, FS_Interval
      <4>3. IsFiniteSet(EndpointsOf(p))
        BY <4>1, <4>2, FS_Subset
      <4> QED
        BY <4>3, FS_CardinalityType
    <3>3. /\ Cardinality(EndpointsOf(p)) <= past'.recut + 1
          /\ "provider" \in db.columns => Cardinality(EndpointsOf(p)) <= past'.recut
      <4> DEFINE c == Cardinality(EndpointsOf(p))
      <4>1. /\ c <= past.recut + 1
            /\ "provider" \in db.columns /\ step # "endpointRow" => c <= past.recut
        BY <1>2 DEF PlatformOk
      <4>2. c \in Nat
        BY <3>2
      <4> HIDE DEF c
      <4>3. c <= past'.recut + 1 /\ ("provider" \in db.columns => c <= past'.recut)
        BY <1>3, <3>1, <4>1, <4>2
      <4> QED
        BY <4>3 DEF c
    <3> QED
      BY <1>1, <1>2, <1>4, <3>1, <3>3, PlatformStays
  <2>5. CASE ~Database /\ ~StartFails
    <3>1. past'.recut = past.recut
      BY <2>5, OtherSteps DEF Boot, Web, WebDone, Open, Services, Routes, WebCrashes,
         WebFault, Stop, Released, Over, vars, Typed, WebTyped, PastType
    <3>2. \/ UNCHANGED <<step, todo>>
          \/ /\ step \in {"none", "web", "open", "services", "routes", "serving"}
             /\ step' \in {"none", "web", "open", "health", "routes", "serving"}
      BY <2>5, OtherSteps DEF Boot, Web, WebDone, Open, Services, Routes, WebCrashes,
         WebFault, Stop, Released, ProcessEnds, vars, migrationVars
    <3> QED
      BY <1>1, <1>2, <1>4, <2>3, <3>1, <3>2, PlatformAside
  <2>6. ASSUME Database PROVE PlatformOk(p)'
    <3>1. past' = past
      BY <2>6, MigrateSteps
    <3>2. CASE FormatRead
      <4>1. CASE {"format", "provider"} \subseteq db.columns
        BY <1>2, <1>3, <1>4, <2>1, <2>2, <3>1, <3>2, <4>1 DEF FormatRead, Then, PlatformOk
      <4>2. CASE ~({"format", "provider"} \subseteq db.columns)
        <5>1. step = "format" /\ step' = "links"
          BY <3>2, <4>2 DEF FormatRead, Then
        <5>2. "provider" \in db.columns => Moved(p)
          BY <1>2, <4>2 DEF PlatformOk, StillInRow, Moved
        <5> QED
          BY <1>1, <1>2, <1>4, <3>1, <5>1, <5>2, PlatformAside
      <4> QED
        BY <4>1, <4>2
    <3>3. CASE Links
      BY <1>1, <1>2, <1>4, <3>1, <3>3, PlatformAside DEF Links, Then, PlatformOk
    <3>4. CASE EndpointsRead
      <4>1. CASE OldColumns \subseteq db.columns
        <5>1. /\ step = "endpoints" /\ step' = "endpointRow" /\ todo' = DOMAIN origin.platforms
              /\ "provider" \in db.columns
          BY <1>3, <3>4, <4>1 DEF EndpointsRead, Then, OldColumns
        <5>2. /\ Moved(p) /\ p \in todo'
              /\ Cardinality(EndpointsOf(p)) <= past.recut + 1
              /\ "provider" \in db.columns => Cardinality(EndpointsOf(p)) <= past.recut
          BY <1>2, <5>1 DEF PlatformOk
        <5> QED
          BY <1>1, <1>2, <1>4, <3>1, <5>1, <5>2, PlatformStays
      <4>2. CASE ~(OldColumns \subseteq db.columns)
        <5>1. step = "endpoints" /\ step' = "logs"
          BY <3>4, <4>2 DEF EndpointsRead, Then
        <5> QED
          BY <1>1, <1>2, <1>4, <3>1, <5>1, PlatformAside
      <4> QED
        BY <4>1, <4>2
    <3>5. CASE Migrate /\ ~(FormatRead \/ (\E q \in todo : FormatRow(q)) \/ FormatDrop \/ Links
                \/ EndpointsRead \/ (\E q \in todo : EndpointRow(q))
                \/ DropProvider \/ DropVariant \/ DropHeaders)
      <4>1. /\ step \notin {"formatRow", "endpointRow"}
            /\ step' \notin {"formatRow", "endpointRow", "links", "endpoints"}
        BY <3>5 DEF Migrate, HealthBackup, HealthDrop, HealthCreate, HealthRestore, Schema,
           SchemaLogs, LogsFill, LogsDrop, CleanOrphan, Migrated, Then
      <4> QED
        BY <1>1, <1>2, <1>4, <3>1, <4>1, PlatformAside
    <3>6. ASSUME NEW q \in todo, FormatRow(q) PROVE PlatformOk(p)'
      BY <1>1, <1>2, <3>1, <3>6, FormatRowStep
    <3>7. CASE FormatDrop
      BY <1>1, <1>2, <3>1, <3>7, FormatDropStep
    <3>8. ASSUME NEW q \in todo, EndpointRow(q) PROVE PlatformOk(p)'
      BY <1>1, <1>2, <3>1, <3>8, EndpointRowStep
    <3>9. CASE DropProvider \/ DropVariant \/ DropHeaders
      BY <1>1, <1>2, <3>1, <3>9, DropsStep
    <3> QED
      BY <2>6, <3>2, <3>3, <3>4, <3>5, <3>6, <3>7, <3>8, <3>9 DEF Database
  <2> QED
    BY <2>4, <2>5, <2>6
<1>5. CASE ~Same
  <2>1. Database
    BY <1>5, OtherSteps
  <2>2. past' = past
    BY <2>1, MigrateSteps
  <2>3. \/ (\E q \in todo : FormatRow(q)) \/ FormatDrop \/ (\E q \in todo : EndpointRow(q))
        \/ DropProvider \/ DropVariant \/ DropHeaders
    <3>1. ASSUME HealthBackup \/ FormatRead \/ Links \/ EndpointsRead \/ Migrated PROVE Same
      BY <3>1 DEF HealthBackup, FormatRead, Links, EndpointsRead, Migrated
    <3>2. ASSUME HealthDrop \/ HealthCreate \/ HealthRestore \/ Schema \/ CleanOrphan PROVE Same
      BY <3>2 DEF HealthDrop, HealthCreate, HealthRestore, Schema, CleanOrphan, Typed, Tables
    <3>3. ASSUME SchemaLogs \/ LogsFill \/ LogsDrop PROVE Same
      BY <3>3 DEF SchemaLogs, LogsFill, LogsDrop, Typed, Tables
    <3> QED
      BY <1>5, <2>1, <3>1, <3>2, <3>3 DEF Database, Migrate
  <2>4. ASSUME NEW q \in todo, FormatRow(q) PROVE PlatformOk(p)'
    BY <1>1, <1>2, <2>2, <2>4, FormatRowStep
  <2>5. CASE FormatDrop
    BY <1>1, <1>2, <2>2, <2>5, FormatDropStep
  <2>6. ASSUME NEW q \in todo, EndpointRow(q) PROVE PlatformOk(p)'
    BY <1>1, <1>2, <2>2, <2>6, EndpointRowStep
  <2>7. CASE DropProvider \/ DropVariant \/ DropHeaders
    BY <1>1, <1>2, <2>2, <2>7, DropsStep
  <2> QED
    BY <2>3, <2>4, <2>5, <2>6, <2>7
<1> QED
  BY <1>4, <1>5

LEMMA PlatformsStep == ASSUME Typed, Typed', PlatformsOk, [Next]_vars PROVE PlatformsOk'
<1>1. UNCHANGED origin
  BY OtherSteps, MigrateSteps
<1>2. HasOldPlatforms' = HasOldPlatforms /\ DOMAIN origin'.platforms = DOMAIN origin.platforms
  BY <1>1 DEF HasOldPlatforms
<1>3. ColumnsOk'
  BY ColumnsStep DEF PlatformsOk
<1>4. ASSUME HasOldPlatforms, NEW p \in DOMAIN origin.platforms PROVE PlatformOk(p)'
  BY <1>4, PlatformStep DEF PlatformsOk
<1> QED
  BY <1>2, <1>3, <1>4 DEF PlatformsOk

LEMMA PlatformsInit == ASSUME Init, Typed PROVE PlatformsOk
<1>1. origin = db /\ step = "none" /\ (db = Fresh \/ OldDatabase) /\ past.recut = 0
  BY DEF Init, MigrationInit
<1>2. CASE db = Fresh
  BY <1>1, <1>2 DEF PlatformsOk, ColumnsOk, Fresh, HasOldPlatforms, OldColumns, FromVariant,
     FromLogs, FromOrphans
<1>3. CASE OldDatabase
  <2>1. PICK H \in OldHealths, columns \in SUBSET (OldColumns \cup {"format"}),
             rows \in [Platforms -> PlatformRow] :
          /\ db = Old(H, columns, rows)
          /\ columns \in {OldColumns, OldColumns \cup {"format"}, {"format"}}
          /\ columns = OldColumns => \A p \in Platforms : rows[p].format = ""
    BY <1>3, OldOnes
  <2>2. /\ db.columns = columns /\ db.platforms = rows /\ db.endpoints = <<>>
        /\ origin.columns = columns /\ origin.platforms = rows /\ DOMAIN rows = Platforms
    BY <1>1, <2>1 DEF Old
  <2>3. ColumnsOk
    BY <1>1, <2>1, <2>2 DEF ColumnsOk, OldColumns, FromVariant, FromLogs, FromOrphans
  <2>4. ASSUME HasOldPlatforms, NEW p \in Platforms PROVE PlatformOk(p)
    <3>1. "provider" \in columns /\ (columns = OldColumns \/ "format" \in columns)
      BY <2>1, <2>2, <2>4 DEF HasOldPlatforms, OldColumns
    <3>2. StillInRow(p)
      BY <2>1, <2>2, <3>1 DEF StillInRow, Described
    <3>3. EndpointsOf(p) = {}
      BY <2>2 DEF EndpointsOf
    <3>4. Cardinality(EndpointsOf(p)) = 0
      BY <3>3, FS_EmptySet
    <3> QED
      BY <1>1, <2>2, <3>1, <3>2, <3>4 DEF PlatformOk
  <2> QED
    BY <2>2, <2>3, <2>4 DEF PlatformsOk
<1> QED
  BY <1>1, <1>2, <1>3

-----------------------------------------------------------------------------
(* The request logs. *)

LEMMA LogsInit == ASSUME Init PROVE LogsOk
<1> USE DEF FromFormat, FromVariant, FromLogs, FromOrphans
<1>1. origin = db /\ step = "none" /\ (db = Fresh \/ OldDatabase)
  BY DEF Init, MigrationInit
<1>2. CASE db = Fresh
  BY <1>1, <1>2 DEF LogsOk, Fresh, NoLogs
<1>3. CASE OldDatabase
  <2>1. PICK H \in OldHealths, columns \in SUBSET (OldColumns \cup {"format"}),
             rows \in [Platforms -> PlatformRow] : db = Old(H, columns, rows)
    BY <1>3, OldOnes
  <2>2. /\ DOMAIN origin.logs = RequestTypes /\ db.logCols = {"request_type"}
        /\ \A t \in RequestTypes : db.logs[t] = LogRow(t)
    BY <1>1, <2>1 DEF Old
  <2>3. \A t \in RequestTypes :
          db.logs[t].type = t /\ db.logs[t].stream = FALSE /\ db.logs[t].native = FALSE
    <3>1. \A t \in RequestTypes : LogRow(t).type = t /\ LogRow(t).stream = FALSE
                                /\ LogRow(t).native = FALSE
      BY DEF LogRow
    <3> QED
      BY <2>2, <3>1
  <2> QED
    <3>1. \A t \in RequestTypes : db.logs[t].type = t /\ NoFlags(t)
      BY <2>3 DEF NoFlags
    <3>2. step = "none" /\ "request_type" \in db.logCols
      BY <1>1, <2>2
    <3> QED
      BY <2>2, <3>1, <3>2 DEF LogsOk
<1> QED
  BY <1>1, <1>2, <1>3

\* A row with the flags of its type is left alone, one without gets them.
LEMMA FillsFlags ==
  ASSUME Typed, LogsOk, LogsFill, "request_type" \in db.logCols, NEW t \in DOMAIN origin.logs
  PROVE  db'.logs[t].type = t /\ Flags(t)'
<1>1. /\ DOMAIN db.logs = DOMAIN origin.logs /\ db.logs[t] \in LogRecord
      /\ step = "logs"
  BY DEF Typed, Tables, LogsFill
<1>2. {"request_type", "is_stream", "is_native"} \subseteq db.logCols
  BY <1>1 DEF LogsOk, FromFormat, FromVariant, FromLogs
<1>3. db'.logs = [u \in DOMAIN db.logs |-> IF db.logs[u].stream \/ db.logs[u].native
                                          THEN db.logs[u] ELSE Flagged(db.logs[u])]
  BY <1>2 DEF LogsFill, Typed, Tables
<1>4. db'.logs[t] = IF db.logs[t].stream \/ db.logs[t].native THEN db.logs[t] ELSE Flagged(db.logs[t])
  BY <1>1, <1>3
<1>5. db.logs[t].type = t /\ (Flags(t) \/ NoFlags(t))
  BY <1>2 DEF LogsOk
<1>6. /\ Flagged(db.logs[t]).type = t /\ Flagged(db.logs[t]).stream = Streams(t)
      /\ Flagged(db.logs[t]).native = Native(t)
  BY <1>1, <1>5 DEF Flagged, LogRecord
<1>7. CASE db.logs[t].stream \/ db.logs[t].native
  BY <1>4, <1>5, <1>7 DEF Flags, NoFlags
<1>8. CASE ~(db.logs[t].stream \/ db.logs[t].native)
  BY <1>4, <1>6, <1>8 DEF Flags
<1> QED
  BY <1>7, <1>8

LEMMA LogsStep == ASSUME Typed, Typed', LogsOk, [Next]_vars PROVE LogsOk'
<1> USE DEF FromFormat, FromVariant, FromLogs, FromOrphans
<1>1. UNCHANGED origin
  BY OtherSteps, MigrateSteps
<1>2. DOMAIN db.logs = DOMAIN origin.logs
  BY DEF Typed, Tables
<1>3. CASE db'.logs = db.logs /\ db'.logCols = db.logCols
  <2>1. \A t \in DOMAIN origin.logs : (Flags(t)' <=> Flags(t)) /\ (NoFlags(t)' <=> NoFlags(t))
    BY <1>3 DEF Flags, NoFlags
  <2>2. /\ step' \in FromFormat => step \in FromFormat \/ {"is_stream", "is_native"} \subseteq db.logCols
        /\ step' \in FromOrphans => step \in FromOrphans \/ "request_type" \notin db.logCols
        /\ step' = "logsDrop" => step = "logsDrop" \/ \A t \in DOMAIN origin.logs : Flags(t)
    <3>1. CASE ~Database
      BY <3>1, OtherSteps DEF Boot, Web, WebDone, Open, Services, Routes, StartFails, WebCrashes,
         WebFault, Stop, Released, ProcessEnds, vars, migrationVars
    <3>2. CASE Migrate /\ ~(SchemaLogs \/ LogsFill \/ LogsDrop)
      BY <3>2 DEF Migrate, HealthBackup, HealthDrop, HealthCreate, HealthRestore, Schema, FormatRead,
         FormatRow, FormatDrop, Links, EndpointsRead, EndpointRow, DropProvider, DropVariant,
         DropHeaders, CleanOrphan, Migrated, Then
    <3>3. CASE SchemaLogs
      <4>1. db'.logCols = db.logCols \cup {"is_stream", "is_native"}
        BY <3>3 DEF SchemaLogs, Typed, Tables
      <4> QED
        BY <1>3, <3>3, <4>1 DEF SchemaLogs, Then
    <3>4. CASE LogsFill
      <4>1. CASE "request_type" \in db.logCols
        <5>1. \A t \in DOMAIN origin.logs : Flags(t)
          BY <2>1, <3>4, <4>1, FillsFlags
        <5>2. step = "logs" /\ step' \in {"logsDrop", "orphans"}
          BY <3>4 DEF LogsFill, Then
        <5>3. {"is_stream", "is_native"} \subseteq db.logCols
          BY <5>2 DEF LogsOk
        <5>4. step' = "logsDrop"
          BY <3>4, <4>1, <5>3 DEF LogsFill, Then
        <5> QED
          BY <5>1, <5>2, <5>4
      <4>2. CASE "request_type" \notin db.logCols
        BY <3>4, <4>2 DEF LogsFill, Then
      <4> QED
        BY <4>1, <4>2
    <3>5. CASE LogsDrop
      <4>1. db'.logCols = db.logCols \ {"request_type"}
        BY <3>5 DEF LogsDrop, Typed, Tables
      <4> QED
        BY <1>3, <3>5, <4>1 DEF LogsDrop, Then
    <3> QED
      BY <3>1, <3>2, <3>3, <3>4, <3>5 DEF Database
  <2> QED
    BY <1>1, <1>3, <2>1, <2>2 DEF LogsOk
<1>4. CASE SchemaLogs
  <2>1. /\ db'.logs = db.logs /\ db'.logCols = db.logCols \cup {"is_stream", "is_native"}
        /\ step = "schemaLogs" /\ step' = "format"
    BY <1>4 DEF SchemaLogs, Then, Typed, Tables
  <2>2. \A t \in DOMAIN origin.logs : (Flags(t)' <=> Flags(t)) /\ (NoFlags(t)' <=> NoFlags(t))
    BY <2>1 DEF Flags, NoFlags
  <2> QED
    BY <1>1, <2>1, <2>2 DEF LogsOk
<1>5. CASE LogsFill
  <2>1. step = "logs" /\ {"is_stream", "is_native"} \subseteq db.logCols
    BY <1>5 DEF LogsFill, LogsOk
  <2>2. CASE "request_type" \in db.logCols
    <3>1. db'.logCols = db.logCols /\ step' = "logsDrop"
      BY <1>5, <2>1, <2>2 DEF LogsFill, Then, Typed, Tables
    <3>2. \A t \in DOMAIN origin.logs : db'.logs[t].type = t /\ Flags(t)'
      BY <1>5, <2>2, FillsFlags
    <3> QED
      BY <1>1, <2>1, <3>1, <3>2 DEF LogsOk
  <2>3. CASE "request_type" \notin db.logCols
    <3>1. UNCHANGED db
      BY <1>5, <2>3 DEF LogsFill
    <3> QED
      BY <1>3, <3>1
  <2> QED
    BY <2>2, <2>3
<1>6. CASE LogsDrop
  <2>1. /\ db'.logCols = db.logCols \ {"request_type"} /\ step = "logsDrop" /\ step' = "orphans"
        /\ db'.logs = [t \in DOMAIN db.logs |-> [db.logs[t] EXCEPT !.type = ""]]
    BY <1>6 DEF LogsDrop, Then, Typed, Tables
  <2>2. \A t \in DOMAIN origin.logs : Flags(t)'
    <3> SUFFICES ASSUME NEW t \in DOMAIN origin.logs PROVE Flags(t)'
      OBVIOUS
    <3>1. db'.logs[t] = [db.logs[t] EXCEPT !.type = ""] /\ db.logs[t] \in LogRecord
      BY <1>2, <2>1 DEF Typed, Tables
    <3>2. /\ db'.logs[t].stream = db.logs[t].stream
          /\ db'.logs[t].native = db.logs[t].native
      BY <3>1 DEF LogRecord
    <3> QED
      BY <2>1, <3>2 DEF LogsOk, Flags
  <2> QED
    BY <1>1, <2>1, <2>2 DEF LogsOk
<1>7. ASSUME ~(SchemaLogs \/ LogsFill \/ LogsDrop)
      PROVE  db'.logs = db.logs /\ db'.logCols = db.logCols
  <2>1. CASE ~Database
    BY <2>1, OtherSteps
  <2>2. CASE Database
    BY <1>7, <2>2 DEF Database, Migrate, HealthBackup, HealthDrop, HealthCreate, HealthRestore,
       Schema, FormatRead, FormatRow, FormatDrop, Links, EndpointsRead, EndpointRow, DropProvider,
       DropVariant, DropHeaders, CleanOrphan, Migrated, Typed, Tables
  <2> QED
    BY <2>1, <2>2
<1> QED
  BY <1>3, <1>4, <1>5, <1>6, <1>7

-----------------------------------------------------------------------------
(* A database some start has migrated. *)

\* Nothing is left to do: no statement of a later start changes a table.
LEMMA Nothing ==
  ASSUME Typed, Settled, past.served, Database
  PROVE  /\ db' = db
         /\ step' \notin {"healthDrop", "healthCreate", "healthRestore", "formatRow",
                         "endpointRow", "dropVariant", "dropHeaders", "logsDrop"}
<1>1. /\ db.healths.shape = "new" /\ Orphans = {} /\ "provider" \notin db.columns
      /\ {"is_stream", "is_native"} \subseteq db.logCols /\ "request_type" \notin db.logCols
      /\ step \notin {"healthDrop", "healthCreate", "healthRestore", "formatRow", "endpointRow",
                     "dropVariant", "dropHeaders", "logsDrop"}
  BY DEF Settled
<1>2. CASE Schema
  <2>1. db' = [db EXCEPT !.healths.shape = "new"]
    BY <1>1, <1>2 DEF Schema, Typed, Tables
  <2>2. [db EXCEPT !.healths.shape = "new"] = db
    BY <1>1 DEF Typed, Tables
  <2> QED
    BY <1>2, <2>1, <2>2 DEF Schema, Then
<1>3. CASE SchemaLogs
  <2>1. db.logCols \cup {"is_stream", "is_native"} = db.logCols
    BY <1>1
  <2>2. db' = [db EXCEPT !.logCols = db.logCols]
    BY <1>3, <2>1 DEF SchemaLogs, Typed, Tables
  <2>3. [db EXCEPT !.logCols = db.logCols] = db
    BY DEF Typed, Tables
  <2> QED
    BY <1>3, <2>2, <2>3 DEF SchemaLogs, Then
<1>4. CASE Migrate /\ ~(Schema \/ SchemaLogs)
  BY <1>1, <1>4 DEF Migrate, HealthBackup, HealthDrop, HealthCreate, HealthRestore,
     FormatRead, FormatRow, FormatDrop, Links, EndpointsRead, EndpointRow, DropProvider,
     DropVariant, DropHeaders, LogsFill, LogsDrop, CleanOrphan, Migrated, Then, OldColumns
<1> QED
  BY <1>2, <1>3, <1>4 DEF Database

LEMMA SettledStep ==
  ASSUME Typed, Typed', HealthsOk, PlatformsOk, LogsOk, Settled, [Next]_vars
  PROVE  Settled'
<1> SUFFICES ASSUME past'.served PROVE Settled'
  BY DEF Settled
<1> USE DEF FromSchema, FromSchemaLogs, FromFormat, FromVariant, FromLogs, FromOrphans
<1>0. UNCHANGED origin
  BY OtherSteps, MigrateSteps
<1>1. CASE Database
  <2>1. past.served /\ db' = db
    BY <1>1, MigrateSteps, Nothing
  <2>2. Orphans' = Orphans
    BY <1>0, <2>1, SameOrphans
  <2> QED
    BY <1>1, <2>1, <2>2, Nothing DEF Settled
<1>2. CASE Routes
  <2>1. UNCHANGED db /\ step = "routes" /\ step' = "serving"
    BY <1>2 DEF Routes
  <2>2. Orphans' = Orphans
    BY <1>0, <2>1, SameOrphans
  <2>3. /\ db.healths.shape = "new" /\ Orphans = {}
        /\ "provider" \notin db.columns
        /\ {"is_stream", "is_native"} \subseteq db.logCols
        /\ "request_type" \notin db.logCols
    BY <2>1 DEF HealthsOk, PlatformsOk, ColumnsOk, LogsOk
  <2> QED
    BY <2>1, <2>2, <2>3 DEF Settled
<1>3. CASE ~Database /\ ~Routes
  <2>1. UNCHANGED db
    BY <1>3, OtherSteps
  <2>2. Orphans' = Orphans
    BY <1>0, <2>1, SameOrphans
  <2>3. past.served
    BY <1>3, OtherSteps DEF Boot, Web, WebDone, Open, Services, StartFails, WebCrashes, WebFault,
       Stop, Released, Over, vars, Typed, WebTyped, PastType
  <2>4. step' = step \/ step' \in {"none", "web", "open", "health", "routes"}
    BY <1>3, OtherSteps DEF Boot, Web, WebDone, Open, Services, StartFails, WebCrashes,
       WebFault, Stop, Released, ProcessEnds, vars, migrationVars
  <2> QED
    BY <2>1, <2>2, <2>3, <2>4 DEF Settled
<1> QED
  BY <1>1, <1>2, <1>3

-----------------------------------------------------------------------------
(* Theorems. *)

LEMMA InvInit == ASSUME Init PROVE IInv
<1>1. Settled
  BY DEF Init, Settled
<1> QED
  BY <1>1, TypedInit, HealthsInit, PlatformsInit, LogsInit, WebInit DEF IInv

LEMMA InvStep == ASSUME IInv, [Next]_vars PROVE IInv'
<1>1. Typed'
  BY TypedStep DEF IInv
<1> QED
  BY <1>1, HealthsStep, PlatformsStep, LogsStep, SettledStep, WebStep DEF IInv

LEMMA StartupInvariant == Spec => []IInv
<1>1. Init => IInv
  BY InvInit
<1>2. IInv /\ [Next]_vars => IInv'
  BY InvStep
<1> QED
  BY <1>1, <1>2, PTL DEF Spec

\* migrate_*.go, of every database, release count and number of cut-off starts:
\* the tables keep their types, no start deletes the only copy of a platform's
\* provider or of a log's type, and the newest health records are kept together.
THEOREM OldDataIsKept == Spec => []DataInv
<1>1. IInv => DataInv
  <2> SUFFICES ASSUME IInv PROVE DataInv
    OBVIOUS
  <2> USE DEF IInv
  <2>1. TypeOK
    <3>1. /\ step \in Steps /\ db.healths.shape \in {"absent", "old", "new"}
          /\ todo \subseteq DOMAIN db.platforms /\ past \in PastType
      BY DEF Typed, Tables, WebTyped
    <3>2. /\ web.step \in WebStates /\ dir.version \in {Unreadable} \cup 0..MaxRelease
          /\ dir.files.of \in 0..MaxRelease /\ dir.zip \in BOOLEAN /\ latest \in 1..MaxRelease
      BY DEF Typed, WebTyped, WebType, DirType
    <3>3. db.healths.rows \subseteq origin.healths.rows
      BY NewestKeep DEF HealthsOk
    <3>4. db.columns \subseteq origin.columns
      BY DEF PlatformsOk, ColumnsOk
    <3> QED
      BY <3>1, <3>2, <3>3, <3>4 DEF TypeOK
  <2>2. OldDataSurvives
    <3>1. DOMAIN db.platforms = DOMAIN origin.platforms /\ DOMAIN db.logs = DOMAIN origin.logs
      BY DEF Typed, Tables
    <3>2. HasOldPlatforms => \A p \in DOMAIN db.platforms : Converted(p) \/ StillInRow(p)
      BY <3>1 DEF PlatformsOk, PlatformOk
    <3>3. \A t \in DOMAIN db.logs : db.logs[t].type = t \/ Flags(t)
      BY <3>1 DEF LogsOk
    <3> QED
      BY <3>2, <3>3 DEF OldDataSurvives, Flags
  <2>3. HealthsKeptTogether
    <3> SUFFICES ASSUME step = "serving"
                 PROVE  db.healths.rows = Retained \/ (past.robbed /\ db.healths.rows = {})
      BY DEF HealthsKeptTogether
    <3>1. \/ Retained \subseteq db.healths.rows /\ db.healths.rows \subseteq NewestRows
          \/ db.healths.rows = {} /\ past.robbed
      BY DEF HealthsOk, FromSchema, FromSchemaLogs, FromFormat, FromVariant, FromLogs, FromOrphans
    <3>2. Orphans = {}
      BY DEF HealthsOk
    <3>3. db.healths.rows \subseteq NewestRows => db.healths.rows \subseteq Retained
      BY <3>2, OrphanRows
    <3> QED
      BY <3>1, <3>3
  <2> QED
    BY <2>1, <2>2, <2>3 DEF DataInv
<1> QED
  BY <1>1, StartupInvariant, PTL

\* migrate_endpoint.go: a process that serves has every platform converted, and
\* no more endpoints of it than starts were cut off, and one.
THEOREM ServedPlatformsAreConverted == Spec => []ServingIsMigrated
<1>1. IInv => ServingIsMigrated
  <2> SUFFICES ASSUME IInv, step = "serving", HasOldPlatforms, NEW p \in DOMAIN db.platforms
               PROVE  /\ Converted(p)
                      /\ Cardinality(EndpointsOf(p)) <= 1 + past.recut
                      /\ \A i, j \in EndpointsOf(p) : db.endpoints[i] = db.endpoints[j]
    BY DEF ServingIsMigrated
  <2>1. PlatformOk(p) /\ "provider" \notin db.columns /\ past.recut \in Nat
    BY FaultsAreBounded DEF IInv, PlatformsOk, ColumnsOk, FromVariant, FromLogs, FromOrphans, Typed,
       Tables, WebTyped, PastType
  <2>2. Converted(p) /\ Cardinality(EndpointsOf(p)) <= past.recut + 1
    BY <2>1 DEF PlatformOk
  <2>3. \A i \in EndpointsOf(p) : db.endpoints[i] = Converse(p)
    BY <2>1 DEF PlatformOk, EndpointsOf
  <2>4. 1 + past.recut = past.recut + 1
    BY <2>1
  <2> QED
    BY <2>2, <2>3, <2>4
<1> QED
  BY <1>1, StartupInvariant, PTL

\* frontend.go:70-240, of every sequence of releases and of failing starts: the
\* version file tells the truth, and a start that checks for updates repairs
\* what earlier ones left behind.
THEOREM FrontendIsRepaired == Spec => []FrontendInv
<1>1. IInv => FrontendInv
  <2> SUFFICES ASSUME IInv PROVE FrontendInv
    OBVIOUS
  <2>1. VersionIsEarned
    BY DEF IInv, WebOk
  <2>2. CheckedStartRepairs
    BY DEF IInv, WebOk, CheckedStartRepairs, Repaired
  <2> QED
    BY <2>1, <2>2 DEF FrontendInv
<1> QED
  BY <1>1, StartupInvariant, PTL

\* database/migrate.go: once a process has served, no later start changes a
\* table, wherever it is cut off.
THEOREM MigrationsRunOnce == Spec => LaterStartsChangeNothing
<1>1. IInv /\ [Next]_vars => [past.served => db' = db]_vars
  <2> SUFFICES ASSUME IInv, Next, past.served PROVE db' = db
    OBVIOUS
  <2>1. CASE Database
    BY <2>1, Nothing DEF IInv
  <2>2. CASE ~Database
    BY <2>2, OtherSteps
  <2> QED
    BY <2>1, <2>2
<1> QED
  BY <1>1, StartupInvariant, PTL DEF Spec, LaterStartsChangeNothing

-----------------------------------------------------------------------------
(* From listening to the exit: the log, the database and those who use it. *)

LogType ==
  /\ day \in Days
  /\ handler \in [Handlers -> [date : Days, file : Files] \cup {NoHandler}]
  /\ open \subseteq Files
  /\ call \in [Goroutines -> [at : {"dated", "rotated"}, handler : Handlers, date : Days]
                             \cup {NoCall}]
  /\ spoiled \subseteq Days

\* A goroutine logs with a lasting logger or its own, and that exists.
Owned ==
  /\ \A h \in Lasting : Exists(h)
  /\ \A g \in Goroutines :
       call[g] # NoCall => Exists(call[g].handler) /\ call[g].handler \in Lasting \cup {g}

Dated ==
  /\ \A h \in Handlers : handler[h].date <= day
  /\ \A g \in Goroutines : call[g] # NoCall => call[g].date <= day

Shared ==
  \A h, k \in Handlers :
    (Exists(h) /\ Exists(k) /\ handler[h].file = handler[k].file)
      => handler[h].date = handler[k].date

CallsFresh ==
  \A g \in Goroutines :
    (call[g].at = "rotated" /\ call[g].date = day)
      => handler[call[g].handler].date = day \/ day \in spoiled

LogInv == LogType /\ Owned /\ Dated /\ Shared /\ CallsFresh

ServerType ==
  /\ phase \in Phases
  /\ task \in {"waiting", "busy", "stopped"}
  /\ request \in [Requests -> {"none", "busy", "ending"}]
  /\ \A r \in Requests : request[r] = "none" <=> ~Exists(r)

\* The order of shutdown(): what each wait leaves behind holds from then on.
AfterWorker == {"worker", "draining", "http", "db", "logfile", "closed"}
AfterServer == {"http", "db", "logfile", "closed"}

Waited ==
  /\ database = "closed" => phase \in {"db", "logfile", "closed", "exited"}
  /\ phase \in AfterWorker \/ database = "closed" => task = "stopped" \/ "worker" \in late
  /\ phase = "draining" => ~listening
  /\ phase \in AfterServer \/ database = "closed" =>
       ~listening /\ (Active = {} \/ "http" \in late)

ShutdownInv == LogInv /\ ServerType /\ Waited /\ DeadHandlersAreSpoiled

LEMMA Loggers ==
  /\ Handlers = {app, gin, svc} \cup Requests
  /\ Lasting = {app, gin, svc} /\ Lasting \cap Requests = {}
  /\ Goroutines = Requests \cup {main, worker}
BY ShutdownAssumption, HandlerAssumption DEF Handlers

-----------------------------------------------------------------------------
(* There is always a number for a file to open. *)

LEMMA FreeNumber ==
  ASSUME LogType, NEW h \in Handlers
  PROVE  Opened(h) \in Files /\ \A k \in Handlers \ {h} : handler[k].file # Opened(h)
<1> DEFINE others == Handlers \ {h}
           holder == [f \in Files |-> CHOOSE k \in others : handler[k].file = f]
<1>1. IsFiniteSet(Handlers)
  BY HandlerAssumption DEF Handlers
<1>2. /\ IsFiniteSet(others)
      /\ Cardinality(others) = Cardinality(Handlers) - 1
      /\ Cardinality(Handlers) \in Nat
  BY <1>1, FS_RemoveElement, FS_CardinalityType
<1>3. IsFiniteSet(Files) /\ Cardinality(Files) = Cardinality(Handlers) + 1
  BY <1>2, FS_Interval DEF Files
<1>4. \E f \in Files : \A k \in others : handler[k].file # f
  <2> SUFFICES ASSUME \A f \in Files : \E k \in others : handler[k].file = f
               PROVE  FALSE
    OBVIOUS
  <2>1. \A f \in Files : holder[f] \in others /\ handler[holder[f]].file = f
    OBVIOUS
  <2>2. holder \in [Files -> others]
    BY <2>1
  <2> HIDE DEF holder
  <2>3. \E f, e \in Files : f # e /\ holder[f] = holder[e]
    <3>1. Cardinality(others) < Cardinality(Files)
      BY <1>2, <1>3
    <3> HIDE DEF others
    <3> QED
      BY <3>1, <1>2, <1>3, <2>2, FS_PigeonHole
  <2> QED
    BY <2>1, <2>3
<1>5. \E f \in Files : f \notin {handler[k].file : k \in others}
  BY <1>4
<1>6. Opened(h) \in Files /\ Opened(h) \notin {handler[k].file : k \in others}
  BY <1>5 DEF Opened
<1> QED
  BY <1>6

-----------------------------------------------------------------------------
(* The steps of the log. *)

\* All of them but Rotate and Forget leave every handler's file as open as it was,
\* or close the log for good.
LEMMA MidnightKeeps ==
  ASSUME LogInv, DeadHandlersAreSpoiled, Midnight
  PROVE  LogInv' /\ DeadHandlersAreSpoiled'
<1>1. /\ day < MaxDay /\ day' = day + 1 /\ day \in Nat
      /\ UNCHANGED <<handler, open, call, spoiled>>
  BY DayAssumption DEF Midnight, LogInv, LogType, Days
<1>2. LogType'
  BY <1>1, DayAssumption DEF LogInv, LogType, Days
<1>3. /\ \A h \in Handlers : handler[h].date \in Int
      /\ \A g \in Goroutines : call[g] # NoCall => call[g].date \in Int
  BY DEF LogInv, LogType, Days, NoHandler
<1>4. Owned' /\ Shared'
  BY <1>1 DEF LogInv, Owned, Shared, Exists
<1>5. Dated'
  BY <1>1, <1>3 DEF LogInv, Dated
<1>6. CallsFresh'
  <2> SUFFICES ASSUME NEW g \in Goroutines, call[g].at = "rotated", call[g].date = day'
               PROVE  FALSE
    BY <1>1 DEF CallsFresh
  <2>1. call[g] # NoCall
    BY DEF NoCall
  <2> QED
    BY <2>1, <1>1, <1>3 DEF LogInv, Dated
<1>7. \A h \in Handlers : handler'[h].date # day'
  BY <1>1, <1>3 DEF LogInv, Dated
<1> QED
  BY <1>2, <1>4, <1>5, <1>6, <1>7 DEF LogInv, DeadHandlersAreSpoiled

LEMMA LogKeeps ==
  ASSUME LogInv, DeadHandlersAreSpoiled, LogClosed => LogClosed',
         NEW g \in Goroutines, NEW h \in Handlers, h \in Lasting \cup {g}, Log(g, h)
  PROVE  LogInv' /\ DeadHandlersAreSpoiled'
<1> DEFINE c == [at |-> "dated", handler |-> h, date |-> day]
<1>1. /\ Exists(h) /\ call' = [call EXCEPT ![g] = c]
      /\ UNCHANGED <<day, handler, open, spoiled>>
  BY DEF Log
<1>2. c \in [at : {"dated", "rotated"}, handler : Handlers, date : Days]
  BY DEF LogInv, LogType
<1>3. LogType'
  BY <1>1, <1>2 DEF LogInv, LogType
<1>4. \A q \in Goroutines : call'[q] = IF q = g THEN c ELSE call[q]
  BY <1>1 DEF LogInv, LogType
<1>5. Owned'
  BY <1>1, <1>4 DEF LogInv, Owned, Exists
<1>6. Dated' /\ Shared' /\ CallsFresh'
  <2>1. day <= day
    BY DEF LogInv, LogType, Days
  <2>2. Dated'
    BY <1>1, <1>4, <2>1 DEF LogInv, Dated
  <2>3. CallsFresh'
    BY <1>1, <1>4 DEF LogInv, CallsFresh
  <2> QED
    BY <1>1, <2>2, <2>3 DEF LogInv, Shared, Exists
<1>7. DeadHandlersAreSpoiled'
  BY <1>1 DEF DeadHandlersAreSpoiled
<1> QED
  BY <1>3, <1>5, <1>6, <1>7 DEF LogInv

LEMMA WriteKeeps ==
  ASSUME LogInv, DeadHandlersAreSpoiled, LogClosed => LogClosed',
         NEW g \in Goroutines, Write(g)
  PROVE  LogInv' /\ DeadHandlersAreSpoiled'
<1>1. call' = [call EXCEPT ![g] = NoCall] /\ UNCHANGED <<day, handler, open, spoiled>>
  BY DEF Write
<1>2. LogType'
  BY <1>1 DEF LogInv, LogType
<1>3. \A q \in Goroutines : call'[q] = IF q = g THEN NoCall ELSE call[q]
  BY <1>1 DEF LogInv, LogType
<1>4. Owned' /\ Dated' /\ Shared'
  BY <1>1, <1>3 DEF LogInv, Owned, Dated, Shared, Exists
<1>5. CallsFresh'
  BY <1>1, <1>3 DEF LogInv, CallsFresh, NoCall
<1>6. DeadHandlersAreSpoiled'
  BY <1>1 DEF DeadHandlersAreSpoiled
<1> QED
  BY <1>2, <1>4, <1>5, <1>6 DEF LogInv

\* A rotation closes the file of the handlers that share it, which have the date it
\* leaves: today's only if it goes back.
LEMMA RotateKeeps ==
  ASSUME LogInv, DeadHandlersAreSpoiled, LogClosed => LogClosed',
         NEW g \in Goroutines, Rotate(g)
  PROVE  LogInv' /\ DeadHandlersAreSpoiled'
<1> DEFINE h == call[g].handler
           date == call[g].date
           spoils == date < handler[h].date
<1>1. call[g].at = "dated" /\ call[g] # NoCall
  BY DEF Rotate, NoCall
<1>2. /\ h \in Handlers /\ date \in Days /\ day \in Int /\ date <= day
      /\ handler[h] \in [date : Days, file : Files] /\ h \in Lasting \cup {g}
  BY <1>1 DEF LogInv, LogType, Owned, Dated, Exists, Days
<1>3. day' = day
  BY DEF Rotate
<1>4. /\ \A k \in Handlers : handler[k].date \in Int /\ handler[k].date <= day
      /\ \A k \in Handlers : ~Exists(k) => handler[k].date # day
  <2>1. day \in Nat
    BY DEF LogInv, LogType, Days
  <2> QED
    BY <2>1 DEF LogInv, LogType, Dated, Days, Exists, NoHandler
<1>5. CASE handler[h].date = date
  <2>1. call' = [call EXCEPT ![g].at = "rotated"] /\ UNCHANGED <<day, handler, open, spoiled>>
    BY <1>5 DEF Rotate
  <2>2. /\ call'[g] = [call[g] EXCEPT !.at = "rotated"]
        /\ \A q \in Goroutines : q # g => call'[q] = call[q]
    BY <2>1 DEF LogInv, LogType
  <2>3. /\ call[g] \in [at : {"dated", "rotated"}, handler : Handlers, date : Days]
        /\ call'[g] \in [at : {"dated", "rotated"}, handler : Handlers, date : Days]
        /\ call'[g].handler = h /\ call'[g].date = date
    BY <1>1, <2>2 DEF LogInv, LogType
  <2>4. LogType'
    BY <2>1, <2>2, <2>3 DEF LogInv, LogType
  <2>5. Owned' /\ Dated' /\ Shared'
    BY <1>1, <2>1, <2>2, <2>3 DEF LogInv, Owned, Dated, Shared, Exists
  <2>6. CallsFresh'
    BY <1>5, <2>1, <2>2, <2>3 DEF LogInv, CallsFresh
  <2>7. DeadHandlersAreSpoiled'
    BY <2>1 DEF DeadHandlersAreSpoiled
  <2> QED
    BY <2>4, <2>5, <2>6, <2>7 DEF LogInv
<1>6. CASE handler[h].date # date
  <2>1. spoiled' = spoiled \cup (IF spoils THEN {handler[h].date} ELSE {})
    BY <1>6 DEF Rotate
  <2>2. spoiled' \subseteq Days /\ spoiled \subseteq spoiled'
    BY <1>2, <2>1 DEF LogInv, LogType
  \* Where the file of the day is closed, the day is spoiled.
  <2>3. handler[h].date = day => day \in spoiled'
    <3>1. handler[h].date = day => spoils
      BY <1>2, <1>6 DEF Days
    <3> QED
      BY <2>1, <3>1
  <2>4. \A k \in Handlers : (handler[k].date = day /\ handler[k].file = handler[h].file)
                                => day \in spoiled'
    <3>1. Exists(h)
      BY <1>1 DEF LogInv, Owned
    <3> QED
      BY <1>2, <1>4, <2>3, <3>1 DEF LogInv, Shared
  <2>5. CASE /\ handler' = [handler EXCEPT ![h] = [date |-> date, file |-> Opened(h)]]
             /\ open' = (open \ {handler[h].file}) \cup {Opened(h)}
             /\ call' = [call EXCEPT ![g].at = "rotated"]
    <3>1. Opened(h) \in Files /\ \A k \in Handlers \ {h} : handler[k].file # Opened(h)
      BY <1>2, FreeNumber DEF LogInv
    <3>2. /\ handler'[h] = [date |-> date, file |-> Opened(h)]
          /\ \A k \in Handlers : k # h => handler'[k] = handler[k]
      BY <1>2, <2>5 DEF LogInv, LogType
    <3>3. /\ call'[g] = [call[g] EXCEPT !.at = "rotated"]
          /\ \A q \in Goroutines : q # g => call'[q] = call[q]
      BY <2>5 DEF LogInv, LogType
    <3>4. /\ call'[g] \in [at : {"dated", "rotated"}, handler : Handlers, date : Days]
          /\ call'[g].handler = h /\ call'[g].date = date
      BY <1>1, <3>3 DEF LogInv, LogType
    <3>5. LogType'
      <4>1. handler' \in [Handlers -> [date : Days, file : Files] \cup {NoHandler}]
        BY <1>2, <2>5, <3>1 DEF LogInv, LogType
      <4>2. call' \in [Goroutines -> [at : {"dated", "rotated"}, handler : Handlers, date : Days]
                                     \cup {NoCall}]
        BY <2>5, <3>3, <3>4 DEF LogInv, LogType
      <4> QED
        BY <1>3, <2>2, <2>5, <3>1, <4>1, <4>2 DEF LogInv, LogType
    <3>6. \A k \in Handlers : k = h \/ handler[k] # NoHandler => handler'[k] # NoHandler
      <4>1. handler'[h] # NoHandler
        BY <3>2, <1>2 DEF NoHandler, Days
      <4> QED
        BY <3>2, <4>1
    <3>7. Owned'
      <4>1. \A k \in Lasting : handler'[k] # NoHandler
        BY <3>6 DEF LogInv, Owned, Handlers, Exists
      <4>2. ASSUME NEW q \in Goroutines, call'[q] # NoCall
            PROVE  /\ handler'[call'[q].handler] # NoHandler
                   /\ call'[q].handler \in Lasting \cup {q}
        <5>1. CASE q = g
          BY <1>2, <3>4, <3>6, <5>1
        <5>2. CASE q # g
          <6>1. call'[q] = call[q] /\ call[q] # NoCall /\ call[q].handler \in Handlers
            BY <3>3, <4>2, <5>2 DEF LogInv, LogType
          <6> QED
            BY <6>1, <3>6 DEF LogInv, Owned, Exists
        <5> QED
          BY <5>1, <5>2
      <4> QED
        BY <4>1, <4>2 DEF Owned, Exists
    <3>8. Dated'
      BY <1>1, <1>2, <1>3, <1>4, <3>2, <3>3, <3>4 DEF LogInv, Dated
    <3>9. Shared'
      BY <1>2, <3>1, <3>2 DEF LogInv, Shared, Exists
    <3>10. CallsFresh'
      <4> SUFFICES ASSUME NEW q \in Goroutines, call'[q].at = "rotated", call'[q].date = day
                   PROVE  handler'[call'[q].handler].date = day \/ day \in spoiled'
        BY <1>3 DEF CallsFresh
      <4>1. CASE q = g
        BY <3>2, <3>4, <4>1
      <4>2. CASE q # g
        <5>1. handler[call[q].handler].date = day \/ day \in spoiled
          BY <3>3, <4>2 DEF LogInv, CallsFresh
        <5>2. call'[q] = call[q] /\ call[q].handler \in Handlers
          BY <3>3, <4>2 DEF LogInv, LogType, NoCall
        <5> QED
          BY <5>1, <5>2, <2>2, <2>3, <3>2
      <4> QED
        BY <4>1, <4>2
    <3>11. DeadHandlersAreSpoiled'
      <4> SUFFICES ASSUME NEW k \in Handlers, handler'[k].date = day, handler'[k].file \notin open'
                   PROVE  day \in spoiled' \/ LogClosed'
        BY <1>3 DEF DeadHandlersAreSpoiled
      <4>1. k # h
        BY <2>5, <3>2
      <4>2. handler'[k] = handler[k]
        BY <3>2, <4>1
      <4>3. CASE handler[k].file = handler[h].file
        BY <2>4, <4>2, <4>3
      <4>4. CASE handler[k].file # handler[h].file
        <5>1. handler[k].file \notin open
          BY <2>5, <4>2, <4>4
        <5> QED
          BY <5>1, <4>2, <2>2 DEF DeadHandlersAreSpoiled
      <4> QED
        BY <4>3, <4>4
    <3> QED
      BY <3>5, <3>7, <3>8, <3>9, <3>10, <3>11 DEF LogInv
  <2>6. CASE /\ open' = open \ {handler[h].file}
             /\ call' = [call EXCEPT ![g] = NoCall]
             /\ handler' = handler
    <3>1. \A q \in Goroutines : call'[q] = IF q = g THEN NoCall ELSE call[q]
      BY <2>6 DEF LogInv, LogType
    <3>2. LogType'
      BY <1>3, <2>2, <2>6 DEF LogInv, LogType
    <3>3. Owned' /\ Dated' /\ Shared'
      BY <1>3, <2>6, <3>1 DEF LogInv, Owned, Dated, Shared, Exists
    <3>4. CallsFresh'
      BY <1>3, <2>2, <2>6, <3>1 DEF LogInv, CallsFresh, NoCall
    <3>5. DeadHandlersAreSpoiled'
      <4> SUFFICES ASSUME NEW k \in Handlers, handler[k].date = day, handler[k].file \notin open'
                   PROVE  day \in spoiled' \/ LogClosed'
        BY <1>3, <2>6 DEF DeadHandlersAreSpoiled
      <4>1. CASE handler[k].file = handler[h].file
        BY <2>4, <4>1
      <4>2. CASE handler[k].file # handler[h].file
        BY <2>2, <2>6, <4>2 DEF DeadHandlersAreSpoiled
      <4> QED
        BY <4>1, <4>2
    <3> QED
      BY <3>2, <3>3, <3>4, <3>5 DEF LogInv
  <2> QED
    BY <1>6, <2>5, <2>6 DEF Rotate
<1> QED
  BY <1>5, <1>6

LEMMA DeriveKeeps ==
  ASSUME LogInv, DeadHandlersAreSpoiled, LogClosed => LogClosed',
         NEW h \in Handlers, NEW from \in Lasting, Derive(h, from)
  PROVE  LogInv' /\ DeadHandlersAreSpoiled'
<1>1. /\ handler' = [handler EXCEPT ![h] = handler[from]]
      /\ UNCHANGED <<day, open, call, spoiled>> /\ handler[h] = NoHandler
  BY DEF Derive, Exists
<1>2. from \in Handlers /\ handler[from] \in [date : Days, file : Files]
  BY DEF LogInv, LogType, Owned, Exists, Handlers
<1>3. /\ handler'[h] = handler[from]
      /\ \A k \in Handlers : k # h => handler'[k] = handler[k]
  BY <1>1 DEF LogInv, LogType
<1>4. LogType'
  BY <1>1, <1>2 DEF LogInv, LogType
<1>5. handler[from] # NoHandler
  BY DEF LogInv, Owned, Exists
<1>6. Owned'
  <2>1. \A k \in Handlers : handler[k] # NoHandler => handler'[k] # NoHandler
    BY <1>3, <1>5
  <2>2. \A q \in Goroutines : call[q] # NoCall => call[q].handler \in Handlers
    BY DEF LogInv, LogType
  <2>3. \A k \in Lasting : k \in Handlers
    BY DEF Handlers
  <2> QED
    BY <1>1, <2>1, <2>2, <2>3 DEF LogInv, Owned, Exists
<1>7. Dated' /\ Shared'
  BY <1>1, <1>2, <1>3, <1>5 DEF LogInv, Dated, Shared, Exists
<1>8. CallsFresh'
  <2>1. \A q \in Goroutines : call[q].at = "rotated" =>
           call[q].handler \in Handlers /\ call[q].handler # h
    BY <1>1 DEF LogInv, LogType, Owned, Exists, NoCall
  <2> QED
    BY <1>1, <1>3, <2>1 DEF LogInv, CallsFresh
<1>9. DeadHandlersAreSpoiled'
  BY <1>1, <1>2, <1>3 DEF DeadHandlersAreSpoiled
<1> QED
  BY <1>4, <1>6, <1>7, <1>8, <1>9 DEF LogInv

LEMMA ForgetKeeps ==
  ASSUME LogInv, DeadHandlersAreSpoiled, LogClosed => LogClosed',
         NEW r \in Requests, call[r] = NoCall, Forget(r)
  PROVE  LogInv' /\ DeadHandlersAreSpoiled'
<1>1. /\ handler' = [handler EXCEPT ![r] = NoHandler]
      /\ open' = open \cap {handler[k].file : k \in Handlers \ {r}}
      /\ UNCHANGED <<day, call, spoiled>>
  BY DEF Forget
<1>2. r \in Handlers /\ r \notin Lasting
  BY Loggers
<1>3. /\ handler'[r] = NoHandler
      /\ \A k \in Handlers : k # r => handler'[k] = handler[k]
  BY <1>1, <1>2 DEF LogInv, LogType
<1>4. \A q \in Goroutines : call[q] # NoCall => call[q].handler \in Handlers \ {r}
  BY <1>2 DEF LogInv, LogType, Owned
<1>5. LogType'
  BY <1>1, <1>2 DEF LogInv, LogType
<1>6. Owned'
  <2>1. \A k \in Lasting : k \in Handlers \ {r}
    BY <1>2 DEF Handlers
  <2> QED
    BY <1>1, <1>3, <1>4, <2>1 DEF LogInv, Owned, Exists
<1>7. NoHandler.date <= day /\ NoHandler.date # day
  BY DEF LogInv, LogType, Days, NoHandler
<1>8. Dated'
  BY <1>1, <1>3, <1>7 DEF LogInv, Dated
<1>9. Shared'
  BY <1>3 DEF LogInv, Shared, Exists
<1>10. CallsFresh'
  <2>1. \A q \in Goroutines : call[q].at = "rotated" => call[q].handler \in Handlers \ {r}
    BY <1>4 DEF NoCall
  <2> QED
    BY <1>1, <1>3, <2>1 DEF LogInv, CallsFresh
<1>11. DeadHandlersAreSpoiled'
  BY <1>1, <1>3, <1>7 DEF DeadHandlersAreSpoiled
<1> QED
  BY <1>5, <1>6, <1>8, <1>9, <1>10, <1>11 DEF LogInv

LEMMA CloseKeeps ==
  ASSUME LogInv, LogClosed', NEW h \in Handlers, CloseLog(h)
  PROVE  LogInv' /\ DeadHandlersAreSpoiled'
<1>1. open' = open \ {handler[h].file} /\ UNCHANGED <<day, handler, call, spoiled>>
  BY DEF CloseLog
<1>2. LogInv'
  BY <1>1 DEF LogInv, LogType, Owned, Dated, Shared, CallsFresh, Exists
<1> QED
  BY <1>2 DEF DeadHandlersAreSpoiled

LEMMA LogIdle ==
  ASSUME LogInv, DeadHandlersAreSpoiled, LogClosed => LogClosed', UNCHANGED logVars
  PROVE  LogInv' /\ DeadHandlersAreSpoiled'
<1>1. UNCHANGED <<day, handler, open, call, spoiled>>
  BY DEF logVars
<1> QED
  BY <1>1 DEF LogInv, LogType, Owned, Dated, Shared, CallsFresh, Exists, DeadHandlersAreSpoiled

-----------------------------------------------------------------------------
(* The steps of the server. *)

\* What a step does to the log (LogStep), to the types and to what shutdown() has
\* waited for: one lemma for each part.
LEMMA LogStep ==
  ASSUME ShutdownInv, [ShutdownNext]_shutdownVars
  PROVE  LogInv' /\ DeadHandlersAreSpoiled'
<1> USE Loggers DEF ShutdownInv
<1>1. ASSUME NEW r \in Requests, Accept(r) PROVE LogInv' /\ DeadHandlersAreSpoiled'
  BY <1>1, DeriveKeeps DEF Accept, LogClosed
<1>2. ASSUME NEW r \in Requests, RequestLogs(r) PROVE LogInv' /\ DeadHandlersAreSpoiled'
  <2>1. phase' = phase /\ (Log(r, r) \/ Log(r, gin))
    BY <1>2 DEF RequestLogs
  <2>2. LogClosed => LogClosed'
    BY <2>1 DEF LogClosed
  <2>3. CASE Log(r, r)
    BY <2>2, <2>3, LogKeeps
  <2>4. CASE Log(r, gin)
    BY <2>2, <2>4, LogKeeps
  <2> QED
    BY <2>1, <2>3, <2>4
<1>3. ASSUME NEW r \in Requests, Respond(r) PROVE LogInv' /\ DeadHandlersAreSpoiled'
  BY <1>3, ForgetKeeps DEF Respond, LogClosed
<1>4. CASE TakeTask \/ EndTask \/ CancelWorker
  BY <1>4, LogIdle DEF TakeTask, EndTask, CancelWorker, Past, LogClosed
<1>5. CASE WorkerLogs
  <2>1. LogClosed => LogClosed'
    BY <1>5 DEF WorkerLogs, serverVars, LogClosed
  <2> QED
    BY <1>5, <2>1, LogKeeps DEF WorkerLogs
<1>6. ASSUME NEW g \in Goroutines, Proceed(g) PROVE LogInv' /\ DeadHandlersAreSpoiled'
  <2>1. LogClosed => LogClosed'
    BY <1>6 DEF Proceed, serverVars, LogClosed
  <2> QED
    BY <1>6, <2>1, RotateKeeps, WriteKeeps DEF Proceed
<1>7. CASE ListenFails \/ Drained
  <2>1. Log(main, gin) /\ (LogClosed => LogClosed')
    BY <1>7 DEF ListenFails, Drained, Step, Past, LogClosed
  <2> QED
    BY <2>1, LogKeeps
<1>8. CASE Signal \/ CloseGateway \/ WorkerStopped \/ CloseDatabase \/ LastRecord
  <2>1. Log(main, app) /\ (LogClosed => LogClosed')
    BY <1>8 DEF Signal, CloseGateway, WorkerStopped, CloseDatabase, LastRecord, Step, Past,
                LogClosed
  <2> QED
    BY <2>1, LogKeeps
<1>9. CASE GiveUp \/ StopListening \/ Exit
  BY <1>9, LogIdle DEF GiveUp, StopListening, Exit, Past, LogClosed
<1>10. CASE CloseLogFile
  BY <1>10, CloseKeeps DEF CloseLogFile, LogClosed
<1>11. CASE NextDay
  BY <1>11, MidnightKeeps DEF NextDay
<1>12. CASE UNCHANGED shutdownVars
  BY <1>12, LogIdle DEF shutdownVars, serverVars, LogClosed
<1> QED
  BY <1>1, <1>2, <1>3, <1>4, <1>5, <1>6, <1>7, <1>8, <1>9, <1>10, <1>11, <1>12
     DEF ShutdownNext, Closing

\* Rotate changes a handler that exists to one that does: which exist is the concern
\* of Derive and Forget alone.
LEMMA RotateExists ==
  ASSUME LogInv, NEW g \in Goroutines, Rotate(g) \/ Write(g), NEW k \in Handlers
  PROVE  handler[k] = NoHandler <=> handler'[k] = NoHandler
<1>1. CASE UNCHANGED handler
  BY <1>1
<1>2. CASE handler' # handler
  <2> DEFINE h == call[g].handler
             new == [date |-> call[g].date, file |-> Opened(h)]
  <2>1. call[g].at = "dated" /\ call[g] # NoCall /\ handler' = [handler EXCEPT ![h] = new]
    BY <1>2 DEF Rotate, Write, NoCall
  <2>2. handler[h] # NoHandler /\ h \in Handlers /\ new.date # NoHandler.date
    BY <2>1 DEF LogInv, LogType, Owned, Exists, NoHandler, Days
  <2>3. new # NoHandler
    BY <2>2
  <2> QED
    BY <2>1, <2>2, <2>3 DEF LogInv, LogType
<1> QED
  BY <1>1, <1>2

LEMMA ServerStep ==
  ASSUME ShutdownInv, [ShutdownNext]_shutdownVars
  PROVE  ServerType'
<1> USE Loggers DEF ShutdownInv, ServerType, Exists
<1>1. ASSUME NEW r \in Requests, Accept(r) PROVE ServerType'
  <2>1. /\ handler' = [handler EXCEPT ![r] = handler[svc]]
        /\ request' = [request EXCEPT ![r] = "busy"] /\ UNCHANGED <<phase, task>>
    BY <1>1 DEF Accept, Derive
  <2>2. handler[svc] # NoHandler
    BY DEF LogInv, Owned
  <2> QED
    BY <2>1, <2>2 DEF LogInv, LogType
<1>2. ASSUME NEW r \in Requests, RequestLogs(r) PROVE ServerType'
  BY <1>2 DEF RequestLogs, Log
<1>3. ASSUME NEW r \in Requests, Respond(r) PROVE ServerType'
  <2>1. /\ handler' = [handler EXCEPT ![r] = NoHandler]
        /\ request' = [request EXCEPT ![r] = "none"] /\ UNCHANGED <<phase, task>>
    BY <1>3 DEF Respond, Forget
  <2> QED
    BY <2>1 DEF LogInv, LogType
<1>4. CASE TakeTask \/ EndTask \/ CancelWorker
  <2>1. /\ UNCHANGED <<handler, request>> /\ phase' \in {phase, "stopping"}
        /\ task' \in {"waiting", "busy", "stopped"}
    BY <1>4 DEF TakeTask, EndTask, CancelWorker, logVars
  <2> QED
    BY <2>1 DEF Phases
<1>5. CASE WorkerLogs \/ NextDay
  BY <1>5 DEF WorkerLogs, NextDay, Log, Midnight, serverVars
<1>6. ASSUME NEW g \in Goroutines, Proceed(g) PROVE ServerType'
  <2>1. UNCHANGED <<phase, task, request>> /\ (Rotate(g) \/ Write(g))
    BY <1>6 DEF Proceed, serverVars
  <2>2. \A k \in Handlers : handler[k] = NoHandler <=> handler'[k] = NoHandler
    BY <2>1, RotateExists
  <2> QED
    BY <2>1, <2>2
<1>7. CASE ListenFails \/ GiveUp \/ Signal \/ (Closing /\ ~CancelWorker)
  <2>1. UNCHANGED <<handler, request, task>> /\ phase' \in Phases
    BY <1>7 DEF ListenFails, GiveUp, Signal, Closing, CloseGateway, WorkerStopped,
                StopListening, Drained, CloseDatabase, CloseLogFile, LastRecord, Exit,
                Step, Log, CloseLog, logVars, Phases
  <2> QED
    BY <2>1
<1>8. CASE UNCHANGED shutdownVars
  BY <1>8 DEF shutdownVars, serverVars, logVars
<1> QED
  BY <1>1, <1>2, <1>3, <1>4, <1>5, <1>6, <1>7, <1>8 DEF ShutdownNext, Closing

\* Requests that have ended do not come back once nobody listens, and the worker's
\* loop is left for good.
LEMMA WaitedStep ==
  ASSUME ShutdownInv, [ShutdownNext]_shutdownVars
  PROVE  Waited'
<1> USE DEF ShutdownInv, Waited, AfterWorker, AfterServer
<1>1. ASSUME NEW r \in Requests, Accept(r) PROVE Waited'
  BY <1>1 DEF Accept
<1>2. ASSUME NEW r \in Requests, RequestLogs(r) PROVE Waited'
  <2>1. r \in Active /\ UNCHANGED <<phase, task, listening, database, late>>
    BY <1>2 DEF RequestLogs, Active
  <2> QED
    BY <2>1
<1>3. ASSUME NEW r \in Requests, Respond(r) PROVE Waited'
  <2>1. r \in Active /\ UNCHANGED <<phase, task, listening, database, late>>
    BY <1>3 DEF Respond, Active
  <2> QED
    BY <2>1
<1>4. CASE TakeTask
  <2>1. UNCHANGED Active
    BY <1>4 DEF TakeTask, Active
  <2> QED
    BY <1>4, <2>1 DEF TakeTask
<1>5. CASE EndTask \/ CancelWorker
  <2>1. UNCHANGED Active
    BY <1>5 DEF EndTask, CancelWorker, Active
  <2> QED
    BY <1>5, <2>1 DEF EndTask, CancelWorker, Past
<1>6. CASE WorkerLogs \/ NextDay \/ \E g \in Goroutines : Proceed(g)
  <2>1. UNCHANGED serverVars /\ UNCHANGED Active
    BY <1>6 DEF WorkerLogs, NextDay, Proceed, serverVars, Active
  <2> QED
    BY <2>1 DEF serverVars
<1>7. CASE ListenFails \/ GiveUp \/ Signal \/ CloseGateway \/ StopListening
  <2>1. UNCHANGED Active
    BY <1>7 DEF ListenFails, GiveUp, Signal, CloseGateway, StopListening, Active
  <2> QED
    BY <1>7, <2>1 DEF ListenFails, GiveUp, Signal, CloseGateway, StopListening, Step, Past
<1>8. CASE WorkerStopped \/ Drained
  <2>1. UNCHANGED Active
    BY <1>8 DEF WorkerStopped, Drained, Active
  <2> QED
    BY <1>8, <2>1 DEF WorkerStopped, Drained, Step, Past
<1>9. CASE CloseDatabase \/ CloseLogFile \/ LastRecord \/ Exit
  <2>1. UNCHANGED Active
    BY <1>9 DEF CloseDatabase, CloseLogFile, LastRecord, Exit, Active
  <2> QED
    BY <1>9, <2>1 DEF CloseDatabase, CloseLogFile, LastRecord, Exit, Step, Past
<1>10. CASE UNCHANGED shutdownVars
  <2>1. UNCHANGED serverVars /\ UNCHANGED Active
    BY <1>10 DEF shutdownVars, serverVars, Active
  <2> QED
    BY <2>1 DEF serverVars
<1> QED
  BY <1>1, <1>2, <1>3, <1>4, <1>5, <1>6, <1>7, <1>8, <1>9, <1>10 DEF ShutdownNext, Closing

LEMMA InitHolds == ShutdownInit => ShutdownInv
<1> SUFFICES ASSUME ShutdownInit PROVE ShutdownInv
  OBVIOUS
<1>1. IsFiniteSet(Handlers) /\ Cardinality(Handlers) \in Nat
  BY HandlerAssumption, FS_CardinalityType DEF Handlers
<1>2. 1 \in Files /\ 0 \in Days
  BY <1>1, DayAssumption DEF Files, Days
<1>3. LogType
  BY <1>2 DEF ShutdownInit, LogInit, LogType
<1>4. \A h \in Handlers : IF h \in Lasting THEN handler[h] = [date |-> 0, file |-> 1]
                                            ELSE handler[h] = NoHandler
  BY DEF ShutdownInit, LogInit
<1>5. \A h \in Handlers : handler[h] # NoHandler <=> h \in Lasting
  BY <1>4 DEF NoHandler
<1>6. LogInv
  BY <1>3, <1>4, <1>5 DEF LogInv, Owned, Dated, Shared, CallsFresh, Exists, ShutdownInit, LogInit,
                          NoHandler, NoCall, Handlers
<1>7. ServerType
  BY <1>5, Loggers DEF ServerType, Exists, ShutdownInit, Phases
<1>8. Waited
  BY DEF Waited, ShutdownInit, AfterWorker, AfterServer
<1>9. DeadHandlersAreSpoiled
  BY <1>4 DEF DeadHandlersAreSpoiled, ShutdownInit, LogInit, NoHandler
<1> QED
  BY <1>6, <1>7, <1>8, <1>9 DEF ShutdownInv

LEMMA ShutdownStep == ShutdownInv /\ [ShutdownNext]_shutdownVars => ShutdownInv'
<1> SUFFICES ASSUME ShutdownInv, [ShutdownNext]_shutdownVars PROVE ShutdownInv'
  OBVIOUS
<1>1. LogInv' /\ DeadHandlersAreSpoiled'
  BY LogStep
<1>2. ServerType'
  BY ServerStep
<1>3. Waited'
  BY WaitedStep
<1> QED
  BY <1>1, <1>2, <1>3 DEF ShutdownInv

-----------------------------------------------------------------------------

(* Every variable keeps its type; a request has a logger exactly while it  *)
(* is under way (middleware of server/bootstrap.go, EnrichLogger).         *)
THEOREM TypeCorrect == ShutdownSpec => []ShutdownTypeOK
<1>1. ShutdownInv => ShutdownTypeOK
  BY DEF ShutdownInv, LogInv, LogType, ServerType, Owned, ShutdownTypeOK
<1> QED
  BY InitHolds, ShutdownStep, <1>1, PTL DEF ShutdownSpec

(* Whatever is logged by whom and whenever, the database is closed after    *)
(* the requests and the worker that use it, or after their deadlines        *)
(* (server/bootstrap.go:205-215).                                           *)
THEOREM DatabaseIsClosedLast == ShutdownSpec => []DatabaseOutlivesItsUsers
<1>1. ShutdownInv => DatabaseOutlivesItsUsers
  BY DEF ShutdownInv, Waited, DatabaseOutlivesItsUsers
<1> QED
  BY InitHolds, ShutdownStep, <1>1, PTL DEF ShutdownSpec

(* No handler is cut off from the day's file but by a call that brought an  *)
(* older date into the lock, or by the end (daily_handler.go:37-60).        *)
THEOREM HandlersStayAlive == ShutdownSpec => []DeadHandlersAreSpoiled
<1>1. ShutdownInv => DeadHandlersAreSpoiled
  BY DEF ShutdownInv
<1> QED
  BY InitHolds, ShutdownStep, <1>1, PTL DEF ShutdownSpec

(* A record begun and written on the same day is written to an open file,   *)
(* with the same two exceptions.                                            *)
THEOREM RecordsAreKept == ShutdownSpec => LostOnlyAtMidnight
<1> DEFINE Kept ==
       \A g \in Goroutines :
         (/\ call[g].at = "rotated" /\ call'[g] = NoCall
          /\ handler[call[g].handler].file \notin open)
         => call[g].date # day \/ day \in spoiled \/ LogClosed
<1>1. ShutdownInv => Kept
  <2> SUFFICES ASSUME ShutdownInv, NEW g \in Goroutines, call[g].at = "rotated",
                      handler[call[g].handler].file \notin open, call[g].date = day
               PROVE  day \in spoiled \/ LogClosed
    OBVIOUS
  <2>1. call[g].handler \in Handlers
    BY DEF ShutdownInv, LogInv, LogType, NoCall
  <2>2. handler[call[g].handler].date = day \/ day \in spoiled
    BY DEF ShutdownInv, LogInv, CallsFresh
  <2> QED
    BY <2>1, <2>2 DEF ShutdownInv, DeadHandlersAreSpoiled
<1>2. ShutdownInv /\ [ShutdownNext]_shutdownVars => [Kept]_shutdownVars
  BY <1>1
<1> QED
  BY InitHolds, ShutdownStep, <1>2, PTL DEF ShutdownSpec, LostOnlyAtMidnight
=============================================================================
