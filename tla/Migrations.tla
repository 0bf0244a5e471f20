----------------------------- MODULE Migrations -----------------------------
(***************************************************************************)
(* The schema and data migrations of a start (database/migrate*.go): one   *)
(* action per statement, in the order autoMigrate runs them, without a     *)
(* transaction around them.  A statement that fails ends the process       *)
(* (server/bootstrap.go:66), exactly as a crash does, and the next start   *)
(* runs all migrations again on what is left.                              *)
(*                                                                         *)
(* The rows are what the migrations move: the health records of platforms, *)
(* the old columns of a platform and the endpoint made from them, and the  *)
(* request type of a log row and the two flags made from it.  The link     *)
(* migration (migrate_model_keys.go) is modelled in ModelKeys and is a     *)
(* statement without effect here.                                          *)
(***************************************************************************)
EXTENDS Naturals, Sequences, FiniteSets, FiniteSetsExt

CONSTANTS
  Platforms,    \* rows of platforms an old database can hold
  Ghost,        \* a resource that was deleted but has health records
  Formats,      \* provider names of the old schema
  OldHealths    \* sets of old health rows <<resource, last_check_at>>

ASSUME GhostIsNoPlatform == Ghost \notin Platforms
ASSUME OldHealthRows == \A H \in OldHealths : H \subseteq (Platforms \cup {Ghost}) \X Nat

VARIABLES
  db,     \* the tables, which outlive the process
  todo,   \* platforms the current migration has read and not handled yet
  kept,   \* health records in memory between DropTable and Create
  step,   \* the next statement of the start, or "none"
  origin  \* history: the tables as the first start found them

migrationVars == <<db, todo, kept, step, origin>>

OldColumns == {"provider", "variant", "custom_headers"}
RequestTypes == {"stream", "non-stream", "stream-native", "non-stream-native"}

\* Highest last_check_at of the rows of resource r.
Newest(rows, r) == Max({row[2] : row \in {x \in rows : x[1] = r}})

-----------------------------------------------------------------------------
(* Databases a start can find. *)

Row(format, provider) == [format |-> format, provider |-> provider, variant |-> ""]
LogRow(type) == [type |-> type, stream |-> FALSE, native |-> FALSE]
NoLogs == [r \in {} |-> LogRow("stream")]
NoPlatforms == [p \in {} |-> Row("", "")]

Fresh == [healths   |-> [shape |-> "absent", rows |-> {}],
          columns   |-> {}, platforms |-> NoPlatforms, endpoints |-> <<>>,
          logCols   |-> {}, logs |-> NoLogs]

\* Written by an earlier release: several health rows per resource, the
\* provider in the platform's row, the request type as text.
Old(H, columns, rows) ==
  [healths   |-> [shape |-> "old", rows |-> H],
   columns   |-> columns, platforms |-> rows, endpoints |-> <<>>,
   logCols   |-> {"request_type"}, logs |-> [t \in RequestTypes |-> LogRow(t)]]

OldDatabase ==
  \E H \in OldHealths :
     \/ \E f \in [Platforms -> Formats] :
          db = Old(H, OldColumns, [p \in Platforms |-> Row("", f[p])])
     \/ \E f \in [Platforms -> Formats \cup {""}], g \in [Platforms -> {"", "OpenAI"}] :
          db = Old(H, OldColumns \cup {"format"}, [p \in Platforms |-> Row(f[p], g[p])])
     \/ db = Old(H, {"format"}, [p \in Platforms |-> Row("OpenAI", "")])

-----------------------------------------------------------------------------
(* Statements. *)

Then(s) == step' = s

\* The rows are read in memory, one per resource: the newest.
HealthBackup ==
  /\ step = "health"
  /\ IF db.healths.shape # "old"
     THEN Then("schema") /\ UNCHANGED kept
     ELSE /\ kept' = {row \in db.healths.rows : row[2] = Newest(db.healths.rows, row[1])}
          /\ Then("healthDrop")
  /\ UNCHANGED <<db, todo, origin>>

HealthDrop ==
  /\ step = "healthDrop"
  /\ db' = [db EXCEPT !.healths = [shape |-> "absent", rows |-> {}]]
  /\ Then("healthCreate")
  /\ UNCHANGED <<todo, kept, origin>>

HealthCreate ==
  /\ step = "healthCreate"
  /\ db' = [db EXCEPT !.healths.shape = "new"]
  /\ Then("healthRestore")
  /\ UNCHANGED <<todo, kept, origin>>

HealthRestore ==
  /\ step = "healthRestore"
  /\ db' = [db EXCEPT !.healths.rows = kept]
  /\ kept' = {}
  /\ Then("schema")
  /\ UNCHANGED <<todo, origin>>

\* AutoMigrate works through types.Types: it makes missing tables and adds
\* missing columns, and never drops one.
Schema ==
  /\ step = "schema"
  /\ db' = [db EXCEPT !.healths.shape = IF @ = "absent" THEN "new" ELSE @]
  /\ Then("schemaLogs")
  /\ UNCHANGED <<todo, kept, origin>>

SchemaLogs ==
  /\ step = "schemaLogs"
  /\ db' = [db EXCEPT !.logCols = @ \cup {"is_stream", "is_native"}]
  /\ Then("format")
  /\ UNCHANGED <<todo, kept, origin>>

\* getDefaultVariant
DefaultVariant(format) ==
  CASE format = "OpenAI"    -> "chat_completions"
    [] format = "Anthropic" -> "messages"
    [] format = "Gemini"    -> "generate"
    [] OTHER                -> "default"

FormatRead ==
  /\ step = "format"
  /\ IF {"format", "provider"} \subseteq db.columns /\ DOMAIN db.platforms # {}
     THEN todo' = DOMAIN db.platforms /\ Then("formatRow")
     ELSE Then("links") /\ UNCHANGED todo
  /\ UNCHANGED <<db, kept, origin>>

\* Only a row without a provider takes the one its format names.
FormatRow(p) ==
  /\ step = "formatRow" /\ p \in todo
  /\ todo' = todo \ {p}
  /\ IF db.platforms[p].provider # "" \/ db.platforms[p].format = ""
     THEN UNCHANGED db
     ELSE db' = [db EXCEPT !.platforms[p].provider = db.platforms[p].format,
                           !.platforms[p].variant = DefaultVariant(db.platforms[p].format)]
  /\ UNCHANGED <<kept, step, origin>>

FormatDrop ==
  /\ step = "formatRow" /\ todo = {}
  /\ db' = [db EXCEPT !.columns = @ \ {"format"},
                       !.platforms = [p \in DOMAIN @ |-> [@[p] EXCEPT !.format = ""]]]
  /\ Then("links")
  /\ UNCHANGED <<todo, kept, origin>>

\* migrateModelAPIKeysToAssociations: see ModelKeys.
Links ==
  /\ step = "links"
  /\ Then("endpoints")
  /\ UNCHANGED <<db, todo, kept, origin>>

\* The endpoint's type: lower case, and Gemini is called google.
EndpointType(provider) ==
  CASE provider = "OpenAI"    -> "openai"
    [] provider = "Anthropic" -> "anthropic"
    [] provider = "Gemini"    -> "google"
    [] OTHER                  -> provider

DefaultEndpoint(p) ==
  [platform |-> p, type |-> EndpointType(db.platforms[p].provider),
   variant |-> db.platforms[p].variant]

\* Seeded bug: one old column left is taken for an old table.
EndpointsRead_some ==
  /\ step = "endpoints"
  /\ IF OldColumns \cap db.columns # {}
     THEN todo' = DOMAIN db.platforms /\ Then("endpointRow")
     ELSE Then("logs") /\ UNCHANGED todo
  /\ UNCHANGED <<db, kept, origin>>

EndpointsRead ==
  /\ step = "endpoints"
  /\ IF OldColumns \subseteq db.columns
     THEN todo' = DOMAIN db.platforms /\ Then("endpointRow")
     ELSE Then("logs") /\ UNCHANGED todo
  /\ UNCHANGED <<db, kept, origin>>

\* ON CONFLICT DO NOTHING never applies: no column but the id is unique.
EndpointRow(p) ==
  /\ step = "endpointRow" /\ p \in todo
  /\ todo' = todo \ {p}
  /\ db' = [db EXCEPT !.endpoints = Append(@, DefaultEndpoint(p))]
  /\ UNCHANGED <<kept, step, origin>>

\* Seeded bug: the provider column is dropped while platforms are still to do.
DropProvider_early ==
  /\ step = "endpointRow" /\ Cardinality(todo) <= 1
  /\ db' = [db EXCEPT !.columns = @ \ {"provider"},
                       !.platforms = [p \in DOMAIN @ |-> [@[p] EXCEPT !.provider = ""]]]
  /\ Then("dropVariant")
  /\ UNCHANGED <<todo, kept, origin>>

\* Seeded bug: the old columns are kept for a later release.
DropProvider_keeps ==
  /\ step = "endpointRow" /\ todo = {}
  /\ Then("logs")
  /\ UNCHANGED <<db, todo, kept, origin>>

DropProvider ==
  /\ step = "endpointRow" /\ todo = {}
  /\ db' = [db EXCEPT !.columns = @ \ {"provider"},
                       !.platforms = [p \in DOMAIN @ |-> [@[p] EXCEPT !.provider = ""]]]
  /\ Then("dropVariant")
  /\ UNCHANGED <<todo, kept, origin>>

DropVariant ==
  /\ step = "dropVariant"
  /\ db' = [db EXCEPT !.columns = @ \ {"variant"},
                       !.platforms = [p \in DOMAIN @ |-> [@[p] EXCEPT !.variant = ""]]]
  /\ Then("dropHeaders")
  /\ UNCHANGED <<todo, kept, origin>>

DropHeaders ==
  /\ step = "dropHeaders"
  /\ db' = [db EXCEPT !.columns = @ \ {"custom_headers"}]
  /\ Then("logs")
  /\ UNCHANGED <<todo, kept, origin>>

\* LIKE '%stream%' AND NOT LIKE '%non-stream%', and LIKE '%-native'.
Streams(type) == type \in {"stream", "stream-native"}
Native(type)  == type \in {"stream-native", "non-stream-native"}

Flagged(row) == [row EXCEPT !.stream = Streams(row.type), !.native = Native(row.type)]

\* One UPDATE of the rows with neither flag.
LogsFill ==
  /\ step = "logs"
  /\ IF {"request_type", "is_stream", "is_native"} \subseteq db.logCols
     THEN /\ db' = [db EXCEPT !.logs =
                     [t \in DOMAIN @ |-> IF @[t].stream \/ @[t].native THEN @[t]
                                        ELSE Flagged(@[t])]]
          /\ Then("logsDrop")
     ELSE Then("orphans") /\ UNCHANGED db
  /\ UNCHANGED <<todo, kept, origin>>

LogsDrop ==
  /\ step = "logsDrop"
  /\ db' = [db EXCEPT !.logCols = @ \ {"request_type"},
                       !.logs = [t \in DOMAIN @ |-> [@[t] EXCEPT !.type = ""]]]
  /\ Then("orphans")
  /\ UNCHANGED <<todo, kept, origin>>

Orphans == {row \in db.healths.rows : row[1] \notin DOMAIN db.platforms}

\* cleanOrphanedHealthRecords: one DELETE per record without a resource.
CleanOrphan ==
  /\ step = "orphans"
  /\ \E row \in Orphans : db' = [db EXCEPT !.healths.rows = @ \ {row}]
  /\ UNCHANGED <<todo, kept, step, origin>>

Migrated ==
  /\ step = "orphans" /\ Orphans = {}
  /\ Then("services")
  /\ UNCHANGED <<db, todo, kept, origin>>

Migrate ==
  \/ HealthBackup \/ HealthDrop \/ HealthCreate \/ HealthRestore
  \/ Schema \/ SchemaLogs
  \/ FormatRead \/ (\E p \in todo : FormatRow(p)) \/ FormatDrop
  \/ Links
  \/ EndpointsRead \/ (\E p \in todo : EndpointRow(p))
  \/ DropProvider \/ DropVariant \/ DropHeaders
  \/ LogsFill \/ LogsDrop
  \/ CleanOrphan \/ Migrated

MigrationInit ==
  /\ db = Fresh \/ OldDatabase
  /\ origin = db
  /\ todo = {} /\ kept = {} /\ step = "none"
=============================================================================
