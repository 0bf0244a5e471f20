---------------------------- MODULE HealthStorage ----------------------------
(***************************************************************************)
(* The health records of platforms, keys and models:                       *)
(* internal/app/health/{storage,service,service_query}.go, the control     *)
(* plane's enable and disable (internal/app/provider/*_health_app_service  *)
(* and the repositories under it), the adapter the gateway writes through  *)
(* (internal/infra/portal/healthadapter) and the clean-up at start         *)
(* (database/migrate_health.go).                                           *)
(*                                                                         *)
(* A record lives twice: in a sync.Map that every reader uses and in the   *)
(* healths table.  A write stores the cache entry and then the row, with   *)
(* nothing that keeps two writers of a resource apart, and inside no       *)
(* transaction: the one the control plane opens around it holds no         *)
(* statement, so its outcome changes only the reply.  Records are kept per *)
(* kind of resource and kinds do not meet, so one kind is modelled.        *)
(***************************************************************************)
EXTENDS Integers, FiniteSets

CONSTANTS
  Resources,    \* ids of one kind of resource; an id is never used twice
  NoResource,   \* the resource of a caller that is not serving a request
  Admins,       \* goroutines serving PUT .../health of the control plane
  Gateways,     \* goroutines relaying a request through the portal library
  DbFails       \* TRUE: the database may refuse a write

ASSUME HealthStorageAssumption ==
  /\ IsFiniteSet(Resources)
  /\ NoResource \notin Resources
  /\ Admins \cap Gateways = {}
  /\ DbFails \in BOOLEAN

Callers == Admins \cup Gateways
Status  == {"Available", "Warning", "Unavailable"}
None    == "none"                       \* no record: status unknown
Value   == Status \cup {None}
Unknown == "unknown"                    \* of the history variable stored

VARIABLES
  phase,     \* "down", "cleaning" (migrations), "up"
  row,       \* the resource's own row: "fresh" (not created), "live", "deleted"
  cache,     \* Storage.cache
  table,     \* the healths table
  call,      \* per caller: where it is and what it is writing
  toClean,   \* orphans listed by cleanOrphanedHealthRecords
  summary,   \* a GetHealthSummary request
  clean,     \* history: resources with no refused or overlapping write since start
  stored,    \* history: value of the last write, when both halves are done
  gone       \* history: resources deleted since start

history == <<clean, stored, gone>>
vars == <<phase, row, cache, table, call, toClean, summary, history>>

Idle      == [pc |-> "idle", res |-> NoResource, val |-> None]
NoSummary == [pc |-> "idle", total |-> 0, unknown |-> 0, raced |-> FALSE]

Live  == {r \in Resources : row[r] = "live"}
\* Callers between the two halves of a write of r.
Writing(r) == {c \in Callers : call[c].pc = "table" /\ call[c].res = r}

Init ==
  /\ phase = "down"
  /\ row = [r \in Resources |-> "fresh"]
  /\ cache = [r \in Resources |-> None]
  /\ table = [r \in Resources |-> None]
  /\ call = [c \in Callers |-> Idle]
  /\ toClean = {}
  /\ summary = NoSummary
  /\ clean = [r \in Resources |-> FALSE]
  /\ stored = [r \in Resources |-> Unknown]
  /\ gone = {}

-----------------------------------------------------------------------------
(* Start and end of the process.  Connect cleans the table before           *)
(* NewStorage loads it; both finish before the server listens.              *)

BeginBoot ==
  /\ phase = "down"
  /\ phase' = "cleaning"
  /\ toClean' = {r \in Resources : table[r] # None /\ row[r] # "live"}
  /\ UNCHANGED <<row, cache, table, call, summary, history>>

CleanRecord(r) ==
  /\ phase = "cleaning"
  /\ r \in toClean
  /\ toClean' = toClean \ {r}
  /\ table' = [table EXCEPT ![r] = None]
  /\ stored' = [stored EXCEPT ![r] = Unknown]
  /\ UNCHANGED <<phase, row, cache, call, summary, clean, gone>>

\* Seeded bug: the cached entries of healthy resources are not loaded.
LoadCache_skipsAvailable ==
  /\ phase = "cleaning"
  /\ toClean = {}
  /\ phase' = "up"
  /\ cache' = [r \in Resources |-> IF table[r] = "Available" THEN None ELSE table[r]]
  /\ clean' = [r \in Resources |-> TRUE]
  /\ gone' = {}
  /\ UNCHANGED <<row, table, call, toClean, summary, stored>>

LoadCache ==
  /\ phase = "cleaning"
  /\ toClean = {}
  /\ phase' = "up"
  /\ cache' = table
  /\ clean' = [r \in Resources |-> TRUE]
  /\ gone' = {}
  /\ UNCHANGED <<row, table, call, toClean, summary, stored>>

\* A stop or a crash, also in the middle of a start or of a write.
Crash ==
  /\ phase # "down"
  /\ phase' = "down"
  /\ cache' = [r \in Resources |-> None]
  /\ call' = [c \in Callers |-> Idle]
  /\ toClean' = {}
  /\ summary' = NoSummary
  /\ UNCHANGED <<row, table, history>>

-----------------------------------------------------------------------------
(* Writers. *)

\* Update...HealthEnabled: the resource is looked up first; disabling writes
\* Unavailable, enabling deletes the record.
Request(c, r, enabled) ==
  /\ phase = "up"
  /\ c \in Admins
  /\ call[c].pc = "idle"
  /\ row[r] = "live"
  /\ call' = [call EXCEPT ![c] =
                [pc |-> "cache", res |-> r,
                 val |-> IF enabled THEN None ELSE "Unavailable"]]
  /\ UNCHANGED <<phase, row, cache, table, toClean, summary, history>>

\* The portal library reads the record (Adapter.Get), does not pick a
\* resource that is unavailable, and relays the request.
Pick(c, r) ==
  /\ phase = "up"
  /\ c \in Gateways
  /\ call[c].pc = "idle"
  /\ row[r] = "live"
  /\ cache[r] # "Unavailable"
  /\ call' = [call EXCEPT ![c] = [pc |-> "relay", res |-> r, val |-> None]]
  /\ UNCHANGED <<phase, row, cache, table, toClean, summary, history>>

\* The library reports an outcome through Adapter.Set or Adapter.Delete.
Report(c, v) ==
  /\ call[c].pc = "relay"
  /\ call' = [call EXCEPT ![c] = [@ EXCEPT !.pc = "cache", !.val = v]]
  /\ UNCHANGED <<phase, row, cache, table, toClean, summary, history>>

\* First half of Storage.Set and Storage.Delete.
WriteCache(c) ==
  /\ call[c].pc = "cache"
  /\ LET r == call[c].res IN
     /\ cache' = [cache EXCEPT ![r] = call[c].val]
     /\ clean' = [clean EXCEPT ![r] = @ /\ Writing(r) = {}]
     /\ stored' = [stored EXCEPT ![r] = Unknown]
  /\ call' = [call EXCEPT ![c].pc = "table"]
  /\ UNCHANGED <<phase, row, table, toClean, summary, gone>>

\* Seeded bug: Delete drops the cache entry and leaves the row.
WriteTable_keepsRow(c) ==
  /\ call[c].pc = "table"
  /\ LET r == call[c].res IN
     /\ table' = [table EXCEPT ![r] = IF call[c].val = None THEN @ ELSE call[c].val]
     /\ stored' = [stored EXCEPT ![r] = IF clean[r] THEN call[c].val ELSE Unknown]
  /\ call' = [call EXCEPT ![c] = Idle]
  /\ UNCHANGED <<phase, row, cache, toClean, summary, clean, gone>>

\* Second half: the upsert or the delete of the row.
WriteTable(c) ==
  /\ call[c].pc = "table"
  /\ LET r == call[c].res IN
     /\ table' = [table EXCEPT ![r] = call[c].val]
     /\ stored' = [stored EXCEPT ![r] = IF clean[r] THEN call[c].val ELSE Unknown]
  /\ call' = [call EXCEPT ![c] = Idle]
  /\ UNCHANGED <<phase, row, cache, toClean, summary, clean, gone>>

\* The database refuses it: the caller gets an error, the cache entry stays.
RefuseTable(c) ==
  /\ DbFails
  /\ call[c].pc = "table"
  /\ clean' = [clean EXCEPT ![call[c].res] = FALSE]
  /\ call' = [call EXCEPT ![c] = Idle]
  /\ UNCHANGED <<phase, row, cache, table, toClean, summary, stored, gone>>

-----------------------------------------------------------------------------
(* Resources come and go; nothing removes the record of a deleted one until *)
(* the next start.                                                          *)

CreateRow(r) ==
  /\ phase = "up"
  /\ row[r] = "fresh"
  /\ row' = [row EXCEPT ![r] = "live"]
  /\ summary' = [summary EXCEPT !.raced = @ \/ summary.pc = "count"]
  /\ UNCHANGED <<phase, cache, table, call, toClean, history>>

DeleteRow(r) ==
  /\ phase = "up"
  /\ row[r] = "live"
  /\ row' = [row EXCEPT ![r] = "deleted"]
  /\ gone' = gone \cup {r}
  /\ UNCHANGED <<phase, cache, table, call, toClean, summary, clean, stored>>

-----------------------------------------------------------------------------
(* GetHealthSummary: the total comes from the database, the statuses from   *)
(* the cache, and what is left of the total is reported as unknown.         *)

\* CountByResourceType: every cached record has one of the three statuses.
Counted == Cardinality({r \in Resources : cache[r] \in Status})

SummaryTotal ==
  /\ phase = "up"
  /\ summary.pc = "idle"
  /\ summary' = [pc |-> "count", total |-> Cardinality(Live), unknown |-> 0, raced |-> FALSE]
  /\ UNCHANGED <<phase, row, cache, table, call, toClean, history>>

\* Seeded bug: an unavailable resource is counted as a warning as well.
SummaryCount_twice ==
  /\ summary.pc = "count"
  /\ summary' = [summary EXCEPT !.pc = "done",
                   !.unknown = summary.total - Counted
                               - Cardinality({r \in Resources : cache[r] = "Unavailable"})]
  /\ UNCHANGED <<phase, row, cache, table, call, toClean, history>>

SummaryCount ==
  /\ summary.pc = "count"
  /\ summary' = [summary EXCEPT !.pc = "done", !.unknown = summary.total - Counted]
  /\ UNCHANGED <<phase, row, cache, table, call, toClean, history>>

SummaryReply ==
  /\ summary.pc = "done"
  /\ summary' = NoSummary
  /\ UNCHANGED <<phase, row, cache, table, call, toClean, history>>

-----------------------------------------------------------------------------
Write(c) ==
  \/ \E r \in Resources, enabled \in BOOLEAN : Request(c, r, enabled)
  \/ \E r \in Resources : Pick(c, r)
  \/ \E v \in Value : Report(c, v)
  \/ WriteCache(c)
  \/ WriteTable(c)
  \/ RefuseTable(c)

Boot == BeginBoot \/ (\E r \in Resources : CleanRecord(r)) \/ LoadCache

Next ==
  \/ Boot
  \/ Crash
  \/ \E c \in Callers : Write(c)
  \/ \E r \in Resources : CreateRow(r) \/ DeleteRow(r)
  \/ SummaryTotal \/ SummaryCount \/ SummaryReply

Spec == Init /\ [][Next]_vars

-----------------------------------------------------------------------------
(* Properties. *)

\* Types; between starts nothing is cached and nobody is served.
TypeOK ==
  /\ phase \in {"down", "cleaning", "up"}
  /\ row \in [Resources -> {"fresh", "live", "deleted"}]
  /\ cache \in [Resources -> Value]
  /\ table \in [Resources -> Value]
  /\ call \in [Callers -> [pc : {"idle", "relay", "cache", "table"},
                           res : Resources \cup {NoResource}, val : Value]]
  /\ \A c \in Callers : call[c].pc # "idle" => phase = "up" /\ call[c].res \in Resources
  /\ phase # "up" => \A r \in Resources : cache[r] = None
  /\ toClean \subseteq Resources
  /\ summary \in [pc : {"idle", "count", "done"}, total : Nat, unknown : Int, raced : BOOLEAN]
  /\ clean \in [Resources -> BOOLEAN]
  /\ stored \in [Resources -> Value \cup {Unknown}]
  /\ gone \subseteq Resources

\* Cache and table part only over a refused write or two writes of the same
\* resource that overlapped: whatever else interleaves, a resource nobody is
\* writing reads the same from both (Storage.Set, Delete, loadFromDatabase).
CacheMatchesTable ==
  phase = "up" =>
    \A r \in Resources : clean[r] /\ Writing(r) = {} => cache[r] = table[r]

\* A write that finished alone is what the table holds until the next write of
\* that resource begins, over any number of crashes and restarts, and what
\* every reader sees; only the clean-up of a deleted resource removes it.
FinishedWriteHolds ==
  \A r \in Resources : stored[r] # Unknown =>
    /\ table[r] = stored[r]
    /\ phase = "up" => cache[r] = stored[r]

\* A record of a resource that no longer exists is a leftover of this run of
\* the process: the next start removes it before the cache is loaded.
OrphansAreRecent ==
  phase = "up" =>
    \A r \in Resources : cache[r] # None => row[r] = "live" \/ r \in gone

\* Fewer resources than statuses are reported only after a deletion in this
\* run, or when a resource appeared between the two reads of the summary.
NegativeNeedsDeletion ==
  summary.pc = "done" /\ summary.unknown < 0 => gone # {} \/ summary.raced
=============================================================================
